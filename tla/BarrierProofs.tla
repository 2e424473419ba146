---------------------------- MODULE BarrierProofs ----------------------------
(***************************************************************************)
(* The rounds of a test run in which nothing goes wrong: where every       *)
(* fragment is, and what is in its queues, while the orchestrator is at a  *)
(* given send or receive.  For every number of fragments, every graph of   *)
(* links between them and every number of requests and faults.             *)
(***************************************************************************)
EXTENDS OrchestrationProofs

\* Nothing has gone wrong, and no timeout was too short.
Calm == ~late /\ faults_left = MaxFaults

\* What is in a queue: nothing, one message of some type, or the two requests that
\* may be waiting at the beginning.
Kind(q) ==
  IF q = <<>> THEN "none"
  ELSE IF Tail(q) = <<>> THEN Head(q).type
  ELSE IF /\ Head(q).type = "SETUP_CTRL"
          /\ Head(Tail(q)).type = "SETUP_PCAP"
          /\ Tail(Tail(q)) = <<>>
       THEN "both" ELSE "many"

\* The state a fragment is in before it answers in round r, and after it.
Before(r) == IF r = "END_TESTCASE" THEN "RUN_TESTCASE" ELSE r

After(r) ==
  CASE r = "TOPOLOGY" -> "START_MIXNET_SERVER"
    [] r = "START_MIXNET_SERVER" -> "START_MIXNET_CLIENTS"
    [] r = "START_MIXNET_CLIENTS" -> "RESOLVE_MIXNET_CONNS"
    [] r = "RESOLVE_MIXNET_CONNS" -> "START_TESTCASE"
    [] r = "START_TESTCASE" -> "RUN_TESTCASE"
    [] r = "END_TESTCASE" -> "SHUTDOWN"
    [] r = "SHUTDOWN" -> "DONE"

\* Rounds that are a request and an answer.
Plain == {"TOPOLOGY", "START_MIXNET_SERVER", "START_MIXNET_CLIENTS", "RESOLVE_MIXNET_CONNS",
          "START_TESTCASE", "END_TESTCASE", "SHUTDOWN"}

\* Where a fragment is: its state and step, and what is on the way to and from it
\* on the ctrl and on the pcap plane.
Where(f) == <<fstate[f], fstep[f], Kind(to["ctrl"][f]), Kind(to["pcap"][f]),
              Kind(from["ctrl"][f]), Kind(from["pcap"][f])>>

\* Somewhere in state s, with nothing on its way.
Rests(s) == <<s, "await", "none", "none", "none", "none">>

\* The places of a fragment from which the orchestrator awaits an answer, in state r at
\* step i,
Due(r, i) ==
  CASE r = "SETUP_CTRL" /\ i = 1 ->
         {<<"SETUP_CTRL", "connect", "none", "none", "none", "none">>,
          <<"SETUP_CTRL", "await", "none", "none", "SETUP_CTRL", "none">>}
    [] r = "SETUP_PCAP" /\ i = 2 ->
         {<<"SETUP_CTRL", "await", "both", "none", "none", "none">>,
          <<"SETUP_PCAP", "await", "SETUP_PCAP", "none", "none", "none">>,
          <<"SETUP_PCAP", "connect", "SETUP_PCAP", "none", "SETUP_PCAP", "none">>,
          <<"SETUP_PCAP", "handshake", "none", "none", "SETUP_PCAP", "SETUP_PCAP">>}
    [] r = "SETUP_PCAP" /\ i = 3 ->
         {<<"SETUP_PCAP", "connect", "SETUP_PCAP", "none", "none", "none">>,
          <<"SETUP_PCAP", "handshake", "none", "none", "none", "SETUP_PCAP">>}
    [] r \in Plain /\ i = 2 ->
         {<<Before(r), "await", r, "none", "none", "none">>,
          <<After(r), "await", "none", "none", r, "none">>}
         \cup (IF r = "TOPOLOGY"
                 THEN {<<"SETUP_PCAP", "handshake", "TOPOLOGY", "SETUP_PCAP", "none", "none">>}
                 ELSE {})
         \cup (IF r = "START_MIXNET_CLIENTS" THEN {<<r, "accept", r, "none", "none", "none">>} ELSE {})
    [] r = "RUN_TESTCASE" ->
         {<<"RUN_TESTCASE", "await", "OP", "none", "none", "none">>,
          <<"RUN_TESTCASE", "await", "none", "none", "OP", "none">>}
    [] OTHER -> {}

\* and those of one from which it does not.
Settled(r, i) ==
  CASE r = "SETUP_CTRL" -> {Rests("SETUP_CTRL")}
    [] r = "SETUP_PCAP" /\ i = 1 ->
         {<<"SETUP_CTRL", "await", "SETUP_CTRL", "none", "none", "none">>, Rests("SETUP_PCAP")}
    [] r = "SETUP_PCAP" /\ i = 2 ->
         {<<"SETUP_PCAP", "connect", "SETUP_PCAP", "none", "none", "none">>,
          <<"SETUP_PCAP", "handshake", "none", "none", "none", "SETUP_PCAP">>}
    [] r = "SETUP_PCAP" /\ i \in {3, 4} ->
         {<<"SETUP_PCAP", "handshake", "none", "none", "none", "none">>}
    [] r = "TOPOLOGY" /\ i = 1 ->
         {<<"SETUP_PCAP", "handshake", "none", "SETUP_PCAP", "none", "none">>, Rests("TOPOLOGY")}
    [] r \in Plain \ {"TOPOLOGY"} /\ i = 1 -> {Rests(Before(r))}
    [] r \in Plain /\ i = 2 -> {Rests(After(r))}
    [] r = "RUN_TESTCASE" -> {Rests("RUN_TESTCASE")}
    [] r \in {"RESET", "DONE"} -> {Rests("DONE")}
    [] OTHER -> {}

\* The orchestrator awaits an answer of f.
Awaits ==
  \/ state = "SETUP_CTRL" /\ step = 1
  \/ state = "SETUP_PCAP" /\ step \in {2, 3}
  \/ state \in Plain /\ step = 2

Polled(f) == IF state = "RUN_TESTCASE" THEN op = f ELSE Awaits /\ f \in pending

InPlace(f) == IF Polled(f) THEN Where(f) \in Due(state, step) ELSE Where(f) \in Settled(state, step)

\* f and its threads are well.
Well(f) ==
  /\ fstate[f] # "DONE" => life[f] = "running"
  /\ fstate[f] = "RUN_TESTCASE" => thread[f] = "running"
  /\ \A p \in Plane : \A m \in Told(p, f) : m.err = "NONE"

Orderly ==
  /\ exit_code = "NONE" /\ error = "NONE"
  /\ \A f \in Fragment : InPlace(f) /\ Well(f)

Barrier == Calm => Orderly

-----------------------------------------------------------------------------
(* The places *)

LEMMA RoundsAre ==
  /\ Round = Plain \cup {"SETUP_CTRL", "SETUP_PCAP"}
  /\ "SETUP_CTRL" \notin Plain /\ "SETUP_PCAP" \notin Plain /\ "RUN_TESTCASE" \notin Plain
  /\ "RESET" \notin Plain /\ "DONE" \notin Plain /\ "FORCEFUL_SHUTDOWN" \notin Plain
  BY RoundIs DEF Plain

LEMMA AfterIs ==
  /\ After("TOPOLOGY") = "START_MIXNET_SERVER" /\ After("START_MIXNET_SERVER") = "START_MIXNET_CLIENTS"
  /\ After("START_MIXNET_CLIENTS") = "RESOLVE_MIXNET_CONNS"
  /\ After("RESOLVE_MIXNET_CONNS") = "START_TESTCASE" /\ After("START_TESTCASE") = "RUN_TESTCASE"
  /\ After("END_TESTCASE") = "SHUTDOWN" /\ After("SHUTDOWN") = "DONE"
  BY DEF After

LEMMA DueIs ==
  /\ Due("SETUP_CTRL", 1) =
       {<<"SETUP_CTRL", "connect", "none", "none", "none", "none">>,
        <<"SETUP_CTRL", "await", "none", "none", "SETUP_CTRL", "none">>}
  /\ Due("SETUP_PCAP", 2) =
       {<<"SETUP_CTRL", "await", "both", "none", "none", "none">>,
        <<"SETUP_PCAP", "await", "SETUP_PCAP", "none", "none", "none">>,
        <<"SETUP_PCAP", "connect", "SETUP_PCAP", "none", "SETUP_PCAP", "none">>,
        <<"SETUP_PCAP", "handshake", "none", "none", "SETUP_PCAP", "SETUP_PCAP">>}
  /\ Due("SETUP_PCAP", 3) =
       {<<"SETUP_PCAP", "connect", "SETUP_PCAP", "none", "none", "none">>,
        <<"SETUP_PCAP", "handshake", "none", "none", "none", "SETUP_PCAP">>}
  /\ Due("RUN_TESTCASE", 1) =
       {<<"RUN_TESTCASE", "await", "OP", "none", "none", "none">>,
        <<"RUN_TESTCASE", "await", "none", "none", "OP", "none">>}
  /\ \A r \in Plain :
       /\ <<Before(r), "await", r, "none", "none", "none">> \in Due(r, 2)
       /\ <<After(r), "await", "none", "none", r, "none">> \in Due(r, 2)
       /\ \A w \in Due(r, 2) :
            \/ w = <<Before(r), "await", r, "none", "none", "none">>
            \/ w = <<After(r), "await", "none", "none", r, "none">>
            \/ r = "TOPOLOGY" /\ w = <<"SETUP_PCAP", "handshake", "TOPOLOGY", "SETUP_PCAP", "none", "none">>
            \/ r = "START_MIXNET_CLIENTS" /\ w = <<r, "accept", r, "none", "none", "none">>
  /\ <<"SETUP_PCAP", "handshake", "TOPOLOGY", "SETUP_PCAP", "none", "none">> \in Due("TOPOLOGY", 2)
  /\ <<"START_MIXNET_CLIENTS", "accept", "START_MIXNET_CLIENTS", "none", "none", "none">>
       \in Due("START_MIXNET_CLIENTS", 2)
<1>1. ASSUME NEW r \in Plain
      PROVE  Due(r, 2) =
         {<<Before(r), "await", r, "none", "none", "none">>,
          <<After(r), "await", "none", "none", r, "none">>}
         \cup (IF r = "TOPOLOGY"
                 THEN {<<"SETUP_PCAP", "handshake", "TOPOLOGY", "SETUP_PCAP", "none", "none">>}
                 ELSE {})
         \cup (IF r = "START_MIXNET_CLIENTS" THEN {<<r, "accept", r, "none", "none", "none">>} ELSE {})
  BY <1>1, RoundsAre DEF Due
<1>2. "TOPOLOGY" \in Plain /\ "START_MIXNET_CLIENTS" \in Plain
  BY DEF Plain
<1>3. /\ <<"SETUP_PCAP", "handshake", "TOPOLOGY", "SETUP_PCAP", "none", "none">> \in Due("TOPOLOGY", 2)
      /\ <<"START_MIXNET_CLIENTS", "accept", "START_MIXNET_CLIENTS", "none", "none", "none">>
           \in Due("START_MIXNET_CLIENTS", 2)
  BY <1>1, <1>2, Zenon
<1>4. ASSUME NEW r \in Plain
      PROVE  /\ <<Before(r), "await", r, "none", "none", "none">> \in Due(r, 2)
             /\ <<After(r), "await", "none", "none", r, "none">> \in Due(r, 2)
             /\ \A w \in Due(r, 2) :
                  \/ w = <<Before(r), "await", r, "none", "none", "none">>
                  \/ w = <<After(r), "await", "none", "none", r, "none">>
                  \/ r = "TOPOLOGY" /\ w = <<"SETUP_PCAP", "handshake", "TOPOLOGY", "SETUP_PCAP", "none", "none">>
                  \/ r = "START_MIXNET_CLIENTS" /\ w = <<r, "accept", r, "none", "none", "none">>
  BY <1>1, Zenon
<1>5. /\ Due("SETUP_CTRL", 1) =
           {<<"SETUP_CTRL", "connect", "none", "none", "none", "none">>,
            <<"SETUP_CTRL", "await", "none", "none", "SETUP_CTRL", "none">>}
      /\ Due("SETUP_PCAP", 2) =
           {<<"SETUP_CTRL", "await", "both", "none", "none", "none">>,
            <<"SETUP_PCAP", "await", "SETUP_PCAP", "none", "none", "none">>,
            <<"SETUP_PCAP", "connect", "SETUP_PCAP", "none", "SETUP_PCAP", "none">>,
            <<"SETUP_PCAP", "handshake", "none", "none", "SETUP_PCAP", "SETUP_PCAP">>}
      /\ Due("SETUP_PCAP", 3) =
           {<<"SETUP_PCAP", "connect", "SETUP_PCAP", "none", "none", "none">>,
            <<"SETUP_PCAP", "handshake", "none", "none", "none", "SETUP_PCAP">>}
      /\ Due("RUN_TESTCASE", 1) =
           {<<"RUN_TESTCASE", "await", "OP", "none", "none", "none">>,
            <<"RUN_TESTCASE", "await", "none", "none", "OP", "none">>}
  BY RoundsAre DEF Due
<1> QED
  BY <1>3, <1>4, <1>5

LEMMA SettledIs ==
  /\ \A i : Settled("SETUP_CTRL", i) = {Rests("SETUP_CTRL")}
  /\ Settled("SETUP_PCAP", 1) =
       {<<"SETUP_CTRL", "await", "SETUP_CTRL", "none", "none", "none">>, Rests("SETUP_PCAP")}
  /\ Settled("SETUP_PCAP", 2) =
       {<<"SETUP_PCAP", "connect", "SETUP_PCAP", "none", "none", "none">>,
        <<"SETUP_PCAP", "handshake", "none", "none", "none", "SETUP_PCAP">>}
  /\ Settled("SETUP_PCAP", 3) = {<<"SETUP_PCAP", "handshake", "none", "none", "none", "none">>}
  /\ Settled("SETUP_PCAP", 4) = {<<"SETUP_PCAP", "handshake", "none", "none", "none", "none">>}
  /\ Settled("TOPOLOGY", 1) =
       {<<"SETUP_PCAP", "handshake", "none", "SETUP_PCAP", "none", "none">>, Rests("TOPOLOGY")}
  /\ \A r \in Plain \ {"TOPOLOGY"} : Settled(r, 1) = {Rests(Before(r))}
  /\ \A r \in Plain : Settled(r, 2) = {Rests(After(r))}
  /\ \A i : Settled("RUN_TESTCASE", i) = {Rests("RUN_TESTCASE")}
  /\ \A i : Settled("RESET", i) = {Rests("DONE")} /\ Settled("DONE", i) = {Rests("DONE")}
  /\ \A i : Settled("FORCEFUL_SHUTDOWN", i) = {}
<1>1. \A r \in Plain \ {"TOPOLOGY"} : Settled(r, 1) = {Rests(Before(r))}
  BY RoundsAre DEF Settled
<1>2. \A r \in Plain : Settled(r, 2) = {Rests(After(r))}
  BY RoundsAre DEF Settled
<1>3. /\ \A i : Settled("RUN_TESTCASE", i) = {Rests("RUN_TESTCASE")}
      /\ \A i : Settled("RESET", i) = {Rests("DONE")} /\ Settled("DONE", i) = {Rests("DONE")}
      /\ \A i : Settled("FORCEFUL_SHUTDOWN", i) = {}
  BY RoundsAre DEF Settled
<1>4. /\ \A i : Settled("SETUP_CTRL", i) = {Rests("SETUP_CTRL")}
      /\ Settled("SETUP_PCAP", 1) =
           {<<"SETUP_CTRL", "await", "SETUP_CTRL", "none", "none", "none">>, Rests("SETUP_PCAP")}
      /\ Settled("SETUP_PCAP", 2) =
           {<<"SETUP_PCAP", "connect", "SETUP_PCAP", "none", "none", "none">>,
            <<"SETUP_PCAP", "handshake", "none", "none", "none", "SETUP_PCAP">>}
      /\ Settled("SETUP_PCAP", 3) = {<<"SETUP_PCAP", "handshake", "none", "none", "none", "none">>}
      /\ Settled("SETUP_PCAP", 4) = {<<"SETUP_PCAP", "handshake", "none", "none", "none", "none">>}
  BY RoundsAre DEF Settled
<1>5. Settled("TOPOLOGY", 1) =
        {<<"SETUP_PCAP", "handshake", "none", "SETUP_PCAP", "none", "none">>, Rests("TOPOLOGY")}
  BY RoundsAre DEF Settled, Plain
<1> QED
  BY <1>1, <1>2, <1>3, <1>4, <1>5

\* Where the orchestrator can be.
LEMMA Positions ==
  ASSUME TypeOK, Steps
  PROVE  \/ state = "SETUP_CTRL" /\ step \in {1, 2}
         \/ state = "SETUP_PCAP" /\ step \in {1, 2, 3, 4}
         \/ state \in Plain /\ step \in {1, 2}
         \/ state \in {"RUN_TESTCASE", "FORCEFUL_SHUTDOWN", "RESET", "DONE"} /\ step = 1
<1>1. state \in Plain \cup {"SETUP_CTRL", "SETUP_PCAP", "RUN_TESTCASE", "FORCEFUL_SHUTDOWN", "RESET", "DONE"}
  BY RoundsAre DEF TypeOK
<1>2. InRound <=> state \in Plain \cup {"SETUP_CTRL", "SETUP_PCAP"}
  BY RoundsAre DEF InRound
<1>3. CASE InRound
  <2>1. Len(Program(state)) = IF state = "SETUP_PCAP" THEN 4 ELSE 2
    BY <1>3, DoesIs
  <2>2. CASE state = "SETUP_PCAP"
    <3>1. step \in 1 .. 4
      BY <1>3, <2>1, <2>2 DEF Steps
    <3> QED
      BY <2>2, <3>1
  <2>3. CASE state # "SETUP_PCAP"
    <3>1. step \in 1 .. 2
      BY <1>3, <2>1, <2>3 DEF Steps
    <3>2. step \in {1, 2}
      BY <3>1
    <3> QED
      BY <1>2, <1>3, <2>3, <3>2
  <2> QED
    BY <2>2, <2>3
<1>4. CASE ~InRound
  BY <1>1, <1>2, <1>4 DEF Steps
<1> QED
  BY <1>3, <1>4

\* A fragment that has something to do, with what the orchestrator does meanwhile,
Busy(f) ==
  \/ /\ state = "SETUP_CTRL" /\ step = 1 /\ Polled(f)
     /\ Where(f) = <<"SETUP_CTRL", "connect", "none", "none", "none", "none">>
  \/ /\ state = "SETUP_PCAP" /\ step = 1 /\ ~Polled(f)
     /\ Where(f) = <<"SETUP_CTRL", "await", "SETUP_CTRL", "none", "none", "none">>
  \/ /\ state = "SETUP_PCAP" /\ step = 2 /\ Polled(f)
     /\ Where(f) = <<"SETUP_CTRL", "await", "both", "none", "none", "none">>
  \/ /\ state = "SETUP_PCAP" /\ step = 2 /\ Polled(f)
     /\ Where(f) = <<"SETUP_PCAP", "await", "SETUP_PCAP", "none", "none", "none">>
  \/ /\ state = "SETUP_PCAP" /\ step = 2 /\ Polled(f)
     /\ Where(f) = <<"SETUP_PCAP", "connect", "SETUP_PCAP", "none", "SETUP_PCAP", "none">>
  \/ /\ state = "SETUP_PCAP" /\ step = 2 /\ ~Polled(f)
     /\ Where(f) = <<"SETUP_PCAP", "connect", "SETUP_PCAP", "none", "none", "none">>
  \/ /\ state = "SETUP_PCAP" /\ step = 3 /\ Polled(f)
     /\ Where(f) = <<"SETUP_PCAP", "connect", "SETUP_PCAP", "none", "none", "none">>
  \/ /\ state = "TOPOLOGY" /\ step = 1 /\ ~Polled(f)
     /\ Where(f) = <<"SETUP_PCAP", "handshake", "none", "SETUP_PCAP", "none", "none">>
  \/ /\ state = "TOPOLOGY" /\ step = 2 /\ Polled(f)
     /\ Where(f) = <<"SETUP_PCAP", "handshake", "TOPOLOGY", "SETUP_PCAP", "none", "none">>
  \/ /\ state \in Plain /\ step = 2 /\ Polled(f)
     /\ Where(f) = <<Before(state), "await", state, "none", "none", "none">>
  \/ /\ state = "START_MIXNET_CLIENTS" /\ step = 2 /\ Polled(f)
     /\ Where(f) = <<"START_MIXNET_CLIENTS", "accept", "START_MIXNET_CLIENTS", "none", "none", "none">>
  \/ /\ state = "RUN_TESTCASE" /\ step = 1 /\ Polled(f)
     /\ Where(f) = <<"RUN_TESTCASE", "await", "OP", "none", "none", "none">>

\* and one that waits for the orchestrator.
Resting(f) ==
  /\ Kind(to["ctrl"][f]) = "none" /\ Kind(to["pcap"][f]) = "none"
  /\ fstep[f] \in {"await", "handshake"}
  /\ state = "DONE" => fstate[f] = "DONE"

LEMMA Located ==
  ASSUME TypeOK, Steps, NEW f \in Fragment, InPlace(f)
  PROVE  Busy(f) \/ Resting(f)
<1>1. Where(f) = <<fstate[f], fstep[f], Kind(to["ctrl"][f]), Kind(to["pcap"][f]),
                   Kind(from["ctrl"][f]), Kind(from["pcap"][f])>>
  BY DEF Where
<1>2. ASSUME NEW s, NEW at \in {"await", "handshake"}, NEW c, NEW d,
             Where(f) = <<s, at, "none", "none", c, d>>, state = "DONE" => s = "DONE"
      PROVE  Resting(f)
  BY <1>1, <1>2 DEF Resting
<1>3. ASSUME NEW s, Where(f) = Rests(s), state = "DONE" => s = "DONE"
      PROVE  Resting(f)
  BY <1>2, <1>3 DEF Rests
<1>4. CASE Polled(f)
  <2>1. Where(f) \in Due(state, step)
    BY <1>4 DEF InPlace
  <2>2. CASE state = "SETUP_CTRL" /\ step = 1
    BY <1>2, <1>4, <2>1, <2>2, DueIs DEF Busy
  <2>3. CASE state = "SETUP_PCAP" /\ step = 2
    BY <1>2, <1>4, <2>1, <2>3, DueIs DEF Busy
  <2>4. CASE state = "SETUP_PCAP" /\ step = 3
    BY <1>2, <1>4, <2>1, <2>4, DueIs DEF Busy
  <2>5. CASE state \in Plain /\ step = 2
    <3>1. state # "DONE"
      BY <2>5, RoundsAre
    <3>2. \/ Where(f) = <<Before(state), "await", state, "none", "none", "none">>
          \/ Where(f) = <<After(state), "await", "none", "none", state, "none">>
          \/ state = "TOPOLOGY" /\ Where(f) = <<"SETUP_PCAP", "handshake", "TOPOLOGY", "SETUP_PCAP", "none", "none">>
          \/ state = "START_MIXNET_CLIENTS" /\ Where(f) = <<state, "accept", state, "none", "none", "none">>
      BY <2>1, <2>5, DueIs
    <3>3. CASE Where(f) = <<After(state), "await", "none", "none", state, "none">>
      BY <1>2, <3>1, <3>3
    <3> QED
      BY <1>4, <2>5, <3>2, <3>3 DEF Busy
  <2>6. CASE state = "RUN_TESTCASE"
    <3>1. step = 1
      BY <2>6, Positions, RoundsAre
    <3> QED
      BY <1>2, <1>4, <2>1, <2>6, <3>1, DueIs DEF Busy
  <2> QED
    BY <1>4, <2>2, <2>3, <2>4, <2>5, <2>6 DEF Polled, Awaits
<1>5. CASE ~Polled(f)
  <2>1. Where(f) \in Settled(state, step)
    BY <1>5 DEF InPlace
  <2>2. CASE state = "SETUP_CTRL"
    BY <1>3, <2>1, <2>2, SettledIs
  <2>3. CASE state = "SETUP_PCAP" /\ step = 1
    BY <1>3, <1>5, <2>1, <2>3, SettledIs DEF Busy
  <2>4. CASE state = "SETUP_PCAP" /\ step = 2
    BY <1>2, <1>5, <2>1, <2>4, SettledIs DEF Busy
  <2>5. CASE state = "SETUP_PCAP" /\ step \in {3, 4}
    BY <1>2, <2>1, <2>5, SettledIs
  <2>6. CASE state = "TOPOLOGY" /\ step = 1
    BY <1>3, <1>5, <2>1, <2>6, SettledIs DEF Busy
  <2>7. CASE state \in Plain \ {"TOPOLOGY"} /\ step = 1
    <3>1. state # "DONE" /\ Where(f) = Rests(Before(state))
      BY <2>1, <2>7, SettledIs, RoundsAre
    <3> QED
      BY <1>3, <3>1
  <2>8. CASE state \in Plain /\ step = 2
    <3>1. state # "DONE" /\ Where(f) = Rests(After(state))
      BY <2>1, <2>8, SettledIs, RoundsAre
    <3> QED
      BY <1>3, <3>1
  <2>9. CASE state = "RUN_TESTCASE"
    <3>1. state # "DONE" /\ Where(f) = Rests("RUN_TESTCASE")
      BY <2>1, <2>9, SettledIs
    <3> QED
      BY <1>3, <3>1
  <2>10. CASE state \in {"RESET", "DONE"}
    <3>1. Where(f) = Rests("DONE")
      BY <2>1, <2>10, SettledIs
    <3> QED
      BY <1>3, <3>1
  <2>11. CASE state = "FORCEFUL_SHUTDOWN"
    BY <2>1, <2>11, SettledIs
  <2> QED
    BY <2>2, <2>3, <2>4, <2>5, <2>6, <2>7, <2>8, <2>9, <2>10, <2>11, Positions
<1> QED
  BY <1>4, <1>5


-----------------------------------------------------------------------------
(* Queues *)

LEMMA TypesAre ==
  "none" \notin Types /\ "both" \notin Types /\ "many" \notin Types
  BY RoundIs DEF Types

LEMMA KindIs ==
  ASSUME NEW S, \A x \in S : x.type \in Types, NEW q \in Seq(S)
  PROVE  /\ Kind(q) = "none" <=> q = <<>>
         /\ Kind(q) \in Types => Head(q).type = Kind(q) /\ Kind(Tail(q)) = "none"
         /\ Kind(q) = "both" => Head(q).type = "SETUP_CTRL" /\ Kind(Tail(q)) = "SETUP_PCAP"
<1>1. q # <<>> => Head(q) \in S
  OBVIOUS
<1>2. q # <<>> => Head(q).type \in Types
  BY <1>1
<1>3. Kind(q) = "none" <=> q = <<>>
  BY <1>2, TypesAre DEF Kind
<1>4. Kind(q) \in Types => q # <<>> /\ Tail(q) = <<>> /\ Head(q).type = Kind(q)
  BY TypesAre DEF Kind
<1>5. Kind(<<>>) = "none"
  BY DEF Kind
<1>6. ASSUME Kind(q) = "both"
      PROVE  Head(q).type = "SETUP_CTRL" /\ Kind(Tail(q)) = "SETUP_PCAP"
  <2>1. /\ Head(q).type = "SETUP_CTRL" /\ Head(Tail(q)).type = "SETUP_PCAP"
        /\ Tail(q) # <<>> /\ Tail(Tail(q)) = <<>>
    BY <1>2, <1>6, TypesAre DEF Kind
  <2> QED
    BY <2>1 DEF Kind
<1> QED
  BY <1>3, <1>4, <1>5, <1>6

LEMMA KindAppend ==
  ASSUME NEW S, \A x \in S : x.type \in Types, NEW q \in Seq(S), NEW x \in S
  PROVE  /\ Kind(q) = "none" => Kind(Append(q, x)) = x.type
         /\ Kind(q) = "SETUP_CTRL" /\ x.type = "SETUP_PCAP" => Kind(Append(q, x)) = "both"
<1>1. ASSUME Kind(q) = "none"
      PROVE  Kind(Append(q, x)) = x.type
  <2>1. q = <<>>
    BY <1>1, KindIs
  <2>2. Append(<<>>, x) # <<>> /\ Head(Append(<<>>, x)) = x /\ Tail(Append(<<>>, x)) = <<>>
    OBVIOUS
  <2> QED
    BY <2>1, <2>2 DEF Kind
<1>2. ASSUME Kind(q) = "SETUP_CTRL", x.type = "SETUP_PCAP"
      PROVE  Kind(Append(q, x)) = "both"
  <2>1. q # <<>> /\ Tail(q) = <<>> /\ Head(q).type = "SETUP_CTRL"
    <3>1. "SETUP_CTRL" \in Types /\ "SETUP_CTRL" # "none"
      BY RoundIs DEF Types
    <3> QED
      BY <1>2, <3>1, KindIs, TypesAre DEF Kind
  <2>2. Append(q, x) # <<>> /\ Head(Append(q, x)) = Head(q)
    BY <2>1, HeadAppend
  <2>3. Tail(Append(q, x)) = Append(Tail(q), x)
    BY <2>1, HeadTailAppend
  <2>4. Append(<<>>, x) # <<>> /\ Head(Append(<<>>, x)) = x /\ Tail(Append(<<>>, x)) = <<>>
    OBVIOUS
  <2> QED
    BY <1>2, <2>1, <2>2, <2>3, <2>4 DEF Kind
<1> QED
  BY <1>1, <1>2

LEMMA MessageTypes ==
  (\A x \in RequestType : x.type \in Types) /\ (\A x \in ResponseType : x.type \in Types)
  BY DEF RequestType, ResponseType

LEMMA KindTo ==
  ASSUME Channels, NEW p \in Plane, NEW f \in Fragment
  PROVE  /\ Kind(to[p][f]) = "none" <=> to[p][f] = <<>>
         /\ Kind(to[p][f]) \in Types => Head(to[p][f]).type = Kind(to[p][f]) /\ Kind(Tail(to[p][f])) = "none"
         /\ Kind(to[p][f]) = "both" =>
              Head(to[p][f]).type = "SETUP_CTRL" /\ Kind(Tail(to[p][f])) = "SETUP_PCAP"
  BY KindIs, MessageTypes, HeadType

LEMMA KindFrom ==
  ASSUME Channels, NEW p \in Plane, NEW f \in Fragment
  PROVE  /\ Kind(from[p][f]) = "none" <=> from[p][f] = <<>>
         /\ Kind(from[p][f]) \in Types =>
              Head(from[p][f]).type = Kind(from[p][f]) /\ Kind(Tail(from[p][f])) = "none"
  BY KindIs, MessageTypes, HeadType

\* A request is read.
LEMMA TakeKind ==
  ASSUME Channels, NEW p \in Plane, NEW f \in Fragment, to[p][f] # <<>>, Take(f, p)
  PROVE  /\ Kind(to[p][f]) \in Types => Kind(to'[p][f]) = "none"
         /\ Kind(to[p][f]) = "both" => Kind(to'[p][f]) = "SETUP_PCAP"
         /\ \A q \in Plane \ {p} : Kind(to'[q][f]) = Kind(to[q][f])
<1>1. to'[p][f] = Tail(to[p][f]) /\ \A q \in Plane \ {p} : to'[q][f] = to[q][f]
  BY TakeIs
<1> QED
  BY <1>1, KindTo

\* A request is answered, without an error.
LEMMA RespondKind ==
  ASSUME Channels, NEW p \in Plane, NEW f \in Fragment, NEW type \in Types, NEW n \in Nat,
         Respond(f, p, type, "NONE", n)
  PROVE  /\ Kind(from[p][f]) = "none" => Kind(from'[p][f]) = type
         /\ \A q \in Plane \ {p} : Kind(from'[q][f]) = Kind(from[q][f])
         /\ \A q \in Plane : \A m \in Told(q, f)' : m \in Told(q, f) \/ m.err = "NONE"
<1> DEFINE x == Response(type, "NONE", n)
<1>1. /\ x \in ResponseType /\ from'[p][f] = Append(from[p][f], x)
      /\ \A q \in Plane, g \in Fragment : q # p \/ g # f => from'[q][g] = from[q][g]
  <2>1. "NONE" \in Error
    BY DEF Error
  <2> QED
    BY <2>1, RespondIs
<1>2. x.type = type /\ x.err = "NONE"
  BY DEF Response
<1> HIDE DEF x
<1>3. from[p][f] \in Seq(ResponseType)
  BY HeadType
<1>4. Kind(from[p][f]) = "none" => Kind(from'[p][f]) = type
  BY <1>1, <1>2, <1>3, KindAppend, MessageTypes
<1>5. ASSUME NEW q \in Plane, NEW m \in Told(q, f)'
      PROVE  m \in Told(q, f) \/ m.err = "NONE"
  <2>1. CASE q = p
    <3>1. In(from'[p][f]) = In(from[p][f]) \cup {x}
      BY <1>1, <1>3, InAppend
    <3> QED
      BY <1>2, <1>5, <2>1, <3>1 DEF Told
  <2>2. CASE q # p
    BY <1>1, <1>5, <2>2 DEF Told
  <2> QED
    BY <2>1, <2>2
<1> QED
  BY <1>1, <1>4, <1>5

-----------------------------------------------------------------------------
(* The steps of a fragment *)

LEMMA CalmBefore ==
  ASSUME IInv, [Next]_vars, Calm'
  PROVE  Calm
<1>1. late \in BOOLEAN /\ late' = FALSE /\ faults_left' = MaxFaults /\ MaxFaults \in Nat
      /\ faults_left \in 0 .. MaxFaults
  <2>1. late' \in BOOLEAN
    BY NextKeeps DEF IInv, TypeOK
  <2> QED
    BY <2>1, ConstantAssumption DEF IInv, TypeOK, Calm
<1>2. ASSUME UNCHANGED <<late, faults_left>>
      PROVE  Calm
  BY <1>1, <1>2 DEF Calm
<1>3. ASSUME NEW early, Premature(early)
      PROVE  Calm
  BY <1>1, <1>3 DEF Calm, Premature
<1>4. ASSUME Fault
      PROVE  Calm
  BY <1>1, <1>4 DEF Fault
<1>5. ASSUME NEW f \in Fragment, FragmentStep(f)
      PROVE  Calm
  <2>1. CASE ConnectTimeout(f)
    BY <1>3, <2>1 DEF ConnectTimeout
  <2>2. CASE AnswerOp(f, "NONE")
    BY <1>2, <2>2 DEF AnswerOp
  <2>3. CASE Answer(f, "TOPOLOGY") \/ Answer(f, "START_MIXNET_SERVER")
             \/ Answer(f, "RESOLVE_MIXNET_CONNS") \/ Answer(f, "START_TESTCASE")
    BY <1>2, <2>3 DEF Answer, envVars
  <2>4. CASE ConnectCtrl(f) \/ CompleteCtrl(f) \/ AnswerPcap(f) \/ ConnectPcap(f) \/ CompletePcap(f)
    BY <1>2, <2>4 DEF ConnectCtrl, CompleteCtrl, AnswerPcap, ConnectPcap, CompletePcap, envVars
  <2>5. CASE ConnectMixnet(f) \/ AcceptMixnet(f) \/ EndTestcase(f) \/ Shutdown(f)
             \/ RejectRequest(f) \/ LoseOrchestrator(f)
    BY <1>2, <2>5 DEF ConnectMixnet, AcceptMixnet, EndTestcase, Shutdown, RejectRequest,
                      LoseOrchestrator, envVars
  <2> QED
    BY <1>5, <2>1, <2>2, <2>3, <2>4, <2>5 DEF FragmentStep, CreateTopology, StartMixnetServer,
                                             ResolveConnections, StartTestcase
<1>6. ASSUME NEW f \in Fragment, FaultStep(f)
      PROVE  Calm
  <2>1. CASE LoseNeighbor(f)
    BY <1>2, <2>1 DEF LoseNeighbor, envVars
  <2>2. CASE AnswerOp(f, "FRAGMENT_EXCEPTION")
    BY <1>1, <2>2 DEF AnswerOp
  <2>3. CASE FailStep(f) \/ Crash(f) \/ ThreadExits(f) \/ ThreadHangs(f)
    BY <1>4, <2>3 DEF FailStep, Crash, ThreadExits, ThreadHangs
  <2> QED
    BY <1>6, <2>1, <2>2, <2>3 DEF FaultStep
<1>7. ASSUME NEW k \in Fragment, NEW broken \in BOOLEAN, SendRound(k, broken)
      PROVE  Calm
  BY <1>3, <1>7 DEF SendRound
<1>8. ASSUME NEW f \in Fragment, ReceiveResponse(f) \/ ReceiveEnd(f) \/ StartOp(f)
      PROVE  Calm
  BY <1>2, <1>8 DEF ReceiveResponse, ReceiveEnd, StartOp, envVars
<1>9. ASSUME ReceiveTimeout \/ OpFails
      PROVE  Calm
  BY <1>3, <1>9 DEF ReceiveTimeout, OpFails
<1>10. ASSUME EndReceive \/ EndOp \/ EndRun \/ ForcefulShutdown \/ Reset
       PROVE  Calm
  BY <1>2, <1>10 DEF EndReceive, EndOp, EndRun, ForcefulShutdown, Reset, envVars
<1>11. ASSUME NEW k \in Fragment, ForkFails(k)
       PROVE  Calm
  BY <1>4, <1>11 DEF ForkFails
<1>12. ASSUME UNCHANGED vars
       PROVE  Calm
  BY <1>2, <1>12 DEF vars, envVars
<1> QED
  BY <1>5, <1>6, <1>7, <1>8, <1>9, <1>10, <1>11, <1>12 DEF Next, OrchestratorStep, Finished

\* Nothing fails in a calm step.
LEMMA NoFault ==
  ASSUME TypeOK, Calm, Calm'
  PROVE  ~Fault /\ ~\E f \in Fragment : AnswerOp(f, "FRAGMENT_EXCEPTION")
<1>1. MaxFaults \in Nat /\ faults_left = MaxFaults /\ faults_left' = MaxFaults
  BY ConstantAssumption DEF Calm
<1>2. MaxFaults # MaxFaults - 1
  BY <1>1
<1>3. ~Fault
  BY <1>1, <1>2 DEF Fault
<1>4. ASSUME NEW f \in Fragment PROVE ~AnswerOp(f, "FRAGMENT_EXCEPTION")
  BY <1>1, <1>2 DEF AnswerOp
<1> QED
  BY <1>3, <1>4

LEMMA OthersStay ==
  ASSUME NEW f \in Fragment, OthersAsBefore(f), NEW g \in Fragment \ {f}, InPlace(g), Well(g)
  PROVE  InPlace(g)' /\ Well(g)'
<1>1. /\ fstate'[g] = fstate[g] /\ fstep'[g] = fstep[g] /\ life'[g] = life[g] /\ thread'[g] = thread[g]
      /\ \A p \in Plane : to'[p][g] = to[p][g] /\ from'[p][g] = from[p][g]
      /\ "ctrl" \in Plane /\ "pcap" \in Plane
  BY DEF OthersAsBefore, Plane
<1>2. UNCHANGED <<state, step, pending, op>>
  BY DEF OthersAsBefore, orchVars
<1>3. Where(g)' = Where(g)
  BY <1>1 DEF Where
<1>4. Polled(g)' <=> Polled(g)
  BY <1>2 DEF Polled, Awaits
<1>5. InPlace(g)'
  BY <1>2, <1>3, <1>4 DEF InPlace
<1>6. \A p \in Plane : Told(p, g)' = Told(p, g)
  BY <1>1 DEF Told
<1>7. Well(g)'
  BY <1>1, <1>6 DEF Well
<1> QED
  BY <1>5, <1>7

\* f comes to another place.
LEMMA Arrives ==
  ASSUME UNCHANGED orchVars, NEW f \in Fragment, NEW w, Where(f)' = w,
         Polled(f) => w \in Due(state, step), ~Polled(f) => w \in Settled(state, step)
  PROVE  InPlace(f)'
<1>1. UNCHANGED <<state, step, pending, op>>
  BY DEF orchVars
<1>2. Polled(f)' <=> Polled(f)
  BY <1>1 DEF Polled, Awaits
<1> QED
  BY <1>1, <1>2 DEF InPlace

LEMMA StaysWell ==
  ASSUME NEW f \in Fragment, Well(f), fstate'[f] # "DONE" => life'[f] = "running",
         fstate'[f] = "RUN_TESTCASE" => thread'[f] = "running",
         \A q \in Plane : \A m \in Told(q, f)' : m \in Told(q, f) \/ m.err = "NONE"
  PROVE  Well(f)'
  BY DEF Well

LEMMA UnchangedKinds ==
  ASSUME NEW f \in Fragment
  PROVE  /\ UNCHANGED to => \A p \in Plane : Kind(to'[p][f]) = Kind(to[p][f])
         /\ UNCHANGED from =>
              /\ \A p \in Plane : Kind(from'[p][f]) = Kind(from[p][f])
              /\ \A p \in Plane : \A m \in Told(p, f)' : m \in Told(p, f) \/ m.err = "NONE"
  BY DEF Told

LEMMA Planes == Plane = {"ctrl", "pcap"} /\ "ctrl" \in Plane /\ "pcap" \in Plane /\ "ctrl" # "pcap"
  BY DEF Plane

LEMMA SomeTypes ==
  /\ Plain \subseteq Types /\ {"SETUP_CTRL", "SETUP_PCAP", "OP"} \subseteq Types
  /\ Plain \subseteq Round \cup {"RUN_TESTCASE", "DONE"}
  /\ {"SETUP_CTRL", "SETUP_PCAP"} \subseteq Round \cup {"RUN_TESTCASE", "DONE"}
  BY RoundsAre DEF Types

\* Where the parts of a place are.
At(f, s, a, c, p, rc, rp) ==
  /\ fstate[f] = s /\ fstep[f] = a /\ Kind(to["ctrl"][f]) = c /\ Kind(to["pcap"][f]) = p
  /\ Kind(from["ctrl"][f]) = rc /\ Kind(from["pcap"][f]) = rp

LEMMA AtIs ==
  ASSUME NEW f, NEW s, NEW a, NEW c, NEW p, NEW rc, NEW rp
  PROVE  /\ Where(f) = <<s, a, c, p, rc, rp>> <=> At(f, s, a, c, p, rc, rp)
         /\ Where(f)' = <<s, a, c, p, rc, rp>> <=> At(f, s, a, c, p, rc, rp)'
  BY DEF Where, At

\* The request a busy fragment finds at the head of its ctrl queue, by its state.
LEMMA Asks ==
  ASSUME IInv, NEW f \in Fragment, InPlace(f), to["ctrl"][f] # <<>>
  PROVE  LET t == Head(to["ctrl"][f]).type IN
         \/ /\ state = "SETUP_PCAP" /\ step = 1 /\ ~Polled(f) /\ t = "SETUP_CTRL"
            /\ At(f, "SETUP_CTRL", "await", "SETUP_CTRL", "none", "none", "none")
         \/ /\ state = "SETUP_PCAP" /\ step = 2 /\ Polled(f) /\ t = "SETUP_CTRL"
            /\ At(f, "SETUP_CTRL", "await", "both", "none", "none", "none")
         \/ /\ state = "SETUP_PCAP" /\ step = 2 /\ Polled(f) /\ t = "SETUP_PCAP"
            /\ At(f, "SETUP_PCAP", "await", "SETUP_PCAP", "none", "none", "none")
         \/ /\ state = "SETUP_PCAP" /\ step = 2 /\ Polled(f) /\ t = "SETUP_PCAP"
            /\ At(f, "SETUP_PCAP", "connect", "SETUP_PCAP", "none", "SETUP_PCAP", "none")
         \/ /\ state = "SETUP_PCAP" /\ step = 2 /\ ~Polled(f) /\ t = "SETUP_PCAP"
            /\ At(f, "SETUP_PCAP", "connect", "SETUP_PCAP", "none", "none", "none")
         \/ /\ state = "SETUP_PCAP" /\ step = 3 /\ Polled(f) /\ t = "SETUP_PCAP"
            /\ At(f, "SETUP_PCAP", "connect", "SETUP_PCAP", "none", "none", "none")
         \/ /\ state = "TOPOLOGY" /\ step = 2 /\ Polled(f) /\ t = "TOPOLOGY"
            /\ At(f, "SETUP_PCAP", "handshake", "TOPOLOGY", "SETUP_PCAP", "none", "none")
         \/ /\ state \in Plain /\ step = 2 /\ Polled(f) /\ t = state
            /\ At(f, Before(state), "await", state, "none", "none", "none")
         \/ /\ state = "START_MIXNET_CLIENTS" /\ step = 2 /\ Polled(f) /\ t = "START_MIXNET_CLIENTS"
            /\ At(f, "START_MIXNET_CLIENTS", "accept", "START_MIXNET_CLIENTS", "none", "none", "none")
         \/ /\ state = "RUN_TESTCASE" /\ step = 1 /\ Polled(f) /\ t = "OP"
            /\ At(f, "RUN_TESTCASE", "await", "OP", "none", "none", "none")
<1>1. TypeOK /\ Steps /\ Channels
  BY DEF IInv
<1>2. /\ Kind(to["ctrl"][f]) # "none"
      /\ Kind(to["ctrl"][f]) \in Types => Head(to["ctrl"][f]).type = Kind(to["ctrl"][f])
      /\ Kind(to["ctrl"][f]) = "both" => Head(to["ctrl"][f]).type = "SETUP_CTRL"
  BY <1>1, KindTo, Planes
<1>3. Busy(f)
  BY <1>1, <1>2, Located DEF Resting
<1>4. /\ ~At(f, "SETUP_CTRL", "connect", "none", "none", "none", "none")
      /\ ~At(f, "SETUP_PCAP", "handshake", "none", "SETUP_PCAP", "none", "none")
  BY <1>2 DEF At
<1>5. \A r \in Plain \cup {"SETUP_CTRL", "SETUP_PCAP", "OP"} : r \in Types
  BY SomeTypes
<1>6. "TOPOLOGY" \in Plain /\ "START_MIXNET_CLIENTS" \in Plain
  BY DEF Plain
<1>7. ASSUME Where(f) = <<"SETUP_CTRL", "await", "SETUP_CTRL", "none", "none", "none">>
      PROVE  /\ At(f, "SETUP_CTRL", "await", "SETUP_CTRL", "none", "none", "none")
             /\ Head(to["ctrl"][f]).type = "SETUP_CTRL"
  BY <1>2, <1>5, <1>6, <1>7 DEF Where, At
<1>8. ASSUME Where(f) = <<"SETUP_CTRL", "await", "both", "none", "none", "none">>
      PROVE  /\ At(f, "SETUP_CTRL", "await", "both", "none", "none", "none")
             /\ Head(to["ctrl"][f]).type = "SETUP_CTRL"
  BY <1>2, <1>5, <1>6, <1>8 DEF Where, At
<1>9. ASSUME Where(f) = <<"SETUP_PCAP", "await", "SETUP_PCAP", "none", "none", "none">>
      PROVE  /\ At(f, "SETUP_PCAP", "await", "SETUP_PCAP", "none", "none", "none")
             /\ Head(to["ctrl"][f]).type = "SETUP_PCAP"
  BY <1>2, <1>5, <1>6, <1>9 DEF Where, At
<1>10. ASSUME Where(f) = <<"SETUP_PCAP", "connect", "SETUP_PCAP", "none", "SETUP_PCAP", "none">>
      PROVE  /\ At(f, "SETUP_PCAP", "connect", "SETUP_PCAP", "none", "SETUP_PCAP", "none")
             /\ Head(to["ctrl"][f]).type = "SETUP_PCAP"
  BY <1>2, <1>5, <1>6, <1>10 DEF Where, At
<1>11. ASSUME Where(f) = <<"SETUP_PCAP", "connect", "SETUP_PCAP", "none", "none", "none">>
      PROVE  /\ At(f, "SETUP_PCAP", "connect", "SETUP_PCAP", "none", "none", "none")
             /\ Head(to["ctrl"][f]).type = "SETUP_PCAP"
  BY <1>2, <1>5, <1>6, <1>11 DEF Where, At
<1>12. ASSUME Where(f) = <<"SETUP_PCAP", "handshake", "TOPOLOGY", "SETUP_PCAP", "none", "none">>
      PROVE  /\ At(f, "SETUP_PCAP", "handshake", "TOPOLOGY", "SETUP_PCAP", "none", "none")
             /\ Head(to["ctrl"][f]).type = "TOPOLOGY"
  BY <1>2, <1>5, <1>6, <1>12 DEF Where, At
<1>13. ASSUME state \in Plain, Where(f) = <<Before(state), "await", state, "none", "none", "none">>
      PROVE  /\ At(f, Before(state), "await", state, "none", "none", "none")
             /\ Head(to["ctrl"][f]).type = state
  BY <1>2, <1>5, <1>6, <1>13 DEF Where, At
<1>14. ASSUME Where(f) = <<"START_MIXNET_CLIENTS", "accept", "START_MIXNET_CLIENTS", "none", "none", "none">>
      PROVE  /\ At(f, "START_MIXNET_CLIENTS", "accept", "START_MIXNET_CLIENTS", "none", "none", "none")
             /\ Head(to["ctrl"][f]).type = "START_MIXNET_CLIENTS"
  BY <1>2, <1>5, <1>6, <1>14 DEF Where, At
<1>15. ASSUME Where(f) = <<"RUN_TESTCASE", "await", "OP", "none", "none", "none">>
      PROVE  /\ At(f, "RUN_TESTCASE", "await", "OP", "none", "none", "none")
             /\ Head(to["ctrl"][f]).type = "OP"
  BY <1>2, <1>5, <1>6, <1>15 DEF Where, At
<1>16. \/ Where(f) = <<"SETUP_CTRL", "connect", "none", "none", "none", "none">>
       \/ Where(f) = <<"SETUP_PCAP", "handshake", "none", "SETUP_PCAP", "none", "none">>
       => FALSE
  BY <1>4, AtIs
<1> QED
  BY <1>3, <1>7, <1>8, <1>9, <1>10, <1>11, <1>12, <1>13, <1>14, <1>15, <1>16 DEF Busy

\* The set-up of the two planes.
LEMMA ConnectCtrlStays ==
  ASSUME IInv, NEW f \in Fragment, InPlace(f), Well(f), ConnectCtrl(f)
  PROVE  InPlace(f)' /\ Well(f)'
<1>1. TypeOK /\ Steps /\ Channels
  BY DEF IInv
<1>2. /\ fstate[f] = "SETUP_CTRL" /\ fstep[f] = "connect" /\ life[f] = "running"
      /\ Enter(f, "SETUP_CTRL", "await") /\ Respond(f, "ctrl", "SETUP_CTRL", "NONE", 0)
      /\ UNCHANGED <<to, orchVars>>
  BY DEF ConnectCtrl, Running
<1>3. Busy(f)
  BY <1>1, <1>2, Located DEF Resting
<1>4. /\ state = "SETUP_CTRL" /\ step = 1 /\ Polled(f)
      /\ Where(f) = <<"SETUP_CTRL", "connect", "none", "none", "none", "none">>
  <2>1. Where(f)[1] = "SETUP_CTRL" /\ Where(f)[2] = "connect"
    BY <1>2 DEF Where
  <2> QED
    BY <1>3, <2>1 DEF Busy
<1>5. At(f, "SETUP_CTRL", "connect", "none", "none", "none", "none")
  BY <1>4 DEF Where, At
<1>6. /\ Kind(from'["ctrl"][f]) = "SETUP_CTRL" /\ Kind(from'["pcap"][f]) = "none"
      /\ \A q \in Plane : \A m \in Told(q, f)' : m \in Told(q, f) \/ m.err = "NONE"
  <2>1. Kind(from["ctrl"][f]) = "none" /\ Kind(from["pcap"][f]) = "none"
    BY <1>5 DEF At
  <2>2. "SETUP_CTRL" \in Types
    BY SomeTypes
  <2> QED
    BY <1>1, <1>2, <2>1, <2>2, RespondKind, Planes
<1>7. fstate'[f] = "SETUP_CTRL" /\ fstep'[f] = "await" /\ life'[f] = "running"
  BY <1>1, <1>2, EnterIs, SomeTypes
<1>8. At(f, "SETUP_CTRL", "await", "none", "none", "SETUP_CTRL", "none")'
  BY <1>2, <1>5, <1>6, <1>7 DEF At
<1>9. Where(f)' = <<"SETUP_CTRL", "await", "none", "none", "SETUP_CTRL", "none">>
  BY <1>8 DEF Where, At
<1>10. InPlace(f)'
  BY <1>2, <1>4, <1>9, Arrives, DueIs
<1>11. Well(f)'
  BY <1>6, <1>7, StaysWell
<1> QED
  BY <1>10, <1>11

LEMMA CompleteCtrlStays ==
  ASSUME IInv, NEW f \in Fragment, InPlace(f), Well(f), CompleteCtrl(f)
  PROVE  InPlace(f)' /\ Well(f)'
<1>1. TypeOK /\ Steps /\ Channels
  BY DEF IInv
<1>2. /\ fstate[f] = "SETUP_CTRL" /\ to["ctrl"][f] # <<>> /\ life[f] = "running"
      /\ Take(f, "ctrl") /\ Enter(f, "SETUP_PCAP", "await") /\ UNCHANGED <<from, orchVars>>
  BY DEF CompleteCtrl, HasRequest, Running
<1>3. \/ /\ state = "SETUP_PCAP" /\ step = 1 /\ ~Polled(f)
         /\ At(f, "SETUP_CTRL", "await", "SETUP_CTRL", "none", "none", "none")
      \/ /\ state = "SETUP_PCAP" /\ step = 2 /\ Polled(f)
         /\ At(f, "SETUP_CTRL", "await", "both", "none", "none", "none")
  <2>1. \A s, a, c, p, rc, rp : At(f, s, a, c, p, rc, rp) => s = "SETUP_CTRL"
    BY <1>2 DEF At
  <2>2. state \in Plain => Before(state) # "SETUP_CTRL"
    BY DEF Plain, Before
  <2> QED
    BY <1>2, <2>1, <2>2, Asks
<1>4. fstate'[f] = "SETUP_PCAP" /\ fstep'[f] = "await" /\ life'[f] = "running"
  BY <1>1, <1>2, EnterIs, SomeTypes
<1>5. Well(f)'
  BY <1>2, <1>4, StaysWell, UnchangedKinds
<1>6. CASE /\ state = "SETUP_PCAP" /\ step = 1 /\ ~Polled(f)
           /\ At(f, "SETUP_CTRL", "await", "SETUP_CTRL", "none", "none", "none")
  <2>1. Kind(to'["ctrl"][f]) = "none" /\ Kind(to'["pcap"][f]) = "none"
    <3>1. Kind(to["ctrl"][f]) \in Types /\ Kind(to["pcap"][f]) = "none"
      BY <1>6, SomeTypes DEF At
    <3> QED
      BY <1>1, <1>2, <3>1, TakeKind, Planes
  <2>2. Where(f)' = Rests("SETUP_PCAP")
    BY <1>2, <1>4, <1>6, <2>1 DEF At, Where, Rests
  <2> QED
    BY <1>2, <1>5, <1>6, <2>2, Arrives, SettledIs
<1>7. CASE /\ state = "SETUP_PCAP" /\ step = 2 /\ Polled(f)
           /\ At(f, "SETUP_CTRL", "await", "both", "none", "none", "none")
  <2>1. Kind(to'["ctrl"][f]) = "SETUP_PCAP" /\ Kind(to'["pcap"][f]) = "none"
    <3>1. Kind(to["ctrl"][f]) = "both" /\ Kind(to["pcap"][f]) = "none"
      BY <1>7 DEF At
    <3> QED
      BY <1>1, <1>2, <3>1, TakeKind, Planes
  <2>2. Where(f)' = <<"SETUP_PCAP", "await", "SETUP_PCAP", "none", "none", "none">>
    BY <1>2, <1>4, <1>7, <2>1 DEF At, Where
  <2> QED
    BY <1>2, <1>5, <1>7, <2>2, Arrives, DueIs
<1> QED
  BY <1>3, <1>6, <1>7

LEMMA AnswerPcapStays ==
  ASSUME IInv, NEW f \in Fragment, InPlace(f), Well(f), AnswerPcap(f)
  PROVE  InPlace(f)' /\ Well(f)'
<1>1. TypeOK /\ Steps /\ Channels
  BY DEF IInv
<1>2. /\ fstate[f] = "SETUP_PCAP" /\ fstep[f] = "await" /\ to["ctrl"][f] # <<>> /\ life[f] = "running"
      /\ Respond(f, "ctrl", "SETUP_PCAP", "NONE", Head(to["ctrl"][f]).number)
      /\ Enter(f, "SETUP_PCAP", "connect") /\ UNCHANGED <<to, orchVars>>
  BY DEF AnswerPcap, HasRequest, Running
<1>3. /\ state = "SETUP_PCAP" /\ step = 2 /\ Polled(f)
      /\ At(f, "SETUP_PCAP", "await", "SETUP_PCAP", "none", "none", "none")
  <2>1. \A s, a, c, p, rc, rp : At(f, s, a, c, p, rc, rp) => s = "SETUP_PCAP" /\ a = "await"
    BY <1>2 DEF At
  <2>2. state \in Plain => Before(state) # "SETUP_PCAP"
    BY DEF Plain, Before
  <2> QED
    BY <1>2, <2>1, <2>2, Asks
<1>4. fstate'[f] = "SETUP_PCAP" /\ fstep'[f] = "connect" /\ life'[f] = "running"
  BY <1>1, <1>2, EnterIs, SomeTypes
<1>5. /\ Kind(from'["ctrl"][f]) = "SETUP_PCAP" /\ Kind(from'["pcap"][f]) = "none"
      /\ \A q \in Plane : \A m \in Told(q, f)' : m \in Told(q, f) \/ m.err = "NONE"
  <2>1. Kind(from["ctrl"][f]) = "none" /\ Kind(from["pcap"][f]) = "none"
    BY <1>3 DEF At
  <2>2. "SETUP_PCAP" \in Types /\ Head(to["ctrl"][f]).number \in Nat
    BY <1>1, <1>2, SomeTypes, HeadType, Planes DEF RequestType
  <2> QED
    BY <1>1, <1>2, <2>1, <2>2, RespondKind, Planes
<1>6. Where(f)' = <<"SETUP_PCAP", "connect", "SETUP_PCAP", "none", "SETUP_PCAP", "none">>
  BY <1>2, <1>3, <1>4, <1>5 DEF At, Where
<1>7. InPlace(f)'
  BY <1>2, <1>3, <1>6, Arrives, DueIs
<1>8. Well(f)'
  BY <1>4, <1>5, StaysWell
<1> QED
  BY <1>7, <1>8

LEMMA ConnectPcapStays ==
  ASSUME IInv, NEW f \in Fragment, InPlace(f), Well(f), ConnectPcap(f)
  PROVE  InPlace(f)' /\ Well(f)'
<1>1. TypeOK /\ Steps /\ Channels /\ Holding
  BY DEF IInv
<1>2. /\ fstate[f] = "SETUP_PCAP" /\ fstep[f] = "connect" /\ life[f] = "running"
      /\ Respond(f, "pcap", "SETUP_PCAP", "NONE", Head(to["ctrl"][f]).number)
      /\ Take(f, "ctrl") /\ Enter(f, "SETUP_PCAP", "handshake") /\ UNCHANGED orchVars
  BY DEF ConnectPcap, Running
<1>3. to["ctrl"][f] # <<>>
  BY <1>1, <1>2 DEF Holding
<1>4. PICK rc \in {"SETUP_PCAP", "none"} :
        /\ At(f, "SETUP_PCAP", "connect", "SETUP_PCAP", "none", rc, "none")
        /\ state = "SETUP_PCAP"
        /\ \/ step = 2 /\ Polled(f) /\ rc = "SETUP_PCAP"
           \/ step = 2 /\ ~Polled(f) /\ rc = "none"
           \/ step = 3 /\ Polled(f) /\ rc = "none"
  <2>1. \A s, a, c, p, rc, rp : At(f, s, a, c, p, rc, rp) => s = "SETUP_PCAP" /\ a = "connect"
    BY <1>2 DEF At
  <2> QED
    BY <1>3, <2>1, Asks
<1>5. fstate'[f] = "SETUP_PCAP" /\ fstep'[f] = "handshake" /\ life'[f] = "running"
  BY <1>1, <1>2, EnterIs, SomeTypes
<1>6. Kind(to'["ctrl"][f]) = "none" /\ Kind(to'["pcap"][f]) = "none"
  <2>1. Kind(to["ctrl"][f]) \in Types /\ Kind(to["pcap"][f]) = "none"
    BY <1>4, SomeTypes DEF At
  <2> QED
    BY <1>1, <1>2, <1>3, <2>1, TakeKind, Planes
<1>7. /\ Kind(from'["ctrl"][f]) = rc /\ Kind(from'["pcap"][f]) = "SETUP_PCAP"
      /\ \A q \in Plane : \A m \in Told(q, f)' : m \in Told(q, f) \/ m.err = "NONE"
  <2>1. Kind(from["ctrl"][f]) = rc /\ Kind(from["pcap"][f]) = "none"
    BY <1>4 DEF At
  <2>2. "SETUP_PCAP" \in Types /\ Head(to["ctrl"][f]).number \in Nat
    BY <1>1, <1>3, SomeTypes, HeadType, Planes DEF RequestType
  <2> QED
    BY <1>1, <1>2, <2>1, <2>2, RespondKind, Planes
<1>8. Where(f)' = <<"SETUP_PCAP", "handshake", "none", "none", rc, "SETUP_PCAP">>
  BY <1>5, <1>6, <1>7 DEF Where
<1>9. InPlace(f)'
  <2>1. CASE step = 2 /\ Polled(f) /\ rc = "SETUP_PCAP"
    BY <1>2, <1>4, <1>8, <2>1, Arrives, DueIs
  <2>2. CASE step = 2 /\ ~Polled(f) /\ rc = "none"
    BY <1>2, <1>4, <1>8, <2>2, Arrives, SettledIs
  <2>3. CASE step = 3 /\ Polled(f) /\ rc = "none"
    BY <1>2, <1>4, <1>8, <2>3, Arrives, DueIs
  <2> QED
    BY <1>4, <2>1, <2>2, <2>3
<1>10. Well(f)'
  BY <1>5, <1>7, StaysWell
<1> QED
  BY <1>9, <1>10

LEMMA CompletePcapStays ==
  ASSUME IInv, NEW f \in Fragment, InPlace(f), Well(f), CompletePcap(f)
  PROVE  InPlace(f)' /\ Well(f)'
<1>1. TypeOK /\ Steps /\ Channels
  BY DEF IInv
<1>2. /\ fstate[f] = "SETUP_PCAP" /\ fstep[f] = "handshake" /\ to["pcap"][f] # <<>>
      /\ life[f] = "running"
      /\ Take(f, "pcap") /\ Enter(f, "TOPOLOGY", "await") /\ UNCHANGED <<from, orchVars>>
  BY DEF CompletePcap, HasRequest, Running
<1>3. Busy(f)
  <2>1. Kind(to["pcap"][f]) # "none"
    BY <1>1, <1>2, KindTo, Planes
  <2> QED
    BY <1>1, <2>1, Located DEF Resting
<1>4. PICK c \in {"TOPOLOGY", "none"} :
        /\ Where(f) = <<"SETUP_PCAP", "handshake", c, "SETUP_PCAP", "none", "none">>
        /\ state = "TOPOLOGY"
        /\ \/ step = 1 /\ ~Polled(f) /\ c = "none"
           \/ step = 2 /\ Polled(f) /\ c = "TOPOLOGY"
  <2>1. Where(f)[1] = "SETUP_PCAP" /\ Where(f)[2] = "handshake"
    BY <1>2 DEF Where
  <2> QED
    BY <1>3, <2>1 DEF Busy
<1>5. fstate'[f] = "TOPOLOGY" /\ fstep'[f] = "await" /\ life'[f] = "running"
  <2>1. "TOPOLOGY" \in Round
    BY RoundIs
  <2> QED
    BY <1>1, <1>2, <2>1, EnterIs
<1>6. Kind(to'["ctrl"][f]) = c /\ Kind(to'["pcap"][f]) = "none"
  <2>1. Kind(to["pcap"][f]) \in Types /\ Kind(to["ctrl"][f]) = c
    <3>1. Kind(to["pcap"][f]) = "SETUP_PCAP" /\ Kind(to["ctrl"][f]) = c
      BY <1>4 DEF Where
    <3> QED
      BY <3>1, SomeTypes
  <2> QED
    BY <1>1, <1>2, <2>1, TakeKind, Planes
<1>7. Where(f)' = <<"TOPOLOGY", "await", c, "none", "none", "none">>
  <2>1. Kind(from["ctrl"][f]) = "none" /\ Kind(from["pcap"][f]) = "none"
    BY <1>4 DEF Where
  <2> QED
    BY <1>2, <1>5, <1>6, <2>1 DEF Where
<1>8. InPlace(f)'
  <2>1. CASE step = 1 /\ ~Polled(f) /\ c = "none"
    <3>1. Where(f)' = Rests("TOPOLOGY")
      BY <1>7, <2>1 DEF Rests
    <3> QED
      BY <1>2, <1>4, <2>1, <3>1, Arrives, SettledIs, SMTT(30)
  <2>2. CASE step = 2 /\ Polled(f) /\ c = "TOPOLOGY"
    <3>1. "TOPOLOGY" \in Plain /\ Before("TOPOLOGY") = "TOPOLOGY"
      BY DEF Plain, Before
    <3>2. Where(f)' \in Due("TOPOLOGY", 2)
      <4>1. <<Before("TOPOLOGY"), "await", "TOPOLOGY", "none", "none", "none">> \in Due("TOPOLOGY", 2)
        BY <3>1, DueIs, Zenon
      <4> QED
        BY <1>7, <2>2, <3>1, <4>1
    <3> QED
      BY <1>2, <1>4, <2>2, <3>2, Arrives
  <2> QED
    BY <1>4, <2>1, <2>2
<1>9. Well(f)'
  BY <1>2, <1>5, StaysWell, UnchangedKinds
<1> QED
  BY <1>8, <1>9

\* A request answered at once.
LEMMA AnswerStays ==
  ASSUME IInv, NEW f \in Fragment, Well(f), NEW r \in Plain, state = r, step = 2, Polled(f),
         to["ctrl"][f] # <<>>, Kind(to["ctrl"][f]) = r, Kind(to["pcap"][f]) = "none",
         Kind(from["ctrl"][f]) = "none", Kind(from["pcap"][f]) = "none",
         Take(f, "ctrl"), Respond(f, "ctrl", r, "NONE", Head(to["ctrl"][f]).number),
         fstate'[f] = After(r), fstep'[f] = "await", UNCHANGED orchVars,
         After(r) # "DONE" => life'[f] = "running",
         After(r) = "RUN_TESTCASE" => thread'[f] = "running"
  PROVE  InPlace(f)' /\ Well(f)'
<1>1. TypeOK /\ Steps /\ Channels /\ r \in Types
  BY SomeTypes DEF IInv
<1>2. Kind(to'["ctrl"][f]) = "none" /\ Kind(to'["pcap"][f]) = "none"
  BY <1>1, TakeKind, Planes
<1>3. /\ Kind(from'["ctrl"][f]) = r /\ Kind(from'["pcap"][f]) = "none"
      /\ \A q \in Plane : \A m \in Told(q, f)' : m \in Told(q, f) \/ m.err = "NONE"
  <2>1. Head(to["ctrl"][f]).number \in Nat
    BY <1>1, HeadType, Planes DEF RequestType
  <2> QED
    BY <1>1, <2>1, RespondKind, Planes
<1>4. Where(f)' = <<After(r), "await", "none", "none", r, "none">>
  BY <1>2, <1>3 DEF Where
<1>5. InPlace(f)'
  <2>1. Where(f)' \in Due(r, 2)
    BY <1>4, DueIs
  <2> QED
    BY <2>1, Arrives
<1>6. Well(f)'
  BY <1>3, StaysWell
<1> QED
  BY <1>5, <1>6

\* The place of a fragment that has a request of one of the plain rounds.
LEMMA PlainAsk ==
  ASSUME IInv, NEW f \in Fragment, InPlace(f), to["ctrl"][f] # <<>>,
         fstate[f] \notin {"SETUP_CTRL", "SETUP_PCAP"}, Head(to["ctrl"][f]).type # "OP"
  PROVE  /\ state \in Plain /\ step = 2 /\ Polled(f)
         /\ Head(to["ctrl"][f]).type = state /\ fstate[f] = Before(state)
         /\ fstep[f] = "await" \/ (fstep[f] = "accept" /\ state = "START_MIXNET_CLIENTS")
         /\ Kind(to["ctrl"][f]) = state /\ Kind(to["pcap"][f]) = "none"
         /\ Kind(from["ctrl"][f]) = "none" /\ Kind(from["pcap"][f]) = "none"
<1>1. \A s, a, c, p, rc, rp : At(f, s, a, c, p, rc, rp) => s \notin {"SETUP_CTRL", "SETUP_PCAP"}
  BY DEF At
<1>2. \/ /\ state \in Plain /\ step = 2 /\ Polled(f) /\ Head(to["ctrl"][f]).type = state
         /\ At(f, Before(state), "await", state, "none", "none", "none")
      \/ /\ state = "START_MIXNET_CLIENTS" /\ step = 2 /\ Polled(f)
         /\ Head(to["ctrl"][f]).type = "START_MIXNET_CLIENTS"
         /\ At(f, "START_MIXNET_CLIENTS", "accept", "START_MIXNET_CLIENTS", "none", "none", "none")
  BY <1>1, Asks
<1>3. "START_MIXNET_CLIENTS" \in Plain /\ Before("START_MIXNET_CLIENTS") = "START_MIXNET_CLIENTS"
  BY DEF Plain, Before
<1> QED
  BY <1>2, <1>3 DEF At

LEMMA RoundStays ==
  ASSUME IInv, NEW f \in Fragment, InPlace(f), Well(f),
         NEW r \in {"TOPOLOGY", "START_MIXNET_SERVER", "RESOLVE_MIXNET_CONNS", "START_TESTCASE"},
         Answer(f, r), r = "START_TESTCASE" => thread'[f] = "running"
  PROVE  InPlace(f)' /\ Well(f)'
<1>1. TypeOK /\ Steps /\ Channels /\ r \in Plain /\ After(r) \in Round \cup {"RUN_TESTCASE"}
  BY RoundIs, AfterIs DEF IInv, Plain
<1>2. /\ fstate[f] = r /\ Head(to["ctrl"][f]).type = r /\ to["ctrl"][f] # <<>> /\ life[f] = "running"
      /\ Respond(f, "ctrl", r, "NONE", Head(to["ctrl"][f]).number)
      /\ Take(f, "ctrl") /\ Enter(f, After(r), "await") /\ UNCHANGED orchVars
  BY AfterIs, NextRoundIs DEF Answer, HasRequest, Running
<1>3. /\ state = r /\ step = 2 /\ Polled(f) /\ Kind(to["ctrl"][f]) = r /\ Kind(to["pcap"][f]) = "none"
      /\ Kind(from["ctrl"][f]) = "none" /\ Kind(from["pcap"][f]) = "none"
  BY <1>2, PlainAsk
<1>4. fstate'[f] = After(r) /\ fstep'[f] = "await" /\ life'[f] = "running"
  BY <1>1, <1>2, EnterIs
<1>5. After(r) = "RUN_TESTCASE" => thread'[f] = "running"
  BY AfterIs
<1> QED
  BY <1>1, <1>2, <1>3, <1>4, <1>5, AnswerStays

LEMMA ConnectMixnetStays ==
  ASSUME IInv, NEW f \in Fragment, InPlace(f), Well(f), ConnectMixnet(f)
  PROVE  InPlace(f)' /\ Well(f)'
<1>1. TypeOK /\ Steps /\ Channels /\ "START_MIXNET_CLIENTS" \in Round
  BY RoundIs DEF IInv
<1>2. /\ fstate[f] = "START_MIXNET_CLIENTS" /\ to["ctrl"][f] # <<>> /\ life[f] = "running"
      /\ Head(to["ctrl"][f]).type = "START_MIXNET_CLIENTS"
      /\ Enter(f, "START_MIXNET_CLIENTS", "accept") /\ UNCHANGED <<to, from, orchVars>>
  BY DEF ConnectMixnet, HasRequest, Running
<1>3. /\ state = "START_MIXNET_CLIENTS" /\ step = 2 /\ Polled(f)
      /\ Kind(to["ctrl"][f]) = "START_MIXNET_CLIENTS" /\ Kind(to["pcap"][f]) = "none"
      /\ Kind(from["ctrl"][f]) = "none" /\ Kind(from["pcap"][f]) = "none"
  BY <1>2, PlainAsk
<1>4. fstate'[f] = "START_MIXNET_CLIENTS" /\ fstep'[f] = "accept" /\ life'[f] = "running"
  BY <1>1, <1>2, EnterIs
<1>5. Where(f)' = <<"START_MIXNET_CLIENTS", "accept", "START_MIXNET_CLIENTS", "none", "none", "none">>
  BY <1>2, <1>3, <1>4 DEF Where
<1>6. InPlace(f)'
  BY <1>2, <1>3, <1>5, Arrives, DueIs
<1>7. Well(f)'
  BY <1>2, <1>4, StaysWell, UnchangedKinds
<1> QED
  BY <1>6, <1>7

LEMMA AcceptMixnetStays ==
  ASSUME IInv, NEW f \in Fragment, InPlace(f), Well(f), AcceptMixnet(f)
  PROVE  InPlace(f)' /\ Well(f)'
<1>1. TypeOK /\ Steps /\ Channels /\ Holding /\ "RESOLVE_MIXNET_CONNS" \in Round
      /\ "START_MIXNET_CLIENTS" \in Plain /\ After("START_MIXNET_CLIENTS") = "RESOLVE_MIXNET_CONNS"
  BY RoundIs, AfterIs DEF IInv, Plain
<1>2. /\ fstate[f] = "START_MIXNET_CLIENTS" /\ fstep[f] = "accept" /\ life[f] = "running"
      /\ Respond(f, "ctrl", "START_MIXNET_CLIENTS", "NONE", Head(to["ctrl"][f]).number)
      /\ Take(f, "ctrl") /\ Enter(f, "RESOLVE_MIXNET_CONNS", "await") /\ UNCHANGED orchVars
  BY DEF AcceptMixnet, Running
<1>3. to["ctrl"][f] # <<>> /\ Head(to["ctrl"][f]).type = "START_MIXNET_CLIENTS"
  BY <1>1, <1>2 DEF Holding
<1>4. /\ state = "START_MIXNET_CLIENTS" /\ step = 2 /\ Polled(f)
      /\ Kind(to["ctrl"][f]) = "START_MIXNET_CLIENTS" /\ Kind(to["pcap"][f]) = "none"
      /\ Kind(from["ctrl"][f]) = "none" /\ Kind(from["pcap"][f]) = "none"
  BY <1>2, <1>3, PlainAsk
<1>5. fstate'[f] = "RESOLVE_MIXNET_CONNS" /\ fstep'[f] = "await" /\ life'[f] = "running"
  BY <1>1, <1>2, EnterIs
<1> QED
  BY <1>1, <1>2, <1>3, <1>4, <1>5, AnswerStays

LEMMA EndTestcaseStays ==
  ASSUME IInv, NEW f \in Fragment, InPlace(f), Well(f), EndTestcase(f)
  PROVE  InPlace(f)' /\ Well(f)'
<1>1. TypeOK /\ Steps /\ Channels /\ "SHUTDOWN" \in Round
      /\ "END_TESTCASE" \in Plain /\ After("END_TESTCASE") = "SHUTDOWN"
  BY RoundIs, AfterIs DEF IInv, Plain
<1>2. fstate[f] = "RUN_TESTCASE" /\ thread[f] = "running"
  BY DEF EndTestcase, Well
<1>3. /\ to["ctrl"][f] # <<>> /\ life[f] = "running" /\ Head(to["ctrl"][f]).type = "END_TESTCASE"
      /\ Respond(f, "ctrl", "END_TESTCASE", "NONE", Head(to["ctrl"][f]).number)
      /\ Take(f, "ctrl") /\ Enter(f, "SHUTDOWN", "await") /\ UNCHANGED orchVars
  BY <1>2 DEF EndTestcase, HasRequest, Running
<1>4. /\ state = "END_TESTCASE" /\ step = 2 /\ Polled(f)
      /\ Kind(to["ctrl"][f]) = "END_TESTCASE" /\ Kind(to["pcap"][f]) = "none"
      /\ Kind(from["ctrl"][f]) = "none" /\ Kind(from["pcap"][f]) = "none"
  BY <1>2, <1>3, PlainAsk
<1>5. fstate'[f] = "SHUTDOWN" /\ fstep'[f] = "await" /\ life'[f] = "running"
  BY <1>1, <1>3, EnterIs
<1> QED
  BY <1>1, <1>3, <1>4, <1>5, AnswerStays

LEMMA ShutdownStays ==
  ASSUME IInv, NEW f \in Fragment, InPlace(f), Well(f), Shutdown(f)
  PROVE  InPlace(f)' /\ Well(f)'
<1>1. TypeOK /\ Steps /\ Channels /\ "SHUTDOWN" \in Plain /\ After("SHUTDOWN") = "DONE"
  BY AfterIs DEF IInv, Plain
<1>2. /\ fstate[f] = "SHUTDOWN" /\ to["ctrl"][f] # <<>> /\ Head(to["ctrl"][f]).type = "SHUTDOWN"
      /\ Respond(f, "ctrl", "SHUTDOWN", "NONE", Head(to["ctrl"][f]).number)
      /\ Take(f, "ctrl") /\ fstate' = [fstate EXCEPT ![f] = "DONE"] /\ UNCHANGED <<fstep, orchVars>>
  BY DEF Shutdown, HasRequest
<1>3. /\ state = "SHUTDOWN" /\ step = 2 /\ Polled(f) /\ fstep[f] = "await"
      /\ Kind(to["ctrl"][f]) = "SHUTDOWN" /\ Kind(to["pcap"][f]) = "none"
      /\ Kind(from["ctrl"][f]) = "none" /\ Kind(from["pcap"][f]) = "none"
  BY <1>2, PlainAsk
<1>4. fstate'[f] = "DONE" /\ fstep'[f] = "await"
  BY <1>1, <1>2, <1>3 DEF TypeOK
<1> QED
  BY <1>1, <1>2, <1>3, <1>4, AnswerStays

\* The threads run, so the test case's request does not end the process.
LEMMA AnswerOpStays ==
  ASSUME IInv, NEW f \in Fragment, InPlace(f), Well(f), AnswerOp(f, "NONE")
  PROVE  InPlace(f)' /\ Well(f)'
<1>1. TypeOK /\ Steps /\ Channels /\ "OP" \in Types
  BY SomeTypes DEF IInv
<1>2. fstate[f] = "RUN_TESTCASE" /\ thread[f] = "running"
  BY DEF AnswerOp, Well
<1>3. /\ to["ctrl"][f] # <<>> /\ life[f] = "running" /\ Head(to["ctrl"][f]).type = "OP"
      /\ Respond(f, "ctrl", "OP", "NONE", Head(to["ctrl"][f]).number)
      /\ Take(f, "ctrl") /\ UNCHANGED <<orchVars, fragVars>>
  BY <1>2 DEF AnswerOp, HasRequest, Running
<1>4. /\ state = "RUN_TESTCASE" /\ step = 1 /\ Polled(f)
      /\ At(f, "RUN_TESTCASE", "await", "OP", "none", "none", "none")
  <2>1. "OP" \notin Plain
    BY DEF Plain
  <2> QED
    BY <1>3, <2>1, Asks
<1>5. UNCHANGED <<fstate, fstep, life, thread>>
  BY <1>3 DEF fragVars
<1>6. Kind(to'["ctrl"][f]) = "none" /\ Kind(to'["pcap"][f]) = "none"
  <2>1. Kind(to["ctrl"][f]) \in Types /\ Kind(to["pcap"][f]) = "none"
    BY <1>1, <1>4 DEF At
  <2> QED
    BY <1>1, <1>3, <2>1, TakeKind, Planes
<1>7. /\ Kind(from'["ctrl"][f]) = "OP" /\ Kind(from'["pcap"][f]) = "none"
      /\ \A q \in Plane : \A m \in Told(q, f)' : m \in Told(q, f) \/ m.err = "NONE"
  <2>1. Kind(from["ctrl"][f]) = "none" /\ Kind(from["pcap"][f]) = "none"
    BY <1>4 DEF At
  <2>2. Head(to["ctrl"][f]).number \in Nat
    BY <1>1, <1>3, HeadType, Planes DEF RequestType
  <2> QED
    BY <1>1, <1>3, <2>1, <2>2, RespondKind, Planes
<1>8. Where(f)' = <<"RUN_TESTCASE", "await", "none", "none", "OP", "none">>
  BY <1>4, <1>5, <1>6, <1>7 DEF Where, At
<1>9. InPlace(f)'
  BY <1>3, <1>4, <1>8, Arrives, DueIs
<1>10. Well(f)'
  BY <1>2, <1>3, <1>5, <1>7, StaysWell
<1> QED
  BY <1>9, <1>10

\* Who has exited is done, and then nobody's threads run.
LEMMA GoneIsDone ==
  ASSUME IInv, Orderly, NEW g \in Fragment, Gone(g)
  PROVE  fstate[g] = "DONE" /\ state \in Over /\ \A f \in Fragment : Ended(f)
<1>1. fstate[g] = "DONE"
  BY DEF Orderly, Well, Gone
<1>2. state \in Over
  BY <1>1 DEF IInv, Ending
<1> QED
  BY <1>1, <1>2 DEF IInv, Ending, Orderly

LEMMA NoRejection ==
  ASSUME IInv, NEW f \in Fragment, InPlace(f), RejectRequest(f)
  PROVE  FALSE
<1>1. to["ctrl"][f] # <<>> /\ fstep[f] = "await" /\ Head(to["ctrl"][f]).type \notin Expected(f)
  BY DEF RejectRequest, HasRequest
<1>2. state \in Plain => state = Before(state) \/ (Before(state) = "RUN_TESTCASE" /\ state = "END_TESTCASE")
  BY DEF Before
<1>3. CASE fstate[f] \in {"SETUP_CTRL", "SETUP_PCAP"}
  <2>1. Head(to["ctrl"][f]).type # fstate[f]
    BY <1>1, <1>3 DEF Expected
  <2>2. \A s, a, c, p, rc, rp : At(f, s, a, c, p, rc, rp) => s = fstate[f] /\ a = "await"
    BY <1>1 DEF At
  <2>3. state \in Plain => Before(state) \notin {"SETUP_CTRL", "SETUP_PCAP"}
    BY DEF Plain, Before
  <2> QED
    BY <1>1, <1>3, <2>1, <2>2, <2>3, Asks
<1>4. CASE fstate[f] \notin {"SETUP_CTRL", "SETUP_PCAP"} /\ Head(to["ctrl"][f]).type # "OP"
  <2>1. Head(to["ctrl"][f]).type = state /\ fstate[f] = Before(state) /\ state \in Plain
    BY <1>1, <1>4, PlainAsk
  <2> QED
    BY <1>1, <1>2, <2>1, RoundsAre DEF Expected
<1>5. CASE Head(to["ctrl"][f]).type = "OP"
  <2>1. "OP" \notin Plain
    BY DEF Plain
  <2>2. fstate[f] = "RUN_TESTCASE"
    BY <1>1, <1>5, <2>1, Asks DEF At
  <2> QED
    BY <1>1, <1>5, <2>2 DEF Expected
<1> QED
  BY <1>3, <1>4, <1>5

LEMMA NoLostOrchestrator ==
  ASSUME IInv, NEW f \in Fragment, InPlace(f), LoseOrchestrator(f)
  PROVE  FALSE
<1>1. state = "DONE" /\ life[f] = "running" /\ TypeOK /\ Steps
  BY DEF LoseOrchestrator, Closed, Running, IInv
<1>2. ~Busy(f)
  BY <1>1, RoundsAre DEF Busy
<1>3. fstate[f] = "DONE"
  BY <1>1, <1>2, Located DEF Resting
<1> QED
  BY <1>1, <1>3 DEF IInv, Ending, Gone

\* Whoever waits for its neighbours: all of them are in the round, and have connected or
\* have been asked to.
LEMMA NeighborsConnect ==
  ASSUME IInv, Orderly, NEW f \in Fragment, fstep[f] = "accept"
  PROVE  Accepting(f)
<1>1. TypeOK /\ Steps /\ Channels /\ Connected /\ InPlace(f) /\ Well(f)
  BY DEF IInv, Orderly
<1>2. state = "START_MIXNET_CLIENTS" /\ step = 2 /\ fstate[f] = "START_MIXNET_CLIENTS"
  <2>1. Busy(f)
    BY <1>1, Located DEF Resting
  <2> QED
    BY <2>1 DEF Busy, Where
<1>3. life[f] = "running"
  BY <1>1, <1>2 DEF Well
<1>4. ASSUME NEW g \in Fragment
      PROVE  connected[g] \/ Able(g)
  <2>1. InPlace(g) /\ Well(g) /\ error = "NONE"
    BY DEF Orderly
  <2>2. CASE g \notin pending
    BY <1>1, <1>2, <2>1, <2>2 DEF Connected
  <2>3. CASE g \in pending
    <3>1. state \in Plain /\ Polled(g)
      BY <1>2, <2>3 DEF Plain, Polled, Awaits
    <3>2. \/ At(g, Before(state), "await", state, "none", "none", "none")
          \/ At(g, After(state), "await", "none", "none", state, "none")
          \/ At(g, "START_MIXNET_CLIENTS", "accept", "START_MIXNET_CLIENTS", "none", "none", "none")
      <4>1. \/ Where(g) = <<Before(state), "await", state, "none", "none", "none">>
            \/ Where(g) = <<After(state), "await", "none", "none", state, "none">>
            \/ Where(g) = <<state, "accept", state, "none", "none", "none">>
        BY <1>2, <2>1, <3>1, DueIs DEF InPlace
      <4> QED
        BY <1>2, <4>1 DEF Where, At
    <3>3. CASE At(g, Before(state), "await", state, "none", "none", "none")
      <4>1. fstate[g] = "START_MIXNET_CLIENTS" /\ fstep[g] = "await"
            /\ Kind(to["ctrl"][g]) # "none"
        BY <1>2, <3>3 DEF At, Before
      <4>2. to["ctrl"][g] # <<>>
        BY <1>1, <4>1, KindTo, Planes
      <4>3. life[g] = "running"
        BY <2>1, <4>1 DEF Well
      <4> QED
        BY <4>1, <4>2, <4>3 DEF Able, Running
    <3>4. CASE At(g, After(state), "await", "none", "none", state, "none")
      <4>1. Kind(from["ctrl"][g]) = "START_MIXNET_CLIENTS" /\ "START_MIXNET_CLIENTS" \in Types
        BY <1>2, <3>1, <3>4, SomeTypes DEF At
      <4>2. /\ from["ctrl"][g] # <<>> /\ from["ctrl"][g] \in Seq(ResponseType)
            /\ Head(from["ctrl"][g]).type = "START_MIXNET_CLIENTS"
        BY <1>1, <4>1, KindFrom, TypesAre, Planes, HeadType
      <4>3. Head(from["ctrl"][g]) \in Told("ctrl", g)
        BY <4>2 DEF Told, In
      <4> QED
        BY <1>1, <4>2, <4>3 DEF Connected
    <3>5. CASE At(g, "START_MIXNET_CLIENTS", "accept", "START_MIXNET_CLIENTS", "none", "none", "none")
      BY <1>1, <3>5 DEF Connected, At
    <3> QED
      BY <3>2, <3>3, <3>4, <3>5
  <2> QED
    BY <2>2, <2>3
<1> QED
  BY <1>3, <1>4, ConstantAssumption DEF Accepting, Running

\* Whoever waits for its neighbours will see them connect.
LEMMA NoConnectTimeout ==
  ASSUME IInv, Orderly, ~late', NEW f \in Fragment, ConnectTimeout(f)
  PROVE  FALSE
<1>1. /\ fstate[f] = "START_MIXNET_CLIENTS" /\ to["ctrl"][f] # <<>>
      /\ \/ \E g \in Neighbor[f] : Gone(g)
         \/ fstep[f] = "accept"
      /\ Premature(Accepting(f))
  BY DEF ConnectTimeout, HasRequest
<1>2. Neighbor[f] \subseteq Fragment
  BY ConstantAssumption
<1>3. ASSUME NEW g \in Fragment PROVE ~Gone(g) /\ Running(g)
  <2>1. fstate[f] = "START_MIXNET_CLIENTS" => ~Ended(f)
    BY DEF Ended
  <2>2. ~Gone(g)
    BY <1>1, <2>1, GoneIsDone, Zenon
  <2>3. fstate[g] # "DONE"
    BY <2>2 DEF IInv, Ending
  <2> QED
    BY <2>2, <2>3 DEF Orderly, Well, Running
<1>4. fstep[f] = "accept"
  BY <1>1, <1>2, <1>3, Zenon
<1>5. Accepting(f)
  BY <1>4, NeighborsConnect
<1> QED
  BY <1>1, <1>5 DEF Premature

LEMMA NoLostNeighbor ==
  ASSUME IInv, Orderly, NEW f \in Fragment, LoseNeighbor(f)
  PROVE  FALSE
<1>1. Neighbor[f] \subseteq Fragment /\ thread[f] = "running"
  BY ConstantAssumption DEF LoseNeighbor
<1>2. PICK g \in Fragment : Gone(g)
  BY <1>1 DEF LoseNeighbor
<1>3. Ended(f)
  BY <1>2, GoneIsDone
<1> QED
  BY <1>1, <1>3 DEF IInv, Ending

LEMMA FragmentStays ==
  ASSUME IInv, Calm, Calm', Orderly, NEW f \in Fragment, FragmentStep(f) \/ FaultStep(f)
  PROVE  Orderly'
<1>1. OthersAsBefore(f)
  BY FragmentEffect DEF Effect
<1>2. TypeOK /\ InPlace(f) /\ Well(f) /\ ~late'
  BY DEF IInv, Orderly, Calm
<1>3. InPlace(f)' /\ Well(f)'
  <2>1. CASE ConnectCtrl(f)
    BY <1>2, <2>1, ConnectCtrlStays
  <2>2. CASE CompleteCtrl(f)
    BY <1>2, <2>2, CompleteCtrlStays
  <2>3. CASE AnswerPcap(f)
    BY <1>2, <2>3, AnswerPcapStays
  <2>4. CASE ConnectPcap(f)
    BY <1>2, <2>4, ConnectPcapStays
  <2>5. CASE CompletePcap(f)
    BY <1>2, <2>5, CompletePcapStays
  <2>6. CASE CreateTopology(f)
    BY <1>2, <2>6, RoundStays DEF CreateTopology
  <2>7. CASE StartMixnetServer(f)
    BY <1>2, <2>7, RoundStays DEF StartMixnetServer
  <2>8. CASE ResolveConnections(f)
    BY <1>2, <2>8, RoundStays DEF ResolveConnections
  <2>9. CASE StartTestcase(f)
    <3>1. Answer(f, "START_TESTCASE") /\ thread'[f] = "running"
      BY <1>2, <2>9 DEF StartTestcase, TypeOK
    <3> QED
      BY <1>2, <3>1, RoundStays
  <2>10. CASE ConnectMixnet(f)
    BY <1>2, <2>10, ConnectMixnetStays
  <2>11. CASE AcceptMixnet(f)
    BY <1>2, <2>11, AcceptMixnetStays
  <2>12. CASE ConnectTimeout(f)
    BY <1>2, <2>12, NoConnectTimeout
  <2>13. CASE AnswerOp(f, "NONE")
    BY <1>2, <2>13, AnswerOpStays
  <2>14. CASE EndTestcase(f)
    BY <1>2, <2>14, EndTestcaseStays
  <2>15. CASE Shutdown(f)
    BY <1>2, <2>15, ShutdownStays
  <2>16. CASE RejectRequest(f)
    BY <1>2, <2>16, NoRejection
  <2>17. CASE LoseOrchestrator(f)
    BY <1>2, <2>17, NoLostOrchestrator
  <2>18. CASE LoseNeighbor(f)
    BY <1>2, <2>18, NoLostNeighbor
  <2>19. CASE FailStep(f) \/ Crash(f) \/ ThreadExits(f) \/ ThreadHangs(f)
    BY <1>2, <2>19, NoFault DEF FailStep, Crash, ThreadExits, ThreadHangs
  <2>20. CASE AnswerOp(f, "FRAGMENT_EXCEPTION")
    BY <1>2, <2>20, NoFault
  <2> QED
    BY <2>1, <2>2, <2>3, <2>4, <2>5, <2>6, <2>7, <2>8, <2>9, <2>10, <2>11, <2>12, <2>13, <2>14,
       <2>15, <2>16, <2>17, <2>18, <2>19, <2>20 DEF FragmentStep, FaultStep
<1>4. \A g \in Fragment \ {f} : InPlace(g)' /\ Well(g)'
  BY <1>1, OthersStay DEF Orderly
<1>5. exit_code' = "NONE" /\ error' = "NONE"
  BY <1>1 DEF Orderly, OthersAsBefore, orchVars
<1> QED
  BY <1>3, <1>4, <1>5 DEF Orderly

-----------------------------------------------------------------------------
(* The steps of the orchestrator *)

\* A fragment that does nothing itself, at a place of the orchestrator's new position.
LEMMA Waits ==
  ASSUME NEW g \in Fragment, Well(g), UNCHANGED fragVars,
         \A q \in Plane : \A m \in Told(q, g)' : m \in Told(q, g)
  PROVE  Well(g)'
<1>1. fstate'[g] = fstate[g] /\ life'[g] = life[g] /\ thread'[g] = thread[g]
  BY DEF fragVars
<1> QED
  BY <1>1 DEF Well

\* At a send, where every fragment is and what the request makes of it.
LEMMA BeforeSend ==
  ASSUME IInv, Orderly, Does("send"), NEW g \in Fragment
  PROVE  /\ ~Polled(g) /\ Where(g) \in Settled(state, step) /\ ~Gone(g)
         /\ state \in Types
         /\ \/ state = "SETUP_CTRL" /\ step = 2
            \/ state = "SETUP_PCAP" /\ step \in {1, 4}
            \/ state \in Plain /\ step = 1
<1>1. TypeOK /\ Steps /\ InPlace(g)
  BY DEF IInv, Orderly
<1>2. \/ state = "SETUP_CTRL" /\ step = 2
      \/ state = "SETUP_PCAP" /\ step \in {1, 4}
      \/ state \in Plain /\ step = 1
  BY <1>1, DoesIs, RoundsAre DEF InRound
<1>3. ~Polled(g)
  BY <1>2, RoundsAre DEF Polled, Awaits
<1>4. Where(g) \in Settled(state, step)
  BY <1>1, <1>3 DEF InPlace
<1>5. fstate[g] # "DONE"
  <2>1. Where(g)[1] = fstate[g]
    BY DEF Where
  <2>2. \A s : Rests(s)[1] = s
    BY DEF Rests
  <2>3. CASE state = "SETUP_CTRL" /\ step = 2
    BY <1>4, <2>1, <2>2, <2>3, SettledIs
  <2>4. CASE state = "SETUP_PCAP" /\ step = 1
    BY <1>4, <2>1, <2>2, <2>4, SettledIs
  <2>5. CASE state = "SETUP_PCAP" /\ step = 4
    BY <1>4, <2>1, <2>5, SettledIs
  <2>6. CASE state = "TOPOLOGY" /\ step = 1
    BY <1>4, <2>1, <2>2, <2>6, SettledIs
  <2>7. CASE state \in Plain \ {"TOPOLOGY"} /\ step = 1
    <3>1. Where(g) = Rests(Before(state))
      BY <1>4, <2>7, SettledIs
    <3>2. fstate[g] = Before(state)
      BY <2>1, <2>2, <3>1
    <3> QED
      BY <2>7, <3>2, RoundsAre DEF Before
  <2> QED
    BY <1>2, <2>3, <2>4, <2>5, <2>6, <2>7
<1>6. ~Gone(g)
  BY <1>5 DEF Orderly, Well, Gone
<1>7. state \in Types
  BY <1>2, SomeTypes
<1> QED
  BY <1>2, <1>3, <1>4, <1>6, <1>7

LEMMA SendRoundStays ==
  ASSUME IInv, Calm', Orderly, NEW k \in Fragment, NEW broken \in BOOLEAN, SendRound(k, broken)
  PROVE  Orderly'
<1>1. TypeOK /\ Steps /\ Channels /\ InRound /\ Does("send") /\ error = "NONE" /\ exit_code = "NONE"
  BY DEF IInv, Orderly, SendRound, Does
<1>2. N \in Nat /\ 1 \in Fragment
  BY ConstantAssumption DEF Fragment
<1>3. k = N /\ ~broken
  <2>1. ~(k < N)
    BY DEF SendRound, Premature, Calm
  <2>2. k = N
    BY <1>2, <2>1 DEF Fragment
  <2>3. \A f \in 1 .. k : f \in Fragment
    BY <2>2 DEF Fragment
  <2>4. ~broken
    BY <1>1, <2>3, BeforeSend DEF SendRound
  <2> QED
    BY <2>2, <2>4
<1> DEFINE x == Request(state, request + 1)
<1>4. FinishStep("NONE") /\ UNCHANGED <<fragVars, from>>
  <2>1. ~(k < N)
    BY <1>2, <1>3
  <2> QED
    BY <1>3, <2>1 DEF SendRound
<1>5. x \in RequestType /\ x.type = state
  BY SendIs DEF Request
<1> HIDE DEF x
<1>6. OnPlane \in Plane
  BY <1>1, DoesIs, Planes
<1>7. ASSUME NEW g \in Fragment
      PROVE  /\ to'[OnPlane][g] = Append(to[OnPlane][g], x)
             /\ \A p \in Plane \ {OnPlane} : to'[p][g] = to[p][g]
  <2>1. g <= k /\ ~Gone(g)
    BY <1>1, <1>2, <1>3, BeforeSend DEF Fragment
  <2>2. to \in [Plane -> [Fragment -> Seq(RequestType)]]
    BY <1>1 DEF Channels
  <2> QED
    BY <1>6, <2>1, <2>2 DEF SendRound, x
<1>8. ASSUME NEW g \in Fragment
      PROVE  /\ Kind(to[OnPlane][g]) = "none" => Kind(to'[OnPlane][g]) = state
             /\ Kind(to[OnPlane][g]) = "SETUP_CTRL" /\ state = "SETUP_PCAP" => Kind(to'[OnPlane][g]) = "both"
             /\ \A p \in Plane \ {OnPlane} : Kind(to'[p][g]) = Kind(to[p][g])
  <2>1. to[OnPlane][g] \in Seq(RequestType)
    BY <1>1, <1>6, HeadType
  <2>2. PICK q \in Seq(RequestType) : q = to[OnPlane][g]
    BY <2>1
  <2>3. /\ Kind(q) = "none" => Kind(Append(q, x)) = x.type
        /\ Kind(q) = "SETUP_CTRL" /\ x.type = "SETUP_PCAP" => Kind(Append(q, x)) = "both"
    BY <1>5, KindAppend, MessageTypes
  <2>4. to'[OnPlane][g] = Append(q, x)
    BY <1>7, <2>2
  <2>5. \A p \in Plane \ {OnPlane} : Kind(to'[p][g]) = Kind(to[p][g])
    BY <1>7
  <2> QED
    BY <1>5, <2>2, <2>3, <2>4, <2>5
<1>9. ASSUME NEW g \in Fragment PROVE Well(g)'
  BY <1>4, Waits DEF Orderly, Told
<1>10. ASSUME NEW g \in Fragment PROVE Where(g) \in Settled(state, step)
  BY <1>1, BeforeSend
<1>11. ASSUME NEW g \in Fragment
       PROVE  Where(g)' = <<fstate[g], fstep[g], Kind(to'["ctrl"][g]), Kind(to'["pcap"][g]),
                            Kind(from["ctrl"][g]), Kind(from["pcap"][g])>>
  BY <1>4 DEF Where, fragVars
<1>12. CASE state = "SETUP_CTRL" /\ step = 2
  <2>1. OnPlane = "ctrl" /\ Len(Program(state)) = 2
    BY <1>1, <1>12, DoesIs
  <2>2. state' = "SETUP_PCAP" /\ step' = 1 /\ exit_code' = "NONE" /\ error' = "NONE"
    BY <1>1, <1>4, <1>12, <2>1, NextRoundIs DEF FinishStep, FinishState, FirstError, OnSuccess
  <2>3. ASSUME NEW g \in Fragment PROVE InPlace(g)'
    <3>1. At(g, "SETUP_CTRL", "await", "none", "none", "none", "none")
      <4>1. Where(g) = Rests("SETUP_CTRL")
        BY <1>10, <1>12, SettledIs
      <4> QED
        BY <4>1 DEF Where, At, Rests
    <3>2. Where(g)' = <<"SETUP_CTRL", "await", "SETUP_CTRL", "none", "none", "none">>
      BY <1>8, <1>11, <1>12, <2>1, <3>1, Planes DEF At
    <3>3. ~Polled(g)'
      BY <2>2, RoundsAre DEF Polled, Awaits
    <3> QED
      BY <2>2, <3>2, <3>3, SettledIs DEF InPlace
  <2> QED
    BY <1>9, <2>2, <2>3 DEF Orderly
<1>13. CASE state = "SETUP_PCAP" /\ step = 1
  <2>1. OnPlane = "ctrl" /\ Len(Program(state)) = 4 /\ Program(state)[2][1] = "recv"
    BY <1>1, <1>13, DoesIs, ProgramIs
  <2>2. state' = "SETUP_PCAP" /\ step' = 2 /\ pending' = Fragment /\ exit_code' = "NONE" /\ error' = "NONE"
    BY <1>1, <1>4, <1>13, <2>1 DEF FinishStep
  <2>3. ASSUME NEW g \in Fragment PROVE InPlace(g)'
    <3>1. \/ At(g, "SETUP_CTRL", "await", "SETUP_CTRL", "none", "none", "none")
          \/ At(g, "SETUP_PCAP", "await", "none", "none", "none", "none")
      BY <1>10, <1>13, SettledIs DEF Where, At, Rests
    <3>2. \/ Where(g)' = <<"SETUP_CTRL", "await", "both", "none", "none", "none">>
          \/ Where(g)' = <<"SETUP_PCAP", "await", "SETUP_PCAP", "none", "none", "none">>
      BY <1>8, <1>11, <1>13, <2>1, <3>1, Planes DEF At
    <3>3. Polled(g)'
      BY <2>2 DEF Polled, Awaits
    <3> QED
      BY <2>2, <3>2, <3>3, DueIs DEF InPlace
  <2> QED
    BY <1>9, <2>2, <2>3 DEF Orderly
<1>14. CASE state = "SETUP_PCAP" /\ step = 4
  <2>1. OnPlane = "pcap" /\ Len(Program(state)) = 4
    BY <1>1, <1>14, DoesIs
  <2>2. state' = "TOPOLOGY" /\ step' = 1 /\ exit_code' = "NONE" /\ error' = "NONE"
    BY <1>1, <1>4, <1>14, <2>1, NextRoundIs DEF FinishStep, FinishState, FirstError, OnSuccess
  <2>3. ASSUME NEW g \in Fragment PROVE InPlace(g)'
    <3>1. At(g, "SETUP_PCAP", "handshake", "none", "none", "none", "none")
      BY <1>10, <1>14, SettledIs DEF Where, At
    <3>2. Where(g)' = <<"SETUP_PCAP", "handshake", "none", "SETUP_PCAP", "none", "none">>
      BY <1>8, <1>11, <1>14, <2>1, <3>1, Planes DEF At
    <3>3. ~Polled(g)'
      BY <2>2, RoundsAre DEF Polled, Awaits
    <3> QED
      BY <2>2, <3>2, <3>3, SettledIs DEF InPlace
  <2> QED
    BY <1>9, <2>2, <2>3 DEF Orderly
<1>15. CASE state \in Plain /\ step = 1
  <2>1. OnPlane = "ctrl" /\ Len(Program(state)) = 2 /\ Program(state)[2][1] = "recv"
    <3>1. InRound /\ state \notin {"SETUP_CTRL", "SETUP_PCAP"} /\ state \in Round \ {"SETUP_CTRL", "SETUP_PCAP"}
      BY <1>1, <1>15, RoundsAre DEF InRound
    <3>2. OnPlane = "ctrl" /\ Len(Program(state)) = 2
      BY <1>1, <3>1, DoesIs
    <3>3. Program(state) = <<<<"send", "ctrl">>, <<"recv", "ctrl">>>>
      BY <3>1, ProgramIs, Zenon
    <3> QED
      BY <3>2, <3>3
  <2>2. state' = state /\ step' = 2 /\ pending' = Fragment /\ exit_code' = "NONE" /\ error' = "NONE"
    BY <1>1, <1>4, <1>15, <2>1 DEF FinishStep
  <2>3. ASSUME NEW g \in Fragment PROVE InPlace(g)'
    <3>1. \/ At(g, Before(state), "await", "none", "none", "none", "none")
          \/ /\ state = "TOPOLOGY"
             /\ At(g, "SETUP_PCAP", "handshake", "none", "SETUP_PCAP", "none", "none")
      <4>1. CASE state = "TOPOLOGY"
        BY <1>10, <1>15, <4>1, SettledIs DEF Where, At, Rests, Before
      <4>2. CASE state # "TOPOLOGY"
        <5>1. Where(g) = Rests(Before(state))
          BY <1>10, <1>15, <4>2, SettledIs
        <5> QED
          BY <5>1 DEF Where, At, Rests
      <4> QED
        BY <4>1, <4>2
    <3>2. \/ Where(g)' = <<Before(state), "await", state, "none", "none", "none">>
          \/ /\ state = "TOPOLOGY"
             /\ Where(g)' = <<"SETUP_PCAP", "handshake", "TOPOLOGY", "SETUP_PCAP", "none", "none">>
      <4>1. Kind(to["ctrl"][g]) = "none"
        BY <3>1 DEF At
      <4>2. Kind(to'["ctrl"][g]) = state /\ Kind(to'["pcap"][g]) = Kind(to["pcap"][g])
        BY <1>8, <2>1, <4>1, Planes
      <4> QED
        BY <1>11, <3>1, <4>2 DEF At
    <3>3. Polled(g)'
      BY <1>15, <2>2, RoundsAre DEF Polled, Awaits
    <3>4. Where(g)' \in Due(state, 2)
      BY <1>15, <3>2, DueIs
    <3> QED
      BY <2>2, <3>3, <3>4 DEF InPlace
  <2> QED
    BY <1>9, <2>2, <2>3 DEF Orderly
<1>16. \/ state = "SETUP_CTRL" /\ step = 2
       \/ state = "SETUP_PCAP" /\ step \in {1, 4}
       \/ state \in Plain /\ step = 1
  BY <1>1, <1>2, BeforeSend
<1> QED
  BY <1>12, <1>13, <1>14, <1>15, <1>16

\* A fragment an answer is awaited from: its answer is there, or it has yet to give it.
LEMMA DueMeans ==
  ASSUME IInv, Orderly, NEW f \in Fragment, Does("recv"), f \in pending
  PROVE  /\ Polled(f) /\ Where(f) \in Due(state, step) /\ state \in Types /\ OnPlane \in Plane
         /\ Kind(from[OnPlane][f]) \in {"none", state}
         /\ Kind(from[OnPlane][f]) = "none" => ~Gone(f) /\ ~Silent(f, OnPlane)
         /\ Kind(from[OnPlane][f]) # "none" =>
              <<fstate[f], fstep[f], Kind(to["ctrl"][f]), Kind(to["pcap"][f]),
                IF OnPlane = "ctrl" THEN "none" ELSE Kind(from["ctrl"][f]),
                IF OnPlane = "pcap" THEN "none" ELSE Kind(from["pcap"][f])>> \in Settled(state, step)
<1>1. TypeOK /\ Steps /\ Channels /\ InRound /\ InPlace(f) /\ Well(f)
  BY DEF IInv, Does, Orderly
<1>2. \/ state = "SETUP_CTRL" /\ step = 1
      \/ state = "SETUP_PCAP" /\ step = 2
      \/ state = "SETUP_PCAP" /\ step = 3
      \/ state \in Plain /\ step = 2
  BY <1>1, DoesIs, RoundsAre DEF InRound
<1>3. Polled(f) /\ Where(f) \in Due(state, step)
  <2>1. Polled(f)
    BY <1>2, RoundsAre DEF Polled, Awaits
  <2> QED
    BY <1>1, <2>1 DEF InPlace
<1>4. state \in Types /\ state # "none" /\ OnPlane \in Plane
  <2>1. state \in Types
    BY <1>2, SomeTypes
  <2> QED
    BY <1>1, <2>1, TypesAre, DoesIs, Planes
<1>5. /\ OnPlane = IF state = "SETUP_PCAP" /\ step = 3 THEN "pcap" ELSE "ctrl"
  BY <1>1, <1>2, DoesIs, RoundsAre
<1>6. ASSUME fstate[f] # "DONE",
             fstep[f] = "await" => Kind(to["ctrl"][f]) # "none",
             fstep[f] = "handshake" => Kind(to["pcap"][f]) # "none"
      PROVE  ~Gone(f) /\ ~Silent(f, OnPlane)
  <2>1. life[f] = "running"
    BY <1>1, <1>6 DEF Well
  <2>2. fstep[f] = "await" => to["ctrl"][f] # <<>>
    BY <1>1, <1>6, KindTo, Planes
  <2>3. fstep[f] = "handshake" => to["pcap"][f] # <<>>
    BY <1>1, <1>6, KindTo, Planes
  <2>4. fstep[f] = "accept" => Accepting(f)
    BY NeighborsConnect
  <2>5. fstep[f] # "accept" => Able(f)
    <3>1. fstep[f] \in {"connect", "await", "handshake", "accept"}
      BY <1>1 DEF TypeOK
    <3> QED
      BY <2>1, <2>2, <2>3, <3>1 DEF Able, Running
  <2> QED
    BY <2>1, <2>4, <2>5 DEF Gone, Silent
<1> DEFINE Answered(rc, rp) ==
             <<fstate[f], fstep[f], Kind(to["ctrl"][f]), Kind(to["pcap"][f]), rc, rp>>
<1>7. CASE state = "SETUP_CTRL" /\ step = 1
  <2>1. \/ At(f, "SETUP_CTRL", "connect", "none", "none", "none", "none")
        \/ At(f, "SETUP_CTRL", "await", "none", "none", "SETUP_CTRL", "none")
    BY <1>3, <1>7, DueIs DEF Where, At
  <2>2. CASE At(f, "SETUP_CTRL", "connect", "none", "none", "none", "none")
    BY <1>3, <1>4, <1>5, <1>6, <1>7, <2>2 DEF At
  <2>3. CASE At(f, "SETUP_CTRL", "await", "none", "none", "SETUP_CTRL", "none")
    <3>1. Answered("none", "none") \in Settled(state, step)
      BY <1>7, <2>3, SettledIs DEF At, Rests
    <3> QED
      BY <1>3, <1>4, <1>5, <1>7, <2>3, <3>1 DEF At
  <2> QED
    BY <2>1, <2>2, <2>3
<1>8. CASE state = "SETUP_PCAP" /\ step = 2
  <2>1. \/ At(f, "SETUP_CTRL", "await", "both", "none", "none", "none")
        \/ At(f, "SETUP_PCAP", "await", "SETUP_PCAP", "none", "none", "none")
        \/ At(f, "SETUP_PCAP", "connect", "SETUP_PCAP", "none", "SETUP_PCAP", "none")
        \/ At(f, "SETUP_PCAP", "handshake", "none", "none", "SETUP_PCAP", "SETUP_PCAP")
    BY <1>3, <1>8, DueIs DEF Where, At
  <2>2. CASE \/ At(f, "SETUP_CTRL", "await", "both", "none", "none", "none")
             \/ At(f, "SETUP_PCAP", "await", "SETUP_PCAP", "none", "none", "none")
    BY <1>3, <1>4, <1>5, <1>6, <1>8, <2>2 DEF At
  <2>3. CASE At(f, "SETUP_PCAP", "connect", "SETUP_PCAP", "none", "SETUP_PCAP", "none")
    <3>1. Answered("none", "none") \in Settled(state, step)
      BY <1>8, <2>3, SettledIs DEF At
    <3> QED
      BY <1>3, <1>4, <1>5, <1>8, <2>3, <3>1 DEF At
  <2>4. CASE At(f, "SETUP_PCAP", "handshake", "none", "none", "SETUP_PCAP", "SETUP_PCAP")
    <3>1. Answered("none", "SETUP_PCAP") \in Settled(state, step)
      BY <1>8, <2>4, SettledIs DEF At
    <3> QED
      BY <1>3, <1>4, <1>5, <1>8, <2>4, <3>1 DEF At
  <2> QED
    BY <2>1, <2>2, <2>3, <2>4
<1>9. CASE state = "SETUP_PCAP" /\ step = 3
  <2>1. \/ At(f, "SETUP_PCAP", "connect", "SETUP_PCAP", "none", "none", "none")
        \/ At(f, "SETUP_PCAP", "handshake", "none", "none", "none", "SETUP_PCAP")
    BY <1>3, <1>9, DueIs DEF Where, At
  <2>2. CASE At(f, "SETUP_PCAP", "connect", "SETUP_PCAP", "none", "none", "none")
    BY <1>3, <1>4, <1>5, <1>6, <1>9, <2>2 DEF At
  <2>3. CASE At(f, "SETUP_PCAP", "handshake", "none", "none", "none", "SETUP_PCAP")
    <3>1. Answered("none", "none") \in Settled(state, step)
      BY <1>9, <2>3, SettledIs DEF At
    <3> QED
      BY <1>3, <1>4, <1>5, <1>9, <2>3, <3>1 DEF At
  <2> QED
    BY <2>1, <2>2, <2>3
<1>10. CASE state \in Plain /\ step = 2
  <2>1. \/ At(f, Before(state), "await", state, "none", "none", "none")
        \/ At(f, After(state), "await", "none", "none", state, "none")
        \/ At(f, "SETUP_PCAP", "handshake", "TOPOLOGY", "SETUP_PCAP", "none", "none")
        \/ At(f, "START_MIXNET_CLIENTS", "accept", "START_MIXNET_CLIENTS", "none", "none", "none")
    <3>1. \/ Where(f) = <<Before(state), "await", state, "none", "none", "none">>
          \/ Where(f) = <<After(state), "await", "none", "none", state, "none">>
          \/ Where(f) = <<"SETUP_PCAP", "handshake", "TOPOLOGY", "SETUP_PCAP", "none", "none">>
          \/ Where(f) = <<"START_MIXNET_CLIENTS", "accept", "START_MIXNET_CLIENTS", "none", "none", "none">>
      BY <1>3, <1>10, DueIs
    <3> QED
      BY <3>1 DEF Where, At
  <2>2. OnPlane = "ctrl" /\ Before(state) # "DONE"
    BY <1>5, <1>10, RoundsAre DEF Before
  <2>3. CASE \/ At(f, Before(state), "await", state, "none", "none", "none")
             \/ At(f, "SETUP_PCAP", "handshake", "TOPOLOGY", "SETUP_PCAP", "none", "none")
             \/ At(f, "START_MIXNET_CLIENTS", "accept", "START_MIXNET_CLIENTS", "none", "none", "none")
    <3>1. Kind(from["ctrl"][f]) = "none"
      BY <2>3 DEF At
    <3>2. ~Gone(f) /\ ~Silent(f, OnPlane)
      BY <1>4, <1>6, <2>2, <2>3 DEF At
    <3> QED
      BY <1>3, <1>4, <2>2, <3>1, <3>2
  <2>4. CASE At(f, After(state), "await", "none", "none", state, "none")
    <3>1. Settled(state, step) = {Rests(After(state))}
      BY <1>10, SettledIs
    <3>2. Answered("none", "none") \in Settled(state, step)
      BY <2>4, <3>1 DEF At, Rests
    <3> QED
      BY <1>3, <1>4, <2>2, <2>4, <3>2 DEF At
  <2> QED
    BY <2>1, <2>3, <2>4
<1> QED
  BY <1>2, <1>7, <1>8, <1>9, <1>10

LEMMA ReceiveResponseStays ==
  ASSUME IInv, Orderly, NEW f \in Fragment, ReceiveResponse(f)
  PROVE  Orderly'
<1>1. TypeOK /\ Steps /\ Channels /\ Does("recv") /\ InRound /\ f \in pending /\ error = "NONE"
      /\ exit_code = "NONE" /\ InPlace(f) /\ Well(f) /\ from[OnPlane][f] # <<>>
  BY DEF IInv, Orderly, ReceiveResponse, Does
<1>2. PICK p \in Plane : p = OnPlane
  BY <1>1, DueMeans
<1>3. /\ Kind(from[p][f]) = state /\ state \in Types
      /\ <<fstate[f], fstep[f], Kind(to["ctrl"][f]), Kind(to["pcap"][f]),
           IF p = "ctrl" THEN "none" ELSE Kind(from["ctrl"][f]),
           IF p = "pcap" THEN "none" ELSE Kind(from["pcap"][f])>> \in Settled(state, step)
  <2>1. Kind(from[p][f]) # "none"
    BY <1>1, <1>2, KindFrom
  <2> QED
    BY <1>1, <1>2, <2>1, DueMeans
<1>4. Head(from[p][f]).type = state /\ Kind(Tail(from[p][f])) = "none"
  BY <1>1, <1>3, KindFrom
<1>5. Head(from[p][f]).err = "NONE"
  <2>1. Head(from[p][f]) \in Told(p, f)
    BY <1>1, <1>2, HeadType
  <2> QED
    BY <1>1, <2>1 DEF Well
<1>6. error' = "NONE" /\ exit_code' = "NONE"
  BY <1>1, <1>2, <1>4, <1>5 DEF ReceiveResponse, Check, FirstError
<1>7. UNCHANGED <<state, step, op, fragVars, to>> /\ pending' = pending \ {f}
      /\ from' = [from EXCEPT ![p][f] = Tail(@)]
  BY <1>2 DEF ReceiveResponse
<1>8. /\ from'[p][f] = Tail(from[p][f])
      /\ \A q \in Plane, g \in Fragment : q # p \/ g # f => from'[q][g] = from[q][g]
  <2>1. from \in [Plane -> [Fragment -> Seq(ResponseType)]]
    BY <1>1 DEF Channels
  <2> QED
    BY <1>7, <2>1
<1>9. ASSUME NEW g \in Fragment PROVE Well(g)'
  <2>1. ASSUME NEW q \in Plane, NEW m \in Told(q, g)' PROVE m \in Told(q, g)
    <3>1. CASE q = p /\ g = f
      <4>1. In(Tail(from[p][f])) \subseteq Told(p, f)
        BY <1>1, <1>2, HeadType
      <4> QED
        BY <1>8, <2>1, <3>1, <4>1 DEF Told
    <3>2. CASE q # p \/ g # f
      BY <1>8, <2>1, <3>2 DEF Told
    <3> QED
      BY <3>1, <3>2
  <2> QED
    BY <1>7, <2>1, Waits DEF Orderly
<1>10. InPlace(f)'
  <2>1. ~Polled(f)'
    <3>1. state # "RUN_TESTCASE"
      BY <1>1, RoundsAre DEF InRound
    <3> QED
      BY <1>7, <3>1 DEF Polled
  <2>2. /\ Kind(from'["ctrl"][f]) = IF p = "ctrl" THEN "none" ELSE Kind(from["ctrl"][f])
        /\ Kind(from'["pcap"][f]) = IF p = "pcap" THEN "none" ELSE Kind(from["pcap"][f])
    <3>1. CASE p = "ctrl"
      BY <1>4, <1>8, <3>1, Planes
    <3>2. CASE p = "pcap"
      BY <1>4, <1>8, <3>2, Planes
    <3> QED
      BY <3>1, <3>2, Planes
  <2>3. Where(f)' = <<fstate[f], fstep[f], Kind(to["ctrl"][f]), Kind(to["pcap"][f]),
                      IF p = "ctrl" THEN "none" ELSE Kind(from["ctrl"][f]),
                      IF p = "pcap" THEN "none" ELSE Kind(from["pcap"][f])>>
    BY <1>7, <2>2 DEF Where, fragVars
  <2>4. Where(f)' \in Settled(state, step)
    BY <1>3, <2>3
  <2> QED
    BY <1>7, <2>1, <2>4 DEF InPlace
<1>11. ASSUME NEW g \in Fragment, g # f PROVE InPlace(g)'
  <2>1. Polled(g)' <=> Polled(g)
    BY <1>7, <1>11 DEF Polled, Awaits
  <2>2. Where(g)' = Where(g)
    BY <1>7, <1>8, <1>11, Planes DEF Where, fragVars
  <2> QED
    BY <1>7, <2>1, <2>2 DEF Orderly, InPlace
<1> QED
  BY <1>6, <1>9, <1>10, <1>11 DEF Orderly

\* No process that is still to answer has ended, and none is silent.
LEMMA NoLostAnswer ==
  ASSUME IInv, Orderly, ~late'
  PROVE  ~ReceiveTimeout /\ \A f \in Fragment : ~ReceiveEnd(f)
<1>1. ASSUME NEW f \in Fragment, ReceiveEnd(f) PROVE FALSE
  <2>1. /\ Channels /\ Does("recv") /\ f \in pending /\ InPlace(f) /\ Well(f)
        /\ from[OnPlane][f] = <<>> /\ Gone(f)
    BY <1>1 DEF IInv, Orderly, ReceiveEnd
  <2>2. OnPlane \in Plane
    BY <2>1, DueMeans
  <2>3. Kind(from[OnPlane][f]) = "none"
    BY <2>1, <2>2, KindFrom
  <2> QED
    BY <2>1, <2>3, DueMeans
<1>2. ASSUME ReceiveTimeout PROVE FALSE
  <2>1. Channels /\ Does("recv") /\ pending # {} /\ pending \subseteq Fragment
    BY <1>2 DEF IInv, TypeOK, ReceiveTimeout
  <2>2. PICK f \in Fragment : f \in pending
    BY <2>1
  <2>3. InPlace(f) /\ Well(f) /\ OnPlane \in Plane
    BY <2>1, <2>2, DueMeans DEF Orderly
  <2>4. ~Silent(f, OnPlane)
    <3>1. CASE Kind(from[OnPlane][f]) = "none"
      BY <2>1, <2>2, <2>3, <3>1, DueMeans
    <3>2. CASE Kind(from[OnPlane][f]) # "none"
      BY <2>1, <2>3, <3>2, KindFrom DEF Silent
    <3> QED
      BY <3>1, <3>2
  <2>5. \E g \in pending : ~Silent(g, OnPlane)
    BY <2>2, <2>4
  <2> QED
    BY <1>2, <2>5 DEF ReceiveTimeout, Premature
<1> QED
  BY <1>1, <1>2

\* Nothing is sent or taken, and the orchestrator's new position suits every fragment.
LEMMA Passes ==
  ASSUME Orderly, UNCHANGED <<fragVars, to, from>>, exit_code' = "NONE", error' = "NONE",
         \A g \in Fragment : /\ Polled(g)' => Where(g) \in Due(state', step')
                             /\ ~Polled(g)' => Where(g) \in Settled(state', step')
  PROVE  Orderly'
<1>1. ASSUME NEW g \in Fragment PROVE InPlace(g)' /\ Well(g)'
  <2>1. Where(g)' = Where(g)
    BY DEF Where, fragVars
  <2>2. InPlace(g)'
    BY <2>1 DEF InPlace
  <2>3. Well(g)'
    BY Waits DEF Orderly, Told
  <2> QED
    BY <2>2, <2>3
<1> QED
  BY <1>1 DEF Orderly

LEMMA EndReceiveStays ==
  ASSUME IInv, Orderly, EndReceive
  PROVE  Orderly'
<1>1. TypeOK /\ Steps /\ Does("recv") /\ InRound /\ pending = {} /\ error = "NONE" /\ exit_code = "NONE"
      /\ FinishStep("NONE") /\ UNCHANGED <<fragVars, to, from>>
  BY DEF IInv, Orderly, EndReceive, Does
<1>2. ASSUME NEW g \in Fragment PROVE Where(g) \in Settled(state, step)
  <2>1. ~Polled(g)
    BY <1>1, RoundsAre DEF Polled, InRound
  <2> QED
    BY <2>1 DEF Orderly, InPlace
<1>3. CASE state = "SETUP_CTRL" /\ step = 1
  <2>1. Len(Program(state)) = 2 /\ Program(state)[2][1] = "send"
    BY <1>1, <1>3, DoesIs, ProgramIs
  <2>2. state' = "SETUP_CTRL" /\ step' = 2 /\ exit_code' = "NONE" /\ error' = "NONE"
    BY <1>1, <1>3, <2>1 DEF FinishStep
  <2>3. \A g \in Fragment : ~Polled(g)'
    BY <2>2, RoundsAre DEF Polled, Awaits
  <2>4. \A g \in Fragment : Where(g) \in Settled(state', step')
    BY <1>2, <1>3, <2>2, SettledIs
  <2> QED
    BY <1>1, <2>2, <2>3, <2>4, Passes
<1>4. CASE state = "SETUP_PCAP" /\ step = 2
  <2>1. Len(Program(state)) = 4 /\ Program(state)[3][1] = "recv"
    BY <1>1, <1>4, DoesIs, ProgramIs
  <2>2. state' = "SETUP_PCAP" /\ step' = 3 /\ pending' = Fragment /\ exit_code' = "NONE" /\ error' = "NONE"
    BY <1>1, <1>4, <2>1 DEF FinishStep
  <2>3. \A g \in Fragment : Polled(g)'
    BY <2>2 DEF Polled, Awaits
  <2>4. Due("SETUP_PCAP", 3) = Settled("SETUP_PCAP", 2)
    BY DueIs, SettledIs, Zenon
  <2>5. \A g \in Fragment : Where(g) \in Due(state', step')
    BY <1>2, <1>4, <2>2, <2>4
  <2> QED
    BY <1>1, <2>2, <2>3, <2>5, Passes
<1>5. CASE state = "SETUP_PCAP" /\ step = 3
  <2>1. Len(Program(state)) = 4 /\ Program(state)[4][1] = "send"
    BY <1>1, <1>5, DoesIs, ProgramIs
  <2>2. state' = "SETUP_PCAP" /\ step' = 4 /\ exit_code' = "NONE" /\ error' = "NONE"
    BY <1>1, <1>5, <2>1 DEF FinishStep
  <2>3. \A g \in Fragment : ~Polled(g)'
    BY <2>2, RoundsAre DEF Polled, Awaits
  <2>4. Settled("SETUP_PCAP", 4) = Settled("SETUP_PCAP", 3)
    BY SettledIs, Zenon
  <2>5. \A g \in Fragment : Where(g) \in Settled(state', step')
    BY <1>2, <1>5, <2>2, <2>4
  <2> QED
    BY <1>1, <2>2, <2>3, <2>5, Passes
<1>6. CASE state \in Plain /\ step = 2
  <2>1. Len(Program(state)) = 2
    BY <1>1, <1>6, DoesIs, RoundsAre
  <2>2. FinishState("NONE")
    BY <1>1, <1>6, <2>1 DEF FinishStep
  <2>3. state' = OnSuccess(state) /\ step' = 1 /\ op' = 0 /\ exit_code' = "NONE" /\ error' = "NONE"
    BY <1>1, <2>2 DEF FinishState, FirstError
  <2>4. \A g \in Fragment : ~Polled(g)'
    <3>1. 0 \notin Fragment
      BY DEF Fragment
    <3>2. ~Awaits' \/ state' = "SETUP_CTRL"
      BY <2>3 DEF Awaits
    <3>3. state' # "SETUP_CTRL"
      BY <1>6, <2>3, NextRoundIs DEF OnSuccess, Plain
    <3> QED
      BY <2>3, <3>1, <3>2, <3>3 DEF Polled
  <2>5. \A g \in Fragment : Where(g) = Rests(After(state))
    BY <1>2, <1>6, SettledIs
  <2>6. Rests(After(state)) \in Settled(OnSuccess(state), 1)
    <3>1. CASE state = "START_TESTCASE"
      <4>1. OnSuccess(state) = "RUN_TESTCASE" /\ After(state) = "RUN_TESTCASE"
        BY <3>1, NextRoundIs, AfterIs DEF OnSuccess
      <4> QED
        BY <4>1, SettledIs
    <3>2. CASE state = "SHUTDOWN"
      <4>1. OnSuccess(state) = "RESET" /\ After(state) = "DONE"
        BY <3>2, AfterIs DEF OnSuccess
      <4> QED
        BY <4>1, SettledIs
    <3>3. CASE state \notin {"START_TESTCASE", "SHUTDOWN"}
      <4>1. OnSuccess(state) = After(state) /\ After(state) \in Plain \ {"TOPOLOGY"}
            /\ Before(After(state)) = After(state)
        BY <1>6, <3>3, NextRoundIs, AfterIs DEF OnSuccess, Plain, Before
      <4> QED
        BY <4>1, SettledIs
    <3> QED
      BY <3>1, <3>2, <3>3
  <2> QED
    BY <1>1, <2>3, <2>4, <2>5, <2>6, Passes
<1> QED
  BY <1>1, <1>3, <1>4, <1>5, <1>6, DoesIs, RoundsAre DEF InRound

\* The test case's own requests.
LEMMA StartOpStays ==
  ASSUME IInv, Orderly, NEW f \in Fragment, StartOp(f)
  PROVE  Orderly'
<1>1. TypeOK /\ Steps /\ Channels /\ state = "RUN_TESTCASE" /\ op = 0 /\ error = "NONE" /\ exit_code = "NONE"
  BY DEF IInv, Orderly, StartOp
<1>2. UNCHANGED <<state, step, error, exit_code, fragVars, from>> /\ op' = f
  BY DEF StartOp
<1>3. ASSUME NEW g \in Fragment
      PROVE  At(g, "RUN_TESTCASE", "await", "none", "none", "none", "none")
  <2>1. ~Polled(g)
    BY <1>1 DEF Polled, Fragment
  <2>2. Where(g) = Rests("RUN_TESTCASE")
    BY <1>1, <2>1, SettledIs DEF Orderly, InPlace
  <2> QED
    BY <2>2 DEF Where, At, Rests
<1>4. ~Gone(f)
  BY <1>3 DEF Orderly, Well, Gone, At
<1> DEFINE x == Request("OP", request + 1)
<1>5. x \in RequestType /\ x.type = "OP"
  BY SomeTypes DEF Request, RequestType, IInv, TypeOK
<1>6. to' = [to EXCEPT !["ctrl"][f] = Append(@, x)]
  BY <1>4 DEF StartOp
<1> HIDE DEF x
<1>7. /\ to'["ctrl"][f] = Append(to["ctrl"][f], x)
      /\ \A q \in Plane, g \in Fragment : q # "ctrl" \/ g # f => to'[q][g] = to[q][g]
  <2>1. to \in [Plane -> [Fragment -> Seq(RequestType)]]
    BY <1>1 DEF Channels
  <2> QED
    BY <1>6, <2>1, Planes
<1>8. Kind(to'["ctrl"][f]) = "OP" /\ Kind(to'["pcap"][f]) = "none"
  <2>1. to["ctrl"][f] \in Seq(RequestType) /\ Kind(to["ctrl"][f]) = "none" /\ Kind(to["pcap"][f]) = "none"
    BY <1>1, <1>3, HeadType, Planes DEF At
  <2>2. Kind(Append(to["ctrl"][f], x)) = "OP"
    BY <1>5, <2>1, KindAppend, MessageTypes
  <2> QED
    BY <1>7, <2>1, <2>2, Planes
<1>9. InPlace(f)'
  <2>1. Polled(f)' /\ state' = "RUN_TESTCASE" /\ step' = 1
    BY <1>1, <1>2, Positions, RoundsAre DEF Polled
  <2>2. Where(f)' = <<"RUN_TESTCASE", "await", "OP", "none", "none", "none">>
    BY <1>2, <1>3, <1>8 DEF Where, At, fragVars
  <2> QED
    BY <2>1, <2>2, DueIs DEF InPlace
<1>10. ASSUME NEW g \in Fragment, g # f PROVE InPlace(g)'
  <2>1. ~Polled(g)' /\ state' = "RUN_TESTCASE"
    BY <1>1, <1>2, <1>10 DEF Polled
  <2>2. Where(g)' = Rests("RUN_TESTCASE")
    BY <1>2, <1>3, <1>7, <1>10, Planes DEF Where, At, fragVars, Rests
  <2> QED
    BY <2>1, <2>2, SettledIs DEF InPlace
<1>11. ASSUME NEW g \in Fragment PROVE Well(g)'
  BY <1>2, Waits DEF Orderly, Told
<1> QED
  BY <1>1, <1>2, <1>9, <1>10, <1>11 DEF Orderly

\* Where the fragment is whose answer the test case awaits.
LEMMA OpIs ==
  ASSUME IInv, Orderly, state = "RUN_TESTCASE", op # 0
  PROVE  /\ op \in Fragment /\ step = 1
         /\ \/ At(op, "RUN_TESTCASE", "await", "OP", "none", "none", "none")
            \/ At(op, "RUN_TESTCASE", "await", "none", "none", "OP", "none")
<1>1. TypeOK /\ Steps
  BY DEF IInv
<1>2. op \in Fragment
  BY <1>1, ConstantAssumption DEF TypeOK, Fragment
<1>3. step = 1
  BY <1>1, Positions, RoundsAre
<1>4. Where(op) \in Due("RUN_TESTCASE", 1)
  BY <1>2, <1>3 DEF Orderly, InPlace, Polled
<1> QED
  BY <1>2, <1>3, <1>4, DueIs DEF Where, At

LEMMA EndOpStays ==
  ASSUME IInv, Orderly, EndOp
  PROVE  Orderly'
<1>1. TypeOK /\ Steps /\ Channels /\ state = "RUN_TESTCASE" /\ op # 0 /\ error = "NONE" /\ exit_code = "NONE"
      /\ from["ctrl"][op] # <<>>
  BY DEF IInv, Orderly, EndOp
<1>2. op \in Fragment /\ step = 1
  BY <1>1, OpIs
<1>3. At(op, "RUN_TESTCASE", "await", "none", "none", "OP", "none")
  <2>1. Kind(from["ctrl"][op]) # "none"
    BY <1>1, <1>2, KindFrom, Planes
  <2> QED
    BY <1>1, <2>1, OpIs DEF At
<1>4. Head(from["ctrl"][op]).type = "OP" /\ Kind(Tail(from["ctrl"][op])) = "none"
  <2>1. Kind(from["ctrl"][op]) = "OP" /\ "OP" \in Types
    BY <1>3, SomeTypes DEF At
  <2> QED
    BY <1>1, <1>2, <2>1, KindFrom, Planes
<1>5. Head(from["ctrl"][op]).err = "NONE"
  <2>1. Head(from["ctrl"][op]) \in Told("ctrl", op)
    BY <1>1, <1>2, HeadType, Planes
  <2> QED
    BY <1>2, <2>1, Planes DEF Orderly, Well
<1>6. /\ op' = 0 /\ UNCHANGED <<state, step, error, exit_code, fragVars, to>>
      /\ from' = [from EXCEPT !["ctrl"][op] = Tail(@)]
  BY <1>4, <1>5 DEF EndOp, Check
<1>7. /\ from'["ctrl"][op] = Tail(from["ctrl"][op])
      /\ \A q \in Plane, g \in Fragment : q # "ctrl" \/ g # op => from'[q][g] = from[q][g]
  <2>1. from \in [Plane -> [Fragment -> Seq(ResponseType)]]
    BY <1>1 DEF Channels
  <2> QED
    BY <1>2, <1>6, <2>1, Planes
<1>8. ASSUME NEW g \in Fragment PROVE Well(g)'
  <2>1. ASSUME NEW q \in Plane, NEW m \in Told(q, g)' PROVE m \in Told(q, g)
    <3>1. CASE q = "ctrl" /\ g = op
      <4>1. In(Tail(from["ctrl"][op])) \subseteq Told("ctrl", op)
        BY <1>1, <1>2, HeadType, Planes
      <4> QED
        BY <1>7, <2>1, <3>1, <4>1 DEF Told
    <3>2. CASE q # "ctrl" \/ g # op
      BY <1>7, <2>1, <3>2 DEF Told
    <3> QED
      BY <3>1, <3>2
  <2> QED
    BY <1>6, <2>1, Waits DEF Orderly
<1>9. ASSUME NEW g \in Fragment PROVE InPlace(g)'
  <2>1. ~Polled(g)' /\ state' = "RUN_TESTCASE"
    BY <1>1, <1>6 DEF Polled, Fragment
  <2>2. Where(g)' = Rests("RUN_TESTCASE")
    <3>1. CASE g = op
      <4>1. Kind(from'["ctrl"][g]) = "none" /\ Kind(from'["pcap"][g]) = "none"
        BY <1>3, <1>4, <1>7, <3>1, Planes DEF At
      <4> QED
        BY <1>3, <1>6, <3>1, <4>1 DEF Where, At, fragVars, Rests
    <3>2. CASE g # op
      <4>1. Where(g) = Rests("RUN_TESTCASE")
        BY <1>1, <3>2, SettledIs DEF Orderly, InPlace, Polled
      <4>2. Where(g)' = Where(g)
        BY <1>6, <1>7, <3>2, Planes DEF Where, fragVars
      <4> QED
        BY <4>1, <4>2
    <3> QED
      BY <3>1, <3>2
  <2> QED
    BY <2>1, <2>2, SettledIs DEF InPlace
<1> QED
  BY <1>1, <1>6, <1>8, <1>9 DEF Orderly

LEMMA NoOpFails ==
  ASSUME IInv, Orderly, ~late'
  PROVE  ~OpFails
<1> SUFFICES ASSUME OpFails PROVE FALSE
  OBVIOUS
<1>1. state = "RUN_TESTCASE" /\ op # 0 /\ Channels
  BY DEF OpFails, IInv
<1>2. op \in Fragment
  BY <1>1, OpIs
<1>3. ~Silent(op, "ctrl")
  <2>1. fstate[op] = "RUN_TESTCASE" /\ fstep[op] = "await"
        /\ (Kind(to["ctrl"][op]) # "none" \/ Kind(from["ctrl"][op]) # "none")
    BY <1>1, OpIs DEF At
  <2>2. to["ctrl"][op] # <<>> \/ from["ctrl"][op] # <<>>
    BY <1>1, <1>2, <2>1, KindTo, KindFrom, Planes
  <2>3. life[op] = "running"
    BY <1>2, <2>1 DEF Orderly, Well
  <2> QED
    BY <2>1, <2>2, <2>3 DEF Silent, Able, Running
<1> QED
  BY <1>3 DEF OpFails, Premature

\* The end of the test case, and of the run.
LEMMA LastStays ==
  ASSUME IInv, Orderly, EndRun \/ ForcefulShutdown \/ Reset
  PROVE  Orderly'
<1>1. TypeOK /\ Steps /\ exit_code = "NONE" /\ error = "NONE" /\ 1 \in Fragment /\ 0 \notin Fragment
  BY ConstantAssumption DEF IInv, Orderly, Fragment
<1>2. CASE EndRun
  <2>1. state = "RUN_TESTCASE" /\ op = 0 /\ FinishState("NONE") /\ UNCHANGED <<fragVars, to, from>>
    BY <1>2 DEF EndRun
  <2>2. state' = "END_TESTCASE" /\ step' = 1 /\ exit_code' = "NONE" /\ error' = "NONE"
    BY <1>1, <2>1 DEF FinishState, FirstError, OnSuccess
  <2>3. \A g \in Fragment : ~Polled(g)'
    BY <2>2 DEF Polled, Awaits
  <2>4. ASSUME NEW g \in Fragment PROVE Where(g) \in Settled(state', step')
    <3>1. ~Polled(g)
      BY <1>1, <2>1 DEF Polled
    <3>2. Where(g) = Rests("RUN_TESTCASE")
      BY <2>1, <3>1, SettledIs DEF Orderly, InPlace
    <3>3. "END_TESTCASE" \in Plain \ {"TOPOLOGY"} /\ Before("END_TESTCASE") = "RUN_TESTCASE"
      BY DEF Plain, Before
    <3> QED
      BY <2>2, <3>2, <3>3, SettledIs
  <2> QED
    BY <2>1, <2>2, <2>3, <2>4, Passes
<1>3. CASE ForcefulShutdown
  <2>1. state = "FORCEFUL_SHUTDOWN"
    BY <1>3 DEF ForcefulShutdown
  <2>2. ~Polled(1)
    BY <2>1, RoundsAre DEF Polled, Awaits
  <2>3. Where(1) \in Settled(state, step)
    BY <1>1, <2>2 DEF Orderly, InPlace
  <2> QED
    BY <2>1, <2>3, SettledIs
<1>4. CASE Reset
  <2>1. state = "RESET" /\ state' = "DONE" /\ UNCHANGED <<fragVars, to, from, exit_code, error>>
    BY <1>4 DEF Reset
  <2>2. \A g \in Fragment : ~Polled(g) /\ ~Polled(g)'
    BY <2>1, RoundsAre DEF Polled, Awaits
  <2>3. ASSUME NEW g \in Fragment PROVE Where(g) \in Settled(state', step')
    <3>1. Where(g) = Rests("DONE")
      BY <2>1, <2>2, SettledIs DEF Orderly, InPlace
    <3> QED
      BY <2>1, <3>1, SettledIs
  <2> QED
    BY <1>1, <2>1, <2>2, <2>3, Passes
<1> QED
  BY <1>2, <1>3, <1>4

-----------------------------------------------------------------------------
(* Theorems *)

LEMMA InitOrderly == Init => Orderly
<1> SUFFICES ASSUME Init PROVE Orderly
  OBVIOUS
<1>1. /\ state = "SETUP_CTRL" /\ step = 1 /\ pending = Fragment /\ error = "NONE" /\ exit_code = "NONE"
  BY DEF Init
<1>2. ASSUME NEW f \in Fragment
      PROVE  /\ fstate[f] = "SETUP_CTRL" /\ fstep[f] = "connect" /\ life[f] = "running"
             /\ \A p \in Plane : to[p][f] = <<>> /\ from[p][f] = <<>>
  BY DEF Init
<1>3. ASSUME NEW f \in Fragment PROVE InPlace(f) /\ Well(f)
  <2>1. Where(f) = <<"SETUP_CTRL", "connect", "none", "none", "none", "none">>
    BY <1>2, Planes DEF Where, Kind
  <2>2. Polled(f)
    BY <1>1 DEF Polled, Awaits
  <2>3. InPlace(f)
    BY <1>1, <2>1, <2>2, DueIs DEF InPlace
  <2>4. \A p \in Plane : Told(p, f) = {}
    BY <1>2, InEmpty DEF Told
  <2>5. Well(f)
    BY <1>2, <2>4 DEF Well
  <2> QED
    BY <2>3, <2>5
<1> QED
  BY <1>1, <1>3 DEF Orderly

LEMMA OrderStays ==
  ASSUME IInv, [Next]_vars, Barrier
  PROVE  Barrier'
<1> SUFFICES ASSUME Calm' PROVE Orderly'
  BY DEF Barrier
<1>1. Calm /\ Orderly /\ ~late' /\ TypeOK
  BY CalmBefore DEF Barrier, Calm, IInv
<1>2. ASSUME NEW k \in Fragment, NEW broken \in BOOLEAN, SendRound(k, broken) PROVE Orderly'
  BY <1>1, <1>2, SendRoundStays
<1>3. ASSUME NEW f \in Fragment, ReceiveResponse(f) \/ ReceiveEnd(f) \/ StartOp(f) PROVE Orderly'
  BY <1>1, <1>3, ReceiveResponseStays, NoLostAnswer, StartOpStays
<1>4. ASSUME EndReceive \/ ReceiveTimeout PROVE Orderly'
  BY <1>1, <1>4, EndReceiveStays, NoLostAnswer
<1>5. ASSUME EndOp \/ OpFails PROVE Orderly'
  BY <1>1, <1>5, EndOpStays, NoOpFails
<1>6. ASSUME EndRun \/ ForcefulShutdown \/ Reset PROVE Orderly'
  BY <1>1, <1>6, LastStays
<1>7. ASSUME NEW f \in Fragment, FragmentStep(f) \/ FaultStep(f) PROVE Orderly'
  BY <1>1, <1>7, FragmentStays
<1>8. ASSUME NEW k \in Fragment, ForkFails(k) PROVE Orderly'
  BY <1>1, <1>8, NoFault DEF ForkFails
<1>9. ASSUME UNCHANGED vars PROVE Orderly'
  <2>1. UNCHANGED <<state, step, pending, op, exit_code, error, fragVars, to, from>>
    BY <1>9 DEF vars, orchVars
  <2>2. \A g \in Fragment : Polled(g)' <=> Polled(g)
    BY <2>1 DEF Polled, Awaits
  <2>3. exit_code' = "NONE" /\ error' = "NONE"
    BY <1>1, <2>1 DEF Orderly
  <2>4. \A g \in Fragment : /\ Polled(g)' => Where(g) \in Due(state', step')
                            /\ ~Polled(g)' => Where(g) \in Settled(state', step')
    BY <1>1, <2>1, <2>2 DEF Orderly, InPlace
  <2> QED
    BY <1>1, <2>1, <2>3, <2>4, Passes
<1> QED
  BY <1>2, <1>3, <1>4, <1>5, <1>6, <1>7, <1>8, <1>9 DEF Next, OrchestratorStep, Finished

\* In a run in which nothing went wrong, the rounds of the orchestrator are barriers:
\* whatever it is at, every fragment is at one of the few places listed for that, with
\* the messages listed and no other on their way, and its process and threads run.
THEOREM RoundsAreBarriers == Spec => []Barrier
<1>1. Init => Barrier
  BY InitOrderly DEF Barrier
<1>2. IInv /\ [Next]_vars /\ Barrier => Barrier'
  BY OrderStays
<1> QED
  BY <1>1, <1>2, Invariance, PTL DEF Spec

\* As long as nothing has gone wrong and no timeout was too short, no round of run() has
\* failed: no request comes at a fragment that does not expect it, nobody finds a
\* neighbour gone, and whoever waits is waited for by one that will act.
THEOREM ErrorsAreReal == Spec => []NoSpuriousError
<1>1. Barrier => NoSpuriousError
  BY DEF Barrier, Calm, Orderly, NoSpuriousError
<1> QED
  BY <1>1, RoundsAreBarriers, PTL

=============================================================================
