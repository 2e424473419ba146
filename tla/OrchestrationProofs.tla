------------------------- MODULE OrchestrationProofs -------------------------
(***************************************************************************)
(* Theorems about a test run, for every number of fragments, every graph   *)
(* of links between them and every number of requests and faults.          *)
(***************************************************************************)
EXTENDS Orchestration, SequenceTheorems, TLAPS

-----------------------------------------------------------------------------
(* The inductive invariant *)

Types == Round \cup {"OP"}
RequestType == [type : Types, number : Nat]
ResponseType == [type : Types, err : Error, number : Nat]

Channels ==
  /\ to \in [Plane -> [Fragment -> Seq(RequestType)]]
  /\ from \in [Plane -> [Fragment -> Seq(ResponseType)]]

\* The orchestrator's steps are those of its state.
Steps ==
  /\ InRound => step \in 1 .. Len(Program(state))
  /\ ~InRound => step = 1

\* The messages of a queue.
In(q) == {q[i] : i \in DOMAIN q}
Asked(p, f) == In(to[p][f])
Told(p, f) == In(from[p][f])

\* The order of the states.  The test case's own requests belong to RUN_TESTCASE.
Rank(t) ==
  CASE t = "SETUP_CTRL" -> 1
    [] t = "SETUP_PCAP" -> 2
    [] t = "TOPOLOGY" -> 3
    [] t = "START_MIXNET_SERVER" -> 4
    [] t = "START_MIXNET_CLIENTS" -> 5
    [] t = "RESOLVE_MIXNET_CONNS" -> 6
    [] t = "START_TESTCASE" -> 7
    [] t \in {"RUN_TESTCASE", "OP"} -> 8
    [] t = "END_TESTCASE" -> 9
    [] t = "SHUTDOWN" -> 10
    [] t = "FORCEFUL_SHUTDOWN" -> 11
    [] t = "RESET" -> 12
    [] t = "DONE" -> 13

\* The request a fragment has answered in part stays at the head of its queue.
Holding ==
  \A f \in Fragment :
    /\ fstate[f] = "SETUP_PCAP" /\ fstep[f] = "connect" =>
         to["ctrl"][f] # <<>> /\ Head(to["ctrl"][f]).type = "SETUP_PCAP"
    /\ fstep[f] = "accept" =>
         /\ fstate[f] = "START_MIXNET_CLIENTS"
         /\ to["ctrl"][f] # <<>> /\ Head(to["ctrl"][f]).type = "START_MIXNET_CLIENTS"

\* No message is of a round to come, and those of this round are the last request
\* and the answers to it.
Numbers ==
  \A p \in Plane, f \in Fragment : \A m \in Asked(p, f) \cup Told(p, f) :
    /\ Rank(m.type) <= Rank(state)
    /\ m.type = state /\ state # "SETUP_CTRL" =>
         step > 1 /\ (Does("recv") => m.number = request)

\* A queue with at most one request, or answer, of the test case itself.
NoOp(q) == \A m \in In(q) : m.type # "OP"
OneOp(q) == \A i, j \in DOMAIN q : q[i].type = "OP" /\ q[j].type = "OP" => i = j

Ops ==
  /\ op # 0 => state = "RUN_TESTCASE"
  /\ state = "RUN_TESTCASE" => \A f \in Fragment :
       /\ op # f => NoOp(to["ctrl"][f]) /\ NoOp(from["ctrl"][f])
       /\ OneOp(to["ctrl"][f]) /\ OneOp(from["ctrl"][f])
       /\ NoOp(to["ctrl"][f]) \/ NoOp(from["ctrl"][f])
       /\ \A m \in Asked("ctrl", f) \cup Told("ctrl", f) : m.type = "OP" => m.number = request

\* From START_MIXNET_CLIENTS on, all links are up.
Connected ==
  /\ \A f \in Fragment : fstep[f] = "accept" => connected[f]
  /\ \A f \in Fragment : \A m \in Told("ctrl", f) : m.type = "START_MIXNET_CLIENTS" => connected[f]
  /\ state = "START_MIXNET_CLIENTS" /\ step = 2 /\ error = "NONE" =>
       \A f \in Fragment \ pending : connected[f]
  /\ state \in {"RESOLVE_MIXNET_CONNS", "START_TESTCASE", "RUN_TESTCASE", "END_TESTCASE"} =>
       \A f \in Fragment : connected[f]
  /\ \A f \in Fragment : \A m \in Asked("ctrl", f) : m.type = "START_TESTCASE" =>
       \A g \in Fragment : connected[g]

\* The end of the test case: whose threads have ended, and who has exited.
Ended(f) == fstate[f] \in {"SHUTDOWN", "DONE"}
Over == {"SHUTDOWN", "FORCEFUL_SHUTDOWN", "RESET", "DONE"}

Ending ==
  /\ \A f \in Fragment : fstate[f] = "RUN_TESTCASE" => thread[f] # "none"
  /\ \A f \in Fragment : Ended(f) => thread[f] \in {"joined", "exited"}
  /\ \A f \in Fragment : \A m \in Told("ctrl", f) :
       /\ m.type = "END_TESTCASE" => Ended(f)
       /\ m.type = "SHUTDOWN" => fstate[f] = "DONE"
  /\ \A f \in Fragment : fstate[f] = "DONE" => Gone(f) /\ state \in Over
  /\ state = "END_TESTCASE" /\ step = 2 /\ error = "NONE" =>
       \A f \in Fragment \ pending : Ended(f)
  /\ state \in Over /\ exit_code = "NONE" => \A f \in Fragment : Ended(f)
  /\ state = "SHUTDOWN" /\ step = 2 /\ error = "NONE" =>
       \A f \in Fragment \ pending : fstate[f] = "DONE"
  /\ state = "FORCEFUL_SHUTDOWN" => exit_code # "NONE"
  /\ state \in {"RESET", "DONE"} /\ exit_code = "NONE" => \A f \in Fragment : fstate[f] = "DONE"

\* Processes the orchestrator will not kill have ended.
Killing ==
  /\ \A f \in Fragment : life[f] = "spinning" => autotest
  /\ autotest => \A f \in Fragment \ pids : Gone(f)
  /\ autotest /\ state = "SHUTDOWN" /\ step = 2 /\ error = "NONE" => pids \subseteq pending
  /\ autotest /\ state \in {"RESET", "DONE"} => \A f \in Fragment : Gone(f)

IInv ==
  /\ TypeOK /\ Channels /\ Steps /\ Holding /\ Numbers /\ Ops /\ Connected
  /\ NetworkBeforeNodes /\ Ending /\ Killing

-----------------------------------------------------------------------------
(* The operators of the model *)

LEMMA RoundIs ==
  Round = {"SETUP_CTRL", "SETUP_PCAP", "TOPOLOGY", "START_MIXNET_SERVER", "START_MIXNET_CLIENTS",
           "RESOLVE_MIXNET_CONNS", "START_TESTCASE", "END_TESTCASE", "SHUTDOWN"}
<1>1. DOMAIN Setup = 1 .. 7
  BY DEF Setup
<1>2. {Setup[i] : i \in DOMAIN Setup} =
        {Setup[1], Setup[2], Setup[3], Setup[4], Setup[5], Setup[6], Setup[7]}
  BY <1>1
<1> QED
  BY <1>2 DEF Round, Setup

LEMMA NextRoundIs ==
  /\ NextRound("SETUP_CTRL") = "SETUP_PCAP"
  /\ NextRound("SETUP_PCAP") = "TOPOLOGY"
  /\ NextRound("TOPOLOGY") = "START_MIXNET_SERVER"
  /\ NextRound("START_MIXNET_SERVER") = "START_MIXNET_CLIENTS"
  /\ NextRound("START_MIXNET_CLIENTS") = "RESOLVE_MIXNET_CONNS"
  /\ NextRound("RESOLVE_MIXNET_CONNS") = "START_TESTCASE"
  /\ NextRound("START_TESTCASE") = "RUN_TESTCASE"
<1>1. DOMAIN Setup = 1 .. 7 /\ Len(Setup) = 7
  BY DEF Setup
<1>2. /\ Setup[1] = "SETUP_CTRL" /\ Setup[2] = "SETUP_PCAP" /\ Setup[3] = "TOPOLOGY"
      /\ Setup[4] = "START_MIXNET_SERVER" /\ Setup[5] = "START_MIXNET_CLIENTS"
      /\ Setup[6] = "RESOLVE_MIXNET_CONNS" /\ Setup[7] = "START_TESTCASE"
  BY DEF Setup
<1>3. ASSUME NEW i \in 1 .. 7, NEW r, Setup[i] = r, \A j \in 1 .. 7 : Setup[j] = r => j = i
      PROVE  NextRound(r) = IF i = 7 THEN "RUN_TESTCASE" ELSE Setup[i + 1]
  BY <1>1, <1>3 DEF NextRound
<1>4. \A i, j \in 1 .. 7 : Setup[i] = Setup[j] => i = j
  BY <1>2
<1>5. \A i \in 1 .. 7 : NextRound(Setup[i]) = IF i = 7 THEN "RUN_TESTCASE" ELSE Setup[i + 1]
  BY <1>3, <1>4
<1>6. /\ NextRound(Setup[1]) = Setup[2] /\ NextRound(Setup[2]) = Setup[3]
      /\ NextRound(Setup[3]) = Setup[4] /\ NextRound(Setup[4]) = Setup[5]
      /\ NextRound(Setup[5]) = Setup[6] /\ NextRound(Setup[6]) = Setup[7]
      /\ NextRound(Setup[7]) = "RUN_TESTCASE"
  BY <1>5
<1> QED
  BY <1>2, <1>6

LEMMA RankIs ==
  /\ Rank("SETUP_CTRL") = 1 /\ Rank("SETUP_PCAP") = 2 /\ Rank("TOPOLOGY") = 3
  /\ Rank("START_MIXNET_SERVER") = 4 /\ Rank("START_MIXNET_CLIENTS") = 5
  /\ Rank("RESOLVE_MIXNET_CONNS") = 6 /\ Rank("START_TESTCASE") = 7
  /\ Rank("RUN_TESTCASE") = 8 /\ Rank("OP") = 8
  /\ Rank("END_TESTCASE") = 9 /\ Rank("SHUTDOWN") = 10 /\ Rank("FORCEFUL_SHUTDOWN") = 11
  /\ Rank("RESET") = 12 /\ Rank("DONE") = 13
  BY DEF Rank

LEMMA RankIsNat ==
  \A t \in Types \cup {"RUN_TESTCASE", "FORCEFUL_SHUTDOWN", "RESET", "DONE"} : Rank(t) \in Nat
  BY RankIs, RoundIs DEF Types

\* The sends and receives of every round.
LEMMA ProgramIs ==
  /\ Program("SETUP_CTRL") = <<<<"recv", "ctrl">>, <<"send", "ctrl">>>>
  /\ Program("SETUP_PCAP") = <<<<"send", "ctrl">>, <<"recv", "ctrl">>, <<"recv", "pcap">>,
                               <<"send", "pcap">>>>
  /\ \A s \in Round \ {"SETUP_CTRL", "SETUP_PCAP"} :
       Program(s) = <<<<"send", "ctrl">>, <<"recv", "ctrl">>>>
<1>1. /\ Program("SETUP_CTRL") = <<<<"recv", "ctrl">>, <<"send", "ctrl">>>>
      /\ Program("SETUP_PCAP") = <<<<"send", "ctrl">>, <<"recv", "ctrl">>, <<"recv", "pcap">>,
                               <<"send", "pcap">>>>
  BY DEF Program
<1>2. ASSUME NEW s \in Round \ {"SETUP_CTRL", "SETUP_PCAP"}
      PROVE  Program(s) = <<<<"send", "ctrl">>, <<"recv", "ctrl">>>>
  BY <1>2 DEF Program
<1> QED
  BY <1>1, <1>2

LEMMA FirstErrorIs ==
  ASSUME NEW e1 \in Error, NEW e2 \in Error
  PROVE  /\ FirstError(e1, e2) \in Error
         /\ FirstError(e1, e2) = "NONE" <=> e1 = "NONE" /\ e2 = "NONE"
  BY DEF FirstError

-----------------------------------------------------------------------------
(* Queues *)

LEMMA InAppend ==
  ASSUME NEW S, NEW q \in Seq(S), NEW x \in S
  PROVE  In(Append(q, x)) = In(q) \cup {x}
<1>1. /\ Len(q) \in Nat /\ DOMAIN q = 1 .. Len(q)
      /\ DOMAIN Append(q, x) = 1 .. Len(q) + 1
      /\ \A i \in 1 .. Len(q) : Append(q, x)[i] = q[i]
      /\ Append(q, x)[Len(q) + 1] = x
  BY AppendProperties, LenProperties
<1>2. 1 .. Len(q) + 1 = 1 .. Len(q) \cup {Len(q) + 1}
  BY <1>1
<1>3. ASSUME NEW m PROVE m \in In(Append(q, x)) <=> m \in In(q) \cup {x}
  BY <1>1, <1>2 DEF In
<1> QED
  BY <1>3

LEMMA InTail ==
  ASSUME NEW S, NEW q \in Seq(S), q # <<>>
  PROVE  In(Tail(q)) \subseteq In(q) /\ Head(q) \in In(q)
<1>1. /\ Len(q) \in Nat /\ Len(q) > 0 /\ DOMAIN q = 1 .. Len(q) /\ Head(q) = q[1]
      /\ DOMAIN Tail(q) = 1 .. Len(q) - 1
      /\ \A i \in 1 .. Len(q) - 1 : Tail(q)[i] = q[i + 1]
  BY HeadTailProperties, LenProperties, EmptySeq
<1>2. \A i \in 1 .. Len(q) - 1 : i + 1 \in 1 .. Len(q)
  BY <1>1
<1> QED
  BY <1>1, <1>2 DEF In

LEMMA InEmpty == In(<<>>) = {}
  BY DEF In

LEMMA InType ==
  ASSUME NEW S, NEW q \in Seq(S)
  PROVE  In(q) \subseteq S
  BY DEF In

LEMMA NoOpOne ==
  ASSUME NEW q, NoOp(q)
  PROVE  OneOp(q)
  BY DEF NoOp, OneOp, In

LEMMA OneOpTail ==
  ASSUME NEW S, NEW q \in Seq(S), q # <<>>, OneOp(q)
  PROVE  OneOp(Tail(q)) /\ (Head(q).type = "OP" => NoOp(Tail(q)))
<1>1. /\ Len(q) \in Nat /\ Len(q) > 0 /\ DOMAIN q = 1 .. Len(q) /\ Head(q) = q[1]
      /\ DOMAIN Tail(q) = 1 .. Len(q) - 1
      /\ \A i \in 1 .. Len(q) - 1 : Tail(q)[i] = q[i + 1]
  BY HeadTailProperties, LenProperties, EmptySeq
<1>2. \A i \in 1 .. Len(q) - 1 : i + 1 \in 1 .. Len(q) /\ i + 1 # 1
  BY <1>1
<1>3. OneOp(Tail(q))
  BY <1>1, <1>2 DEF OneOp
<1>4. Head(q).type = "OP" => NoOp(Tail(q))
  BY <1>1, <1>2 DEF OneOp, NoOp, In
<1> QED
  BY <1>3, <1>4

LEMMA OneOpAppend ==
  ASSUME NEW S, NEW q \in Seq(S), NEW x \in S, OneOp(q), x.type = "OP" => NoOp(q)
  PROVE  OneOp(Append(q, x))
<1>1. /\ Len(q) \in Nat /\ DOMAIN q = 1 .. Len(q)
      /\ DOMAIN Append(q, x) = 1 .. Len(q) + 1
      /\ \A i \in 1 .. Len(q) : Append(q, x)[i] = q[i]
      /\ Append(q, x)[Len(q) + 1] = x
  BY AppendProperties, LenProperties
<1>2. SUFFICES ASSUME NEW i \in 1 .. Len(q) + 1, NEW j \in 1 .. Len(q) + 1,
                      Append(q, x)[i].type = "OP", Append(q, x)[j].type = "OP"
               PROVE  i = j
  BY <1>1 DEF OneOp
<1>3. CASE x.type = "OP"
  <2>1. \A n \in 1 .. Len(q) : q[n].type # "OP"
    BY <1>1, <1>3 DEF NoOp, In
  <2> QED
    BY <1>1, <1>2, <2>1
<1>4. CASE x.type # "OP"
  BY <1>1, <1>2, <1>4 DEF OneOp
<1> QED
  BY <1>3, <1>4

LEMMA HeadAppend ==
  ASSUME NEW S, NEW q \in Seq(S), NEW x \in S, q # <<>>
  PROVE  Append(q, x) # <<>> /\ Head(Append(q, x)) = Head(q)
<1>1. Append(q, x) \in Seq(S) /\ Append(q, x) # <<>> /\ Len(q) \in Nat /\ Len(q) > 0
  BY AppendProperties, EmptySeq, LenProperties
<1>2. Append(q, x)[1] = q[1] /\ Head(q) = q[1] /\ Head(Append(q, x)) = Append(q, x)[1]
  BY <1>1, AppendProperties, HeadTailProperties
<1> QED
  BY <1>1, <1>2

-----------------------------------------------------------------------------
(* What a step of a fragment may do *)

LEMMA HeadType ==
  ASSUME Channels, NEW p \in Plane, NEW f \in Fragment
  PROVE  /\ to[p][f] \in Seq(RequestType) /\ from[p][f] \in Seq(ResponseType)
         /\ Asked(p, f) \subseteq RequestType /\ Told(p, f) \subseteq ResponseType
         /\ to[p][f] # <<>> => /\ Head(to[p][f]) \in RequestType /\ Head(to[p][f]) \in Asked(p, f)
                               /\ Tail(to[p][f]) \in Seq(RequestType)
                               /\ In(Tail(to[p][f])) \subseteq Asked(p, f)
         /\ from[p][f] # <<>> => /\ Head(from[p][f]) \in ResponseType /\ Head(from[p][f]) \in Told(p, f)
                                 /\ Tail(from[p][f]) \in Seq(ResponseType)
                                 /\ In(Tail(from[p][f])) \subseteq Told(p, f)
<1>1. to[p][f] \in Seq(RequestType) /\ from[p][f] \in Seq(ResponseType)
  BY DEF Channels
<1>2. Asked(p, f) \subseteq RequestType /\ Told(p, f) \subseteq ResponseType
  BY <1>1, InType DEF Asked, Told
<1>3. to[p][f] # <<>> => /\ Head(to[p][f]) \in RequestType /\ Head(to[p][f]) \in Asked(p, f)
                         /\ Tail(to[p][f]) \in Seq(RequestType)
                         /\ In(Tail(to[p][f])) \subseteq Asked(p, f)
  BY <1>1, InTail, HeadTailProperties DEF Asked
<1>4. from[p][f] # <<>> => /\ Head(from[p][f]) \in ResponseType /\ Head(from[p][f]) \in Told(p, f)
                           /\ Tail(from[p][f]) \in Seq(ResponseType)
                           /\ In(Tail(from[p][f])) \subseteq Told(p, f)
  BY <1>1, InTail, HeadTailProperties DEF Told
<1> QED
  BY <1>1, <1>2, <1>3, <1>4

ToType == to \in [Plane -> [Fragment -> Seq(RequestType)]]
FromType == from \in [Plane -> [Fragment -> Seq(ResponseType)]]

LEMMA TakeIs ==
  ASSUME Channels, NEW p \in Plane, NEW f \in Fragment, to[p][f] # <<>>, Take(f, p)
  PROVE  /\ ToType'
         /\ to'[p][f] = Tail(to[p][f])
         /\ \A q \in Plane, g \in Fragment : q # p \/ g # f => to'[q][g] = to[q][g]
<1>1. Tail(to[p][f]) \in Seq(RequestType)
  BY HeadType
<1> DEFINE t == Tail(to[p][f])
<1>2. to' = [to EXCEPT ![p][f] = t]
  BY DEF Take
<1> HIDE DEF t
<1>3. to \in [Plane -> [Fragment -> Seq(RequestType)]] /\ t \in Seq(RequestType)
  BY <1>1 DEF Channels, t
<1>4. ToType'
  BY <1>2, <1>3 DEF ToType
<1>5. to'[p][f] = t /\ \A q \in Plane, g \in Fragment : q # p \/ g # f => to'[q][g] = to[q][g]
  BY <1>2, <1>3
<1> QED
  BY <1>4, <1>5 DEF t

LEMMA RespondIs ==
  ASSUME Channels, NEW p \in Plane, NEW f \in Fragment, NEW type \in Types, NEW err \in Error,
         NEW n \in Nat, Respond(f, p, type, err, n)
  PROVE  /\ FromType'
         /\ Response(type, err, n) \in ResponseType
         /\ from'[p][f] = Append(from[p][f], Response(type, err, n))
         /\ \A q \in Plane, g \in Fragment : q # p \/ g # f => from'[q][g] = from[q][g]
<1> DEFINE t == Append(from[p][f], Response(type, err, n))
<1>1. Response(type, err, n) \in ResponseType
  BY DEF Response, ResponseType
<1>2. from' = [from EXCEPT ![p][f] = t]
  BY DEF Respond
<1>3. from \in [Plane -> [Fragment -> Seq(ResponseType)]] /\ t \in Seq(ResponseType)
  BY <1>1, AppendProperties, HeadType DEF Channels
<1> HIDE DEF t
<1>4. FromType'
  BY <1>2, <1>3 DEF FromType
<1>5. from'[p][f] = t /\ \A q \in Plane, g \in Fragment : q # p \/ g # f => from'[q][g] = from[q][g]
  BY <1>2, <1>3
<1> QED
  BY <1>1, <1>4, <1>5 DEF t

\* Only f and its own queues change.
OthersAsBefore(f) ==
  /\ UNCHANGED <<orchVars, autotest>>
  /\ \A g \in Fragment \ {f} :
       /\ fstate'[g] = fstate[g] /\ fstep'[g] = fstep[g] /\ life'[g] = life[g]
       /\ thread'[g] = thread[g] /\ connected'[g] = connected[g]
       /\ \A p \in Plane : to'[p][g] = to[p][g] /\ from'[p][g] = from[p][g]

\* f may read its first request,
Reads(f) ==
  /\ ToType'
  /\ \A p \in Plane : \/ to'[p][f] = to[p][f]
                      \/ to[p][f] # <<>> /\ to'[p][f] = Tail(to[p][f])

\* and may answer it.
First(f, type) == to["ctrl"][f] # <<>> /\ Head(to["ctrl"][f]).type = type

Reply(f, x) ==
  \/ x.type = "SETUP_CTRL"
  \/ /\ First(f, x.type) /\ x.number = Head(to["ctrl"][f]).number
     /\ x.type = "OP" => to'["ctrl"][f] = Tail(to["ctrl"][f])
     /\ x.type = "START_MIXNET_CLIENTS" => connected[f]
     /\ x.type = "END_TESTCASE" => Ended(f)'
     /\ x.type = "SHUTDOWN" => fstate'[f] = "DONE"

Writes(f) ==
  /\ FromType'
  /\ \A p \in Plane : \/ from'[p][f] = from[p][f]
                      \/ \E x \in ResponseType : /\ from'[p][f] = Append(from[p][f], x)
                                                 /\ Reply(f, x)

\* f itself moves on.
Advances(f) ==
  /\ connected[f] => connected'[f]
  /\ life'[f] = "spinning" => autotest
  /\ Gone(f) => Gone(f)'
  /\ Ended(f) => Ended(f)'
  /\ fstate[f] = "DONE" => fstate'[f] = "DONE"
  /\ fstate'[f] = "DONE" => Gone(f)' /\ (fstate[f] = "DONE" \/ First(f, "SHUTDOWN"))
  /\ fstate'[f] = "RUN_TESTCASE" => thread'[f] # "none"
  /\ Ended(f)' => thread'[f] \in {"joined", "exited"}
  /\ thread'[f] # "none" => thread[f] # "none" \/ First(f, "START_TESTCASE")
  /\ fstep'[f] = "accept" => connected'[f]

Holds(f) ==
  /\ fstate[f] = "SETUP_PCAP" /\ fstep[f] = "connect" => First(f, "SETUP_PCAP")
  /\ fstep[f] = "accept" => fstate[f] = "START_MIXNET_CLIENTS" /\ First(f, "START_MIXNET_CLIENTS")

Effect(f) ==
  /\ TypeOK' /\ OthersAsBefore(f) /\ Reads(f) /\ Writes(f) /\ Advances(f) /\ Holds(f)'

LEMMA OwnFacts ==
  ASSUME IInv, NEW f \in Fragment
  PROVE  /\ fstate[f] = "RUN_TESTCASE" => thread[f] # "none"
         /\ Ended(f) => thread[f] \in {"joined", "exited"}
         /\ fstate[f] = "DONE" => Gone(f)
         /\ fstep[f] = "accept" => connected[f]
         /\ life[f] = "spinning" => autotest
         /\ Holds(f)
<1>1. /\ fstate[f] = "RUN_TESTCASE" => thread[f] # "none"
      /\ Ended(f) => thread[f] \in {"joined", "exited"}
      /\ fstate[f] = "DONE" => Gone(f)
  BY DEF IInv, Ending
<1>2. fstep[f] = "accept" => connected[f]
  BY DEF IInv, Connected
<1>3. life[f] = "spinning" => autotest
  BY DEF IInv, Killing
<1>4. Holds(f)
  BY DEF IInv, Holding, Holds, First
<1> QED
  BY <1>1, <1>2, <1>3, <1>4

LEMMA DieIs ==
  ASSUME TypeOK, NEW f \in Fragment, Die(f)
  PROVE  /\ life' \in [Fragment -> {"running", "spinning", "exited", "killed"}]
         /\ UNCHANGED <<fstate, fstep, thread, connected>>
         /\ life'[f] \in {"spinning", "exited"}
         /\ life'[f] = "spinning" => autotest
         /\ \A g \in Fragment \ {f} : life'[g] = life[g]
  BY DEF Die, TypeOK

LEMMA EnterIs ==
  ASSUME TypeOK, NEW f \in Fragment, NEW s \in Round \cup {"RUN_TESTCASE", "DONE"},
         NEW at \in {"connect", "await", "handshake", "accept"}, Enter(f, s, at)
  PROVE  /\ fstate' \in [Fragment -> Round \cup {"RUN_TESTCASE", "DONE"}]
         /\ fstep' \in [Fragment -> {"connect", "await", "handshake", "accept"}]
         /\ fstate'[f] = s /\ fstep'[f] = at /\ life' = life
         /\ \A g \in Fragment \ {f} : fstate'[g] = fstate[g] /\ fstep'[g] = fstep[g]
  BY DEF Enter, TypeOK

\* Steps without a message.
LEMMA QuietIs ==
  ASSUME Channels, NEW f \in Fragment
  PROVE  /\ UNCHANGED to => Reads(f)
         /\ UNCHANGED from => Writes(f)
<1>1. UNCHANGED to => Reads(f)
  BY DEF Channels, Reads, ToType
<1>2. UNCHANGED from => Writes(f)
  BY DEF Channels, Writes, FromType
<1> QED
  BY <1>1, <1>2

\* Steps that end or keep the process, and change neither its state nor its threads.
LEMMA LifeOnly ==
  ASSUME IInv, NEW f \in Fragment, fstate'[f] = fstate[f], fstep'[f] = fstep[f],
         thread'[f] = thread[f], connected'[f] = connected[f],
         life'[f] = "spinning" => autotest, Gone(f) => Gone(f)'
  PROVE  Advances(f)
  BY OwnFacts DEF Advances, Ended

LEMMA DeathEffect ==
  ASSUME IInv, NEW f \in Fragment, Running(f), Die(f),
         faults_left' \in 0 .. MaxFaults, late' \in BOOLEAN,
         UNCHANGED <<to, from, orchVars, autotest>>
  PROVE  Effect(f)
<1>1. TypeOK /\ Channels
  BY DEF IInv
<1>2. /\ life' \in [Fragment -> {"running", "spinning", "exited", "killed"}]
      /\ UNCHANGED <<fstate, fstep, thread, connected>>
      /\ life'[f] \in {"spinning", "exited"}
      /\ life'[f] = "spinning" => autotest
      /\ \A g \in Fragment \ {f} : life'[g] = life[g]
  BY <1>1, DieIs
<1>3. TypeOK'
  BY <1>1, <1>2 DEF TypeOK, orchVars
<1>4. OthersAsBefore(f)
  BY <1>2 DEF OthersAsBefore
<1>5. Advances(f)
  BY <1>2, LifeOnly DEF Running, Gone
<1>6. Holds(f)'
  BY <1>2, OwnFacts DEF Holds, First
<1> QED
  BY <1>1, <1>3, <1>4, <1>5, <1>6, QuietIs DEF Effect

LEMMA CrashEffect ==
  ASSUME IInv, NEW f \in Fragment, Crash(f)
  PROVE  Effect(f)
<1>1. TypeOK /\ Channels
  BY DEF IInv
<1>2. /\ life' \in [Fragment -> {"running", "spinning", "exited", "killed"}]
      /\ UNCHANGED <<fstate, fstep, thread, connected, to, from, orchVars, autotest, late>>
      /\ life'[f] = "exited" /\ faults_left' \in 0 .. MaxFaults
      /\ \A g \in Fragment \ {f} : life'[g] = life[g]
  BY <1>1, ConstantAssumption DEF Crash, Fault, TypeOK
<1>3. TypeOK'
  BY <1>1, <1>2 DEF TypeOK, orchVars
<1>4. OthersAsBefore(f)
  BY <1>2 DEF OthersAsBefore
<1>5. Advances(f)
  BY <1>2, LifeOnly DEF Gone
<1>6. Holds(f)'
  BY <1>2, OwnFacts DEF Holds, First
<1> QED
  BY <1>1, <1>2, <1>3, <1>4, <1>5, <1>6, QuietIs DEF Effect

\* The threads of f end or hang.
LEMMA ThreadEffect ==
  ASSUME IInv, NEW f \in Fragment, ThreadExits(f) \/ LoseNeighbor(f) \/ ThreadHangs(f)
  PROVE  Effect(f)
<1>1. TypeOK /\ Channels
  BY DEF IInv
<1>2. /\ thread' \in [Fragment -> {"none", "running", "hung", "exited", "joined"}]
      /\ UNCHANGED <<fstate, fstep, life, connected, to, from, orchVars, autotest, late>>
      /\ thread[f] = "running" /\ thread'[f] \in {"exited", "hung"}
      /\ faults_left' \in 0 .. MaxFaults
      /\ \A g \in Fragment \ {f} : thread'[g] = thread[g]
  BY <1>1, ConstantAssumption DEF ThreadExits, LoseNeighbor, ThreadHangs, Fault, TypeOK, envVars
<1>3. TypeOK'
  BY <1>1, <1>2 DEF TypeOK, orchVars
<1>4. OthersAsBefore(f)
  BY <1>2 DEF OthersAsBefore
<1>5. ~Ended(f) /\ ~Ended(f)' /\ fstate'[f] = fstate[f] /\ fstep'[f] = fstep[f]
      /\ (Gone(f)' <=> Gone(f)) /\ connected'[f] = connected[f] /\ life'[f] = life[f]
  BY <1>2, OwnFacts DEF Ended, Gone
<1>6. Advances(f)
  BY <1>2, <1>5, OwnFacts DEF Advances
<1>7. Holds(f)'
  BY <1>2, OwnFacts DEF Holds, First
<1> QED
  BY <1>1, <1>2, <1>3, <1>4, <1>6, <1>7, QuietIs DEF Effect

LEMMA ConnectMixnetEffect ==
  ASSUME IInv, NEW f \in Fragment, ConnectMixnet(f)
  PROVE  Effect(f)
<1>1. TypeOK /\ Channels
  BY DEF IInv
<1>2. Enter(f, "START_MIXNET_CLIENTS", "accept")
      /\ UNCHANGED <<thread, to, from, orchVars, autotest, late, faults_left>>
      /\ fstate[f] = "START_MIXNET_CLIENTS" /\ First(f, "START_MIXNET_CLIENTS")
      /\ connected' = [connected EXCEPT ![f] = TRUE]
  BY DEF ConnectMixnet, HasRequest, First, envVars
<1>3. /\ fstate' \in [Fragment -> Round \cup {"RUN_TESTCASE", "DONE"}]
      /\ fstep' \in [Fragment -> {"connect", "await", "handshake", "accept"}]
      /\ fstate'[f] = fstate[f] /\ fstep'[f] = "accept" /\ life' = life
      /\ \A g \in Fragment \ {f} : fstate'[g] = fstate[g] /\ fstep'[g] = fstep[g]
  BY <1>1, <1>2, EnterIs, RoundIs
<1>4. /\ connected' \in [Fragment -> BOOLEAN] /\ connected'[f]
      /\ \A g \in Fragment \ {f} : connected'[g] = connected[g]
  BY <1>1, <1>2 DEF TypeOK
<1>5. TypeOK'
  BY <1>1, <1>2, <1>3, <1>4 DEF TypeOK, orchVars
<1>6. OthersAsBefore(f)
  BY <1>2, <1>3, <1>4 DEF OthersAsBefore
<1>7. Advances(f)
  BY <1>2, <1>3, <1>4, OwnFacts DEF Advances, Gone, Ended
<1>8. Holds(f)'
  BY <1>2, <1>3 DEF Holds, First
<1> QED
  BY <1>1, <1>2, <1>5, <1>6, <1>7, <1>8, QuietIs DEF Effect

\* A request read and answered in one step.
OtherQueues(f) ==
  \A g \in Fragment \ {f}, p \in Plane : to'[p][g] = to[p][g] /\ from'[p][g] = from[p][g]

LEMMA AnswerIs ==
  ASSUME Channels, NEW f \in Fragment, NEW r, NEW err \in Error, First(f, r),
         Take(f, "ctrl"), Respond(f, "ctrl", r, err, Head(to["ctrl"][f]).number),
         r = "START_MIXNET_CLIENTS" => connected[f],
         r = "END_TESTCASE" => Ended(f)',
         r = "SHUTDOWN" => fstate'[f] = "DONE"
  PROVE  Reads(f) /\ Writes(f) /\ OtherQueues(f)
<1>1. "ctrl" \in Plane /\ "pcap" \in Plane /\ Plane = {"ctrl", "pcap"}
  BY DEF Plane
<1>2. /\ to["ctrl"][f] # <<>> /\ Head(to["ctrl"][f]) \in RequestType
      /\ r = Head(to["ctrl"][f]).type
  BY <1>1, HeadType DEF First
<1> DEFINE n == Head(to["ctrl"][f]).number
           x == Response(r, err, n)
<1>3. r \in Types /\ n \in Nat
  BY <1>2 DEF RequestType
<1>4. /\ ToType' /\ to'["ctrl"][f] = Tail(to["ctrl"][f])
      /\ \A q \in Plane, g \in Fragment : q # "ctrl" \/ g # f => to'[q][g] = to[q][g]
  BY <1>1, <1>2, TakeIs
<1>5. /\ FromType' /\ x \in ResponseType
      /\ from'["ctrl"][f] = Append(from["ctrl"][f], x)
      /\ \A q \in Plane, g \in Fragment : q # "ctrl" \/ g # f => from'[q][g] = from[q][g]
  <2> HIDE DEF n
  <2>1. Respond(f, "ctrl", r, err, n)
    BY DEF n
  <2> QED
    BY <1>1, <1>3, <2>1, RespondIs
<1>6. Reads(f)
  BY <1>1, <1>2, <1>4 DEF Reads
<1>7. x.type = r /\ x.number = Head(to["ctrl"][f]).number
  BY DEF Response
<1> HIDE DEF x
<1>8. Reply(f, x)
  BY <1>2, <1>4, <1>7 DEF Reply, First
<1>9. Writes(f)
  BY <1>1, <1>5, <1>8 DEF Writes
<1>10. OtherQueues(f)
  BY <1>4, <1>5 DEF OtherQueues
<1> QED
  BY <1>6, <1>9, <1>10

\* A request read and not answered.
LEMMA TakeOnly ==
  ASSUME Channels, NEW f \in Fragment, NEW p \in Plane, to[p][f] # <<>>, Take(f, p), UNCHANGED from
  PROVE  Reads(f) /\ Writes(f) /\ OtherQueues(f)
<1>1. /\ ToType' /\ to'[p][f] = Tail(to[p][f])
      /\ \A q \in Plane, g \in Fragment : q # p \/ g # f => to'[q][g] = to[q][g]
  BY TakeIs
<1>2. Reads(f)
  BY <1>1 DEF Reads
<1>3. Writes(f)
  BY QuietIs
<1>4. OtherQueues(f)
  BY <1>1 DEF OtherQueues
<1> QED
  BY <1>2, <1>3, <1>4

\* A step that only moves f on in its state machine, on top of what it does to the queues.
LEMMA MoveEffect ==
  ASSUME IInv, NEW f \in Fragment, NEW s \in Round \cup {"RUN_TESTCASE", "DONE"},
         NEW at \in {"connect", "await", "handshake"}, Enter(f, s, at), Running(f),
         UNCHANGED <<thread, connected, orchVars, envVars>>,
         fstate[f] \notin {"RUN_TESTCASE", "SHUTDOWN", "DONE"}, s \notin {"RUN_TESTCASE", "SHUTDOWN", "DONE"},
         s = "SETUP_PCAP" /\ at = "connect" => First(f, "SETUP_PCAP")',
         Reads(f), Writes(f), OtherQueues(f)
  PROVE  Effect(f)
<1>1. TypeOK /\ Channels
  BY DEF IInv
<1>2. /\ fstate' \in [Fragment -> Round \cup {"RUN_TESTCASE", "DONE"}]
      /\ fstep' \in [Fragment -> {"connect", "await", "handshake", "accept"}]
      /\ fstate'[f] = s /\ fstep'[f] = at /\ life' = life
      /\ \A g \in Fragment \ {f} : fstate'[g] = fstate[g] /\ fstep'[g] = fstep[g]
  BY <1>1, EnterIs
<1>3. TypeOK'
  BY <1>1, <1>2 DEF TypeOK, orchVars, envVars
<1>4. OthersAsBefore(f)
  BY <1>2 DEF OthersAsBefore, OtherQueues, envVars
<1>5. Advances(f)
  BY <1>2, OwnFacts DEF Advances, Gone, Ended, Running
<1>6. Holds(f)'
  BY <1>2 DEF Holds
<1> QED
  BY <1>3, <1>4, <1>5, <1>6 DEF Effect

LEMMA SetupEffect ==
  ASSUME IInv, NEW f \in Fragment,
         \/ ConnectCtrl(f) \/ CompleteCtrl(f) \/ AnswerPcap(f) \/ ConnectPcap(f) \/ CompletePcap(f)
         \/ CreateTopology(f) \/ StartMixnetServer(f) \/ ResolveConnections(f) \/ AcceptMixnet(f)
  PROVE  Effect(f)
<1>1. Channels /\ Holds(f)
  BY OwnFacts DEF IInv
<1>2. "ctrl" \in Plane /\ "pcap" \in Plane /\ Plane = {"ctrl", "pcap"} /\ "NONE" \in Error
  BY DEF Plane, Error
<1>3. CASE ConnectCtrl(f)
  <2>1. /\ Enter(f, "SETUP_CTRL", "await") /\ Running(f) /\ fstate[f] = "SETUP_CTRL"
        /\ UNCHANGED <<thread, connected, orchVars, envVars>> /\ UNCHANGED to
        /\ Respond(f, "ctrl", "SETUP_CTRL", "NONE", 0)
    BY <1>3 DEF ConnectCtrl
  <2> DEFINE x == Response("SETUP_CTRL", "NONE", 0)
  <2>2. /\ FromType' /\ x \in ResponseType
        /\ from'["ctrl"][f] = Append(from["ctrl"][f], x)
        /\ \A q \in Plane, g \in Fragment : q # "ctrl" \/ g # f => from'[q][g] = from[q][g]
    <3>1. "SETUP_CTRL" \in Types
      BY RoundIs DEF Types
    <3> QED
      BY <1>1, <1>2, <2>1, <3>1, RespondIs
  <2>3. Reply(f, x)
    BY DEF Reply, Response
  <2> HIDE DEF x
  <2>4. Writes(f) /\ Reads(f) /\ OtherQueues(f)
    BY <1>1, <1>2, <2>1, <2>2, <2>3, QuietIs DEF Writes, OtherQueues
  <2> QED
    BY <2>1, <2>4, MoveEffect, RoundIs
<1>4. CASE CompleteCtrl(f)
  <2>1. /\ Enter(f, "SETUP_PCAP", "await") /\ Running(f) /\ fstate[f] = "SETUP_CTRL"
        /\ UNCHANGED <<thread, connected, orchVars, envVars>> /\ UNCHANGED from
        /\ Take(f, "ctrl") /\ to["ctrl"][f] # <<>>
    BY <1>4 DEF CompleteCtrl, HasRequest
  <2>2. Writes(f) /\ Reads(f) /\ OtherQueues(f)
    BY <1>1, <1>2, <2>1, TakeOnly
  <2> QED
    BY <2>1, <2>2, MoveEffect, RoundIs
<1>5. CASE AnswerPcap(f)
  <2> DEFINE n == Head(to["ctrl"][f]).number
  <2>1. /\ Enter(f, "SETUP_PCAP", "connect") /\ Running(f) /\ fstate[f] = "SETUP_PCAP"
        /\ UNCHANGED <<thread, connected, orchVars, envVars>> /\ UNCHANGED to
        /\ First(f, "SETUP_PCAP") /\ Respond(f, "ctrl", "SETUP_PCAP", "NONE", n)
    BY <1>5 DEF AnswerPcap, HasRequest, First
  <2> DEFINE x == Response("SETUP_PCAP", "NONE", n)
  <2>2. /\ FromType' /\ x \in ResponseType
        /\ from'["ctrl"][f] = Append(from["ctrl"][f], x)
        /\ \A q \in Plane, g \in Fragment : q # "ctrl" \/ g # f => from'[q][g] = from[q][g]
    <3>1. "SETUP_PCAP" \in Types
      BY RoundIs DEF Types
    <3>2. n \in Nat
      BY <1>1, <1>2, <2>1, HeadType DEF First, RequestType
    <3> HIDE DEF n
    <3> QED
      BY <1>1, <1>2, <2>1, <3>1, <3>2, RespondIs
  <2>3. Reply(f, x)
    BY <2>1 DEF Reply, Response
  <2> HIDE DEF x, n
  <2>4. Writes(f) /\ Reads(f) /\ OtherQueues(f)
    BY <1>1, <1>2, <2>1, <2>2, <2>3, QuietIs DEF Writes, OtherQueues
  <2>5. First(f, "SETUP_PCAP")'
    BY <2>1 DEF First
  <2> QED
    BY <2>1, <2>4, <2>5, MoveEffect, RoundIs
<1>6. CASE ConnectPcap(f)
  <2> DEFINE n == Head(to["ctrl"][f]).number
  <2>1. /\ Enter(f, "SETUP_PCAP", "handshake") /\ Running(f) /\ fstate[f] = "SETUP_PCAP"
        /\ UNCHANGED <<thread, connected, orchVars, envVars>> /\ Take(f, "ctrl")
        /\ First(f, "SETUP_PCAP") /\ Respond(f, "pcap", "SETUP_PCAP", "NONE", n)
    BY <1>1, <1>6 DEF ConnectPcap, Holds
  <2> DEFINE x == Response("SETUP_PCAP", "NONE", n)
  <2>2. /\ FromType' /\ x \in ResponseType
        /\ from'["pcap"][f] = Append(from["pcap"][f], x)
        /\ \A q \in Plane, g \in Fragment : q # "pcap" \/ g # f => from'[q][g] = from[q][g]
    <3>1. "SETUP_PCAP" \in Types
      BY RoundIs DEF Types
    <3>2. n \in Nat
      BY <1>1, <1>2, <2>1, HeadType DEF First, RequestType
    <3> HIDE DEF n
    <3> QED
      BY <1>1, <1>2, <2>1, <3>1, <3>2, RespondIs
  <2>3. Reply(f, x)
    BY <2>1 DEF Reply, Response
  <2> HIDE DEF x, n
  <2>4. to["ctrl"][f] # <<>>
    BY <2>1 DEF First
  <2>5. /\ ToType' /\ to'["ctrl"][f] = Tail(to["ctrl"][f])
        /\ \A q \in Plane, g \in Fragment : q # "ctrl" \/ g # f => to'[q][g] = to[q][g]
    BY <1>1, <1>2, <2>1, <2>4, TakeIs
  <2>6. Writes(f)
    BY <1>2, <2>2, <2>3 DEF Writes
  <2>7. Reads(f)
    BY <1>2, <2>4, <2>5 DEF Reads
  <2>8. OtherQueues(f)
    BY <2>2, <2>5 DEF OtherQueues
  <2> QED
    BY <2>1, <2>6, <2>7, <2>8, MoveEffect, RoundIs
<1>7. CASE CompletePcap(f)
  <2>1. /\ Enter(f, "TOPOLOGY", "await") /\ Running(f) /\ fstate[f] = "SETUP_PCAP"
        /\ UNCHANGED <<thread, connected, orchVars, envVars>> /\ UNCHANGED from
        /\ Take(f, "pcap") /\ to["pcap"][f] # <<>>
    BY <1>7 DEF CompletePcap, HasRequest
  <2>2. Writes(f) /\ Reads(f) /\ OtherQueues(f)
    BY <1>1, <1>2, <2>1, TakeOnly
  <2> QED
    BY <2>1, <2>2, MoveEffect, RoundIs
<1>8. ASSUME NEW r \in {"TOPOLOGY", "START_MIXNET_SERVER", "RESOLVE_MIXNET_CONNS"},
             Answer(f, r), UNCHANGED thread
      PROVE  Effect(f)
  <2>1. /\ Enter(f, NextRound(r), "await") /\ Running(f) /\ fstate[f] = r
        /\ UNCHANGED <<thread, connected, orchVars, envVars>>
        /\ First(f, r) /\ Take(f, "ctrl")
        /\ Respond(f, "ctrl", r, "NONE", Head(to["ctrl"][f]).number)
    BY <1>8 DEF Answer, HasRequest, First
  <2>2. Writes(f) /\ Reads(f) /\ OtherQueues(f)
    BY <1>1, <1>2, <2>1, AnswerIs
  <2>3. NextRound(r) \in {"START_MIXNET_SERVER", "START_MIXNET_CLIENTS", "START_TESTCASE"}
    BY NextRoundIs
  <2> QED
    BY <2>1, <2>2, <2>3, MoveEffect, RoundIs
<1>9. CASE AcceptMixnet(f)
  <2>1. /\ Enter(f, "RESOLVE_MIXNET_CONNS", "await") /\ Running(f)
        /\ fstate[f] = "START_MIXNET_CLIENTS" /\ fstep[f] = "accept"
        /\ UNCHANGED <<thread, connected, orchVars, envVars>> /\ Take(f, "ctrl")
        /\ Respond(f, "ctrl", "START_MIXNET_CLIENTS", "NONE", Head(to["ctrl"][f]).number)
    BY <1>9 DEF AcceptMixnet
  <2>2. First(f, "START_MIXNET_CLIENTS") /\ connected[f]
    BY <1>1, <2>1, OwnFacts DEF Holds
  <2>3. Writes(f) /\ Reads(f) /\ OtherQueues(f)
    BY <1>1, <1>2, <2>1, <2>2, AnswerIs
  <2> QED
    BY <2>1, <2>3, MoveEffect, RoundIs
<1> QED
  BY <1>3, <1>4, <1>5, <1>6, <1>7, <1>8, <1>9
  DEF CreateTopology, StartMixnetServer, ResolveConnections

\* A request read, and the process ends or stays where it is.
LEMMA StayEffect ==
  ASSUME IInv, NEW f \in Fragment, Running(f), Die(f) \/ UNCHANGED fragVars,
         fstep[f] = "await" \/ fstate[f] = "RUN_TESTCASE",
         faults_left' \in 0 .. MaxFaults, UNCHANGED <<orchVars, autotest, late>>,
         Reads(f), Writes(f), OtherQueues(f)
  PROVE  Effect(f)
<1>1. TypeOK
  BY DEF IInv
<1>2. /\ life' \in [Fragment -> {"running", "spinning", "exited", "killed"}]
      /\ UNCHANGED <<fstate, fstep, thread, connected>>
      /\ life'[f] \in {"running", "spinning", "exited"}
      /\ life'[f] = "spinning" => autotest
      /\ \A g \in Fragment \ {f} : life'[g] = life[g]
  BY <1>1, DieIs DEF TypeOK, fragVars, Running
<1>3. TypeOK'
  BY <1>1, <1>2 DEF TypeOK, orchVars
<1>4. OthersAsBefore(f)
  BY <1>2 DEF OthersAsBefore, OtherQueues
<1>5. Advances(f)
  BY <1>2, LifeOnly DEF Running, Gone
<1>6. Holds(f)'
  BY <1>2, OwnFacts DEF Holds
<1> QED
  BY <1>3, <1>4, <1>5, <1>6 DEF Effect

LEMMA StartTestcaseEffect ==
  ASSUME IInv, NEW f \in Fragment, StartTestcase(f)
  PROVE  Effect(f)
<1>1. TypeOK /\ Channels /\ "NONE" \in Error
  BY DEF IInv, Error
<1>2. /\ Enter(f, "RUN_TESTCASE", "await") /\ Running(f) /\ fstate[f] = "START_TESTCASE"
      /\ UNCHANGED <<connected, orchVars, autotest, late, faults_left>>
      /\ First(f, "START_TESTCASE") /\ Take(f, "ctrl")
      /\ Respond(f, "ctrl", "START_TESTCASE", "NONE", Head(to["ctrl"][f]).number)
      /\ thread' = [thread EXCEPT ![f] = "running"]
  BY NextRoundIs DEF StartTestcase, Answer, HasRequest, First, envVars
<1>3. Reads(f) /\ Writes(f) /\ OtherQueues(f)
  BY <1>1, <1>2, AnswerIs
<1>4. /\ fstate' \in [Fragment -> Round \cup {"RUN_TESTCASE", "DONE"}]
      /\ fstep' \in [Fragment -> {"connect", "await", "handshake", "accept"}]
      /\ fstate'[f] = "RUN_TESTCASE" /\ fstep'[f] = "await" /\ life' = life
      /\ \A g \in Fragment \ {f} : fstate'[g] = fstate[g] /\ fstep'[g] = fstep[g]
  BY <1>1, <1>2, EnterIs
<1>5. /\ thread' \in [Fragment -> {"none", "running", "hung", "exited", "joined"}]
      /\ thread'[f] = "running" /\ \A g \in Fragment \ {f} : thread'[g] = thread[g]
  BY <1>1, <1>2 DEF TypeOK
<1>6. TypeOK'
  BY <1>1, <1>2, <1>4, <1>5 DEF TypeOK, orchVars
<1>7. OthersAsBefore(f)
  BY <1>2, <1>3, <1>4, <1>5 DEF OthersAsBefore, OtherQueues
<1>8. Advances(f)
  BY <1>2, <1>4, <1>5, OwnFacts DEF Advances, Gone, Ended, Running
<1>9. Holds(f)'
  BY <1>4 DEF Holds
<1> QED
  BY <1>3, <1>6, <1>7, <1>8, <1>9 DEF Effect

LEMMA AnswerOpEffect ==
  ASSUME IInv, NEW f \in Fragment, NEW err \in Error, AnswerOp(f, err)
  PROVE  Effect(f)
<1>1. TypeOK /\ Channels
  BY DEF IInv
<1>2. /\ Running(f) /\ fstate[f] = "RUN_TESTCASE" /\ First(f, "OP") /\ Take(f, "ctrl")
      /\ Respond(f, "ctrl", "OP", err, Head(to["ctrl"][f]).number)
      /\ Die(f) \/ UNCHANGED fragVars
      /\ UNCHANGED <<orchVars, autotest, late>>
  BY DEF AnswerOp, HasRequest, First
<1>3. faults_left' \in 0 .. MaxFaults
  BY <1>1, ConstantAssumption DEF AnswerOp, TypeOK
<1>4. Reads(f) /\ Writes(f) /\ OtherQueues(f)
  BY <1>1, <1>2, AnswerIs
<1> QED
  BY <1>2, <1>3, <1>4, StayEffect

LEMMA EndTestcaseEffect ==
  ASSUME IInv, NEW f \in Fragment, EndTestcase(f)
  PROVE  Effect(f)
<1>1. TypeOK /\ Channels /\ "NONE" \in Error /\ "ctrl" \in Plane
  BY DEF IInv, Error, Plane
<1>2. /\ Running(f) /\ fstate[f] = "RUN_TESTCASE" /\ First(f, "END_TESTCASE") /\ Take(f, "ctrl")
      /\ UNCHANGED <<orchVars, autotest, late, faults_left>> /\ to["ctrl"][f] # <<>>
  BY DEF EndTestcase, HasRequest, First, envVars
<1>3. CASE thread[f] = "hung"
  <2>1. Die(f) /\ UNCHANGED from
    BY <1>3 DEF EndTestcase
  <2>2. Reads(f) /\ Writes(f) /\ OtherQueues(f)
    BY <1>1, <1>2, <2>1, TakeOnly
  <2>3. faults_left' \in 0 .. MaxFaults
    BY <1>1, <1>2 DEF TypeOK
  <2> QED
    BY <1>2, <2>1, <2>2, <2>3, StayEffect
<1>4. CASE thread[f] # "hung"
  <2>1. /\ Respond(f, "ctrl", "END_TESTCASE", "NONE", Head(to["ctrl"][f]).number)
        /\ Enter(f, "SHUTDOWN", "await") /\ UNCHANGED connected
        /\ thread' = [thread EXCEPT ![f] = IF thread[f] = "running" THEN "joined" ELSE thread[f]]
    BY <1>4 DEF EndTestcase
  <2>2. /\ fstate' \in [Fragment -> Round \cup {"RUN_TESTCASE", "DONE"}]
        /\ fstep' \in [Fragment -> {"connect", "await", "handshake", "accept"}]
        /\ fstate'[f] = "SHUTDOWN" /\ fstep'[f] = "await" /\ life' = life
        /\ \A g \in Fragment \ {f} : fstate'[g] = fstate[g] /\ fstep'[g] = fstep[g]
    BY <1>1, <2>1, EnterIs, RoundIs
  <2>3. /\ thread' \in [Fragment -> {"none", "running", "hung", "exited", "joined"}]
        /\ thread'[f] = (IF thread[f] = "running" THEN "joined" ELSE thread[f])
        /\ \A g \in Fragment \ {f} : thread'[g] = thread[g]
    BY <1>1, <2>1 DEF TypeOK
  <2>4. thread[f] # "none" /\ thread'[f] \in {"joined", "exited"}
    BY <1>1, <1>2, <1>4, <2>3, OwnFacts DEF TypeOK
  <2>5. Ended(f)'
    BY <2>2 DEF Ended
  <2>6. Reads(f) /\ Writes(f) /\ OtherQueues(f)
    BY <1>1, <1>2, <2>1, <2>5, AnswerIs
  <2>7. TypeOK'
    BY <1>1, <1>2, <2>1, <2>2, <2>3 DEF TypeOK, orchVars
  <2>8. OthersAsBefore(f)
    BY <1>2, <2>1, <2>2, <2>3, <2>6 DEF OthersAsBefore, OtherQueues
  <2>9. Advances(f)
    BY <1>2, <2>1, <2>2, <2>4, OwnFacts DEF Advances, Gone, Ended, Running
  <2>10. Holds(f)'
    BY <2>2 DEF Holds
  <2> QED
    BY <2>6, <2>7, <2>8, <2>9, <2>10 DEF Effect
<1> QED
  BY <1>3, <1>4

LEMMA ShutdownEffect ==
  ASSUME IInv, NEW f \in Fragment, Shutdown(f)
  PROVE  Effect(f)
<1>1. TypeOK /\ Channels /\ "NONE" \in Error
  BY DEF IInv, Error
<1>2. /\ Running(f) /\ fstate[f] = "SHUTDOWN" /\ First(f, "SHUTDOWN") /\ Take(f, "ctrl")
      /\ Respond(f, "ctrl", "SHUTDOWN", "NONE", Head(to["ctrl"][f]).number)
      /\ UNCHANGED <<fstep, thread, connected, orchVars, autotest, late, faults_left>>
      /\ fstate' = [fstate EXCEPT ![f] = "DONE"] /\ life' = [life EXCEPT ![f] = "exited"]
  BY DEF Shutdown, HasRequest, First, envVars
<1>3. /\ fstate' \in [Fragment -> Round \cup {"RUN_TESTCASE", "DONE"}] /\ fstate'[f] = "DONE"
      /\ life' \in [Fragment -> {"running", "spinning", "exited", "killed"}] /\ life'[f] = "exited"
      /\ \A g \in Fragment \ {f} : fstate'[g] = fstate[g] /\ life'[g] = life[g]
  BY <1>1, <1>2 DEF TypeOK
<1>4. Reads(f) /\ Writes(f) /\ OtherQueues(f)
  BY <1>1, <1>2, <1>3, AnswerIs
<1>5. TypeOK'
  BY <1>1, <1>2, <1>3 DEF TypeOK, orchVars
<1>6. OthersAsBefore(f)
  BY <1>2, <1>3, <1>4 DEF OthersAsBefore, OtherQueues
<1>7. Advances(f)
  BY <1>2, <1>3, OwnFacts DEF Advances, Gone, Ended, Running
<1>8. Holds(f)'
  BY <1>2, <1>3, OwnFacts DEF Holds
<1> QED
  BY <1>4, <1>5, <1>6, <1>7, <1>8 DEF Effect

LEMMA FragmentEffect ==
  ASSUME IInv, NEW f \in Fragment, FragmentStep(f) \/ FaultStep(f)
  PROVE  Effect(f)
<1>1. TypeOK /\ Channels /\ "ctrl" \in Plane /\ "NONE" \in Error /\ "FRAGMENT_EXCEPTION" \in Error
  BY DEF IInv, Error, Plane
<1>2. faults_left \in 0 .. MaxFaults /\ late \in BOOLEAN
  BY <1>1 DEF TypeOK
<1>3. CASE ConnectTimeout(f)
  <2>1. /\ Running(f) /\ Die(f) /\ UNCHANGED <<to, from, orchVars, autotest>>
        /\ faults_left' = faults_left
    BY <1>3 DEF ConnectTimeout, Premature
  <2>2. late' \in BOOLEAN
    BY <1>2, <1>3 DEF ConnectTimeout, Premature
  <2> QED
    BY <1>2, <2>1, <2>2, DeathEffect
<1>4. CASE LoseOrchestrator(f)
  <2>1. /\ Running(f) /\ Die(f) /\ UNCHANGED <<to, from, orchVars, autotest>>
        /\ faults_left' = faults_left /\ late' = late
    BY <1>4 DEF LoseOrchestrator, envVars
  <2> QED
    BY <1>2, <2>1, DeathEffect
<1>5. CASE FailStep(f)
  <2>1. /\ Running(f) /\ Die(f) /\ UNCHANGED <<to, from, orchVars, autotest>>
        /\ faults_left' \in 0 .. MaxFaults /\ late' = late
    BY <1>2, <1>5, ConstantAssumption DEF FailStep, Fault
  <2> QED
    BY <1>2, <2>1, DeathEffect
<1>6. CASE RejectRequest(f)
  <2>1. /\ Running(f) /\ fstep[f] = "await" /\ to["ctrl"][f] # <<>> /\ Take(f, "ctrl") /\ Die(f)
        /\ UNCHANGED from /\ UNCHANGED <<orchVars, autotest, late>> /\ faults_left' = faults_left
    BY <1>6 DEF RejectRequest, HasRequest, envVars
  <2>2. Reads(f) /\ Writes(f) /\ OtherQueues(f)
    BY <1>1, <2>1, TakeOnly
  <2> QED
    BY <1>2, <2>1, <2>2, StayEffect
<1>7. CASE AnswerOp(f, "NONE") \/ AnswerOp(f, "FRAGMENT_EXCEPTION")
  BY <1>1, <1>7, AnswerOpEffect
<1> QED
  BY <1>3, <1>4, <1>5, <1>6, <1>7, SetupEffect, StartTestcaseEffect, ConnectMixnetEffect,
     EndTestcaseEffect, ShutdownEffect, CrashEffect, ThreadEffect
  DEF FragmentStep, FaultStep

-----------------------------------------------------------------------------
(* The steps of the fragments keep the invariant *)

LEMMA EffectMessages ==
  ASSUME Channels, NEW f \in Fragment, Effect(f)
  PROVE  /\ \A p \in Plane, g \in Fragment : Asked(p, g)' \subseteq Asked(p, g)
         /\ \A p \in Plane, g \in Fragment : \A m \in Told(p, g)' :
              m \in Told(p, g) \/ (g = f /\ Reply(f, m))
<1>1. ASSUME NEW p \in Plane, NEW g \in Fragment
      PROVE  Asked(p, g)' \subseteq Asked(p, g)
  <2>1. to'[p][g] = to[p][g] \/ (to[p][g] # <<>> /\ to'[p][g] = Tail(to[p][g]))
    <3>1. CASE g = f
      BY <3>1 DEF Effect, Reads
    <3>2. CASE g # f
      BY <3>2 DEF Effect, OthersAsBefore
    <3> QED
      BY <3>1, <3>2
  <2>2. to[p][g] # <<>> => In(Tail(to[p][g])) \subseteq Asked(p, g)
    BY HeadType
  <2>3. Asked(p, g)' = In(to'[p][g])
    BY DEF Asked
  <2>4. CASE to'[p][g] = to[p][g]
    BY <2>3, <2>4 DEF Asked
  <2>5. CASE to[p][g] # <<>> /\ to'[p][g] = Tail(to[p][g])
    BY <2>2, <2>3, <2>5
  <2> QED
    BY <2>1, <2>4, <2>5
<1>2. ASSUME NEW p \in Plane, NEW g \in Fragment, NEW m \in Told(p, g)'
      PROVE  m \in Told(p, g) \/ (g = f /\ Reply(f, m))
  <2>1. CASE from'[p][g] = from[p][g]
    BY <1>2, <2>1 DEF Told
  <2>2. CASE from'[p][g] # from[p][g]
    <3>1. g = f
      BY <2>2 DEF Effect, OthersAsBefore
    <3>2. PICK x \in ResponseType : from'[p][f] = Append(from[p][f], x) /\ Reply(f, x)
      BY <2>2, <3>1 DEF Effect, Writes
    <3>3. In(Append(from[p][f], x)) = In(from[p][f]) \cup {x}
      BY HeadType, InAppend
    <3> QED
      BY <1>2, <3>1, <3>2, <3>3 DEF Told
  <2> QED
    BY <2>1, <2>2
<1> QED
  BY <1>1, <1>2

LEMMA EffectNumbers ==
  ASSUME IInv, NEW f \in Fragment, Effect(f)
  PROVE  Numbers'
<1>1. TypeOK /\ Channels /\ Numbers /\ "ctrl" \in Plane
  BY DEF IInv, Plane
<1>2. UNCHANGED <<state, step, request>>
  BY DEF Effect, OthersAsBefore, orchVars
<1>3. Does("recv")' <=> Does("recv")
  BY <1>2 DEF Does, InRound
<1>4. ASSUME NEW p \in Plane, NEW g \in Fragment, NEW m \in Asked(p, g)' \cup Told(p, g)'
      PROVE  /\ Rank(m.type) <= Rank(state)
             /\ m.type = state /\ state # "SETUP_CTRL" =>
                  step > 1 /\ (Does("recv") => m.number = request)
  <2>1. CASE m \in Asked(p, g) \cup Told(p, g)
    BY <1>1, <2>1 DEF Numbers
  <2>2. CASE Reply(f, m)
    <3>1. CASE m.type = "SETUP_CTRL"
      <4>1. Rank(state) \in Nat /\ Rank(state) >= 1
        BY <1>1, RankIs, RoundIs DEF TypeOK
      <4> QED
        BY <3>1, <4>1, RankIs
    <3>2. CASE m.type # "SETUP_CTRL"
      <4>1. PICK r \in Asked("ctrl", f) : r.type = m.type /\ r.number = m.number
        BY <1>1, <2>2, <3>2, HeadType DEF Reply, First
      <4>2. /\ Rank(r.type) <= Rank(state)
            /\ r.type = state /\ state # "SETUP_CTRL" =>
                 step > 1 /\ (Does("recv") => r.number = request)
        BY <1>1 DEF Numbers
      <4> QED
        BY <4>1, <4>2
    <3> QED
      BY <3>1, <3>2
  <2> QED
    BY <1>1, <1>4, <2>1, <2>2, EffectMessages
<1> QED
  BY <1>2, <1>3, <1>4 DEF Numbers

LEMMA EffectOps ==
  ASSUME IInv, NEW f \in Fragment, Effect(f)
  PROVE  Ops'
<1>1. TypeOK /\ Channels /\ Ops /\ "ctrl" \in Plane
  BY DEF IInv, Plane
<1>2. UNCHANGED <<state, op, request>>
  BY DEF Effect, OthersAsBefore, orchVars
<1>3. op' # 0 => state' = "RUN_TESTCASE"
  BY <1>1, <1>2 DEF Ops
<1>4. SUFFICES ASSUME state = "RUN_TESTCASE", NEW g \in Fragment
               PROVE  /\ op # g => NoOp(to["ctrl"][g])' /\ NoOp(from["ctrl"][g])'
                      /\ OneOp(to["ctrl"][g])' /\ OneOp(from["ctrl"][g])'
                      /\ NoOp(to["ctrl"][g])' \/ NoOp(from["ctrl"][g])'
                      /\ \A m \in Asked("ctrl", g)' \cup Told("ctrl", g)' :
                           m.type = "OP" => m.number = request
  BY <1>2, <1>3 DEF Ops
<1> DEFINE q == to["ctrl"][g]
           s == from["ctrl"][g]
<1>5. /\ op # g => NoOp(q) /\ NoOp(s)
      /\ OneOp(q) /\ OneOp(s)
      /\ NoOp(q) \/ NoOp(s)
      /\ \A m \in Asked("ctrl", g) \cup Told("ctrl", g) : m.type = "OP" => m.number = request
  BY <1>1, <1>4 DEF Ops
<1>6. q \in Seq(RequestType) /\ s \in Seq(ResponseType)
  BY <1>1, HeadType
<1>7. q' = q \/ (q # <<>> /\ q' = Tail(q))
  <2>1. CASE g = f
    BY <1>1, <2>1 DEF Effect, Reads
  <2>2. CASE g # f
    BY <1>1, <2>2 DEF Effect, OthersAsBefore
  <2> QED
    BY <2>1, <2>2
<1>8. \/ s' = s
      \/ \E x \in ResponseType : g = f /\ s' = Append(s, x) /\ Reply(f, x)
  <2>1. CASE g = f
    BY <1>1, <2>1 DEF Effect, Writes
  <2>2. CASE g # f
    BY <1>1, <2>2 DEF Effect, OthersAsBefore
  <2> QED
    BY <2>1, <2>2
<1>9. NoOp(q) => NoOp(q)'
  BY <1>1, EffectMessages DEF NoOp, Asked
<1>10. OneOp(q)'
  BY <1>5, <1>6, <1>7, OneOpTail
<1>11. CASE s' = s
  <2>1. Told("ctrl", g)' = Told("ctrl", g)
    BY <1>11 DEF Told
  <2>2. \A m \in Asked("ctrl", g)' : m \in Asked("ctrl", g)
    BY <1>1, EffectMessages
  <2> QED
    BY <1>5, <1>9, <1>10, <1>11, <2>1, <2>2
<1>12. CASE s' # s
  <2>1. PICK x \in ResponseType : g = f /\ s' = Append(s, x) /\ Reply(f, x)
    BY <1>8, <1>12
  <2>2. In(s') = In(s) \cup {x}
    BY <1>6, <2>1, InAppend
  <2>3. x.type = "OP" => /\ First(g, "OP") /\ x.number = Head(q).number /\ q' = Tail(q)
    BY <2>1 DEF Reply
  <2>4. x.type = "OP" => /\ ~NoOp(q) /\ q # <<>> /\ Head(q) \in Asked("ctrl", g)
                         /\ Head(q).type = "OP"
    BY <1>1, <2>3, HeadType DEF First, NoOp, Asked
  <2>5. x.type = "OP" => NoOp(s) /\ NoOp(q)' /\ x.number = request /\ op = g
    BY <1>5, <1>6, <2>3, <2>4, OneOpTail
  <2>6. OneOp(s)'
    BY <1>5, <1>6, <2>1, <2>5, OneOpAppend
  <2>7. x.type # "OP" /\ NoOp(s) => NoOp(s)'
    BY <2>2 DEF NoOp
  <2>8. \A m \in Asked("ctrl", g)' \cup Told("ctrl", g)' : m.type = "OP" => m.number = request
    <3>1. \A m \in Asked("ctrl", g)' : m \in Asked("ctrl", g)
      BY <1>1, EffectMessages
    <3>2. \A m \in Told("ctrl", g)' : m \in Told("ctrl", g) \/ m = x
      BY <2>2 DEF Told
    <3> QED
      BY <1>5, <2>5, <3>1, <3>2
  <2>9. CASE x.type = "OP"
    BY <1>10, <2>5, <2>6, <2>8, <2>9
  <2>10. CASE x.type # "OP"
    BY <1>5, <1>9, <1>10, <2>6, <2>7, <2>8, <2>10
  <2> QED
    BY <2>9, <2>10
<1> QED
  BY <1>11, <1>12

LEMMA EffectConnected ==
  ASSUME IInv, NEW f \in Fragment, Effect(f)
  PROVE  Connected' /\ NetworkBeforeNodes'
<1>1. TypeOK /\ Channels /\ Connected /\ NetworkBeforeNodes /\ "ctrl" \in Plane
  BY DEF IInv, Plane
<1>2. UNCHANGED <<state, step, error, pending>>
  BY DEF Effect, OthersAsBefore, orchVars
<1>3. \A g \in Fragment : connected[g] => connected'[g]
  BY DEF Effect, OthersAsBefore, Advances
<1>4. \A g \in Fragment : fstep'[g] = "accept" => connected'[g]
  BY <1>1 DEF Effect, OthersAsBefore, Advances, Connected
<1>5. ASSUME NEW g \in Fragment, NEW m \in Told("ctrl", g)', m.type = "START_MIXNET_CLIENTS"
      PROVE  connected'[g]
  <2>1. m \in Told("ctrl", g) \/ (g = f /\ Reply(f, m))
    BY <1>1, <1>5, EffectMessages
  <2>2. connected[g]
    BY <1>1, <1>5, <2>1 DEF Connected, Reply
  <2> QED
    BY <1>3, <2>2
<1>6. ASSUME NEW g \in Fragment, NEW m \in Asked("ctrl", g)', m.type = "START_TESTCASE"
      PROVE  \A h \in Fragment : connected'[h]
  <2>1. m \in Asked("ctrl", g)
    BY <1>1, <1>6, EffectMessages
  <2> QED
    BY <1>1, <1>3, <1>6, <2>1 DEF Connected
<1>7. Connected'
  BY <1>1, <1>2, <1>3, <1>4, <1>5, <1>6 DEF Connected
<1>8. ASSUME NEW g \in Fragment, NEW h \in Fragment, thread'[g] # "none"
      PROVE  connected'[h]
  <2>1. thread[g] # "none" \/ First(g, "START_TESTCASE")
    BY <1>8 DEF Effect, OthersAsBefore, Advances
  <2>2. CASE thread[g] # "none"
    BY <1>1, <1>3, <2>2 DEF NetworkBeforeNodes
  <2>3. CASE First(g, "START_TESTCASE")
    <3>1. Head(to["ctrl"][g]) \in Asked("ctrl", g) /\ Head(to["ctrl"][g]).type = "START_TESTCASE"
      BY <1>1, <2>3, HeadType DEF First
    <3> QED
      BY <1>1, <1>3, <3>1 DEF Connected
  <2> QED
    BY <2>1, <2>2, <2>3
<1> QED
  BY <1>7, <1>8 DEF NetworkBeforeNodes

LEMMA EffectEnding ==
  ASSUME IInv, NEW f \in Fragment, Effect(f)
  PROVE  Ending'
<1>1. TypeOK /\ Channels /\ Ending /\ Numbers /\ "ctrl" \in Plane
  BY DEF IInv, Plane
<1>2. UNCHANGED <<state, step, error, exit_code, pending>>
  BY DEF Effect, OthersAsBefore, orchVars
<1>3. \A g \in Fragment \ {f} : /\ fstate'[g] = fstate[g] /\ life'[g] = life[g]
                               /\ thread'[g] = thread[g]
  BY DEF Effect, OthersAsBefore
<1>4. Advances(f)
  BY DEF Effect
<1>5. \A g \in Fragment : /\ Ended(g) => Ended(g)'
                          /\ fstate[g] = "DONE" => fstate'[g] = "DONE"
  BY <1>3, <1>4 DEF Advances, Ended
<1>6. \A g \in Fragment : fstate'[g] = "RUN_TESTCASE" => thread'[g] # "none"
  BY <1>1, <1>3, <1>4 DEF Ending, Advances
<1>7. \A g \in Fragment : Ended(g)' => thread'[g] \in {"joined", "exited"}
  BY <1>1, <1>3, <1>4 DEF Ending, Advances, Ended
<1>8. ASSUME NEW g \in Fragment, NEW m \in Told("ctrl", g)'
      PROVE  /\ m.type = "END_TESTCASE" => Ended(g)'
             /\ m.type = "SHUTDOWN" => fstate'[g] = "DONE"
  <2>1. m \in Told("ctrl", g) \/ (g = f /\ Reply(f, m))
    BY <1>1, <1>8, EffectMessages
  <2>2. CASE m \in Told("ctrl", g)
    BY <1>1, <1>5, <2>2 DEF Ending
  <2>3. CASE g = f /\ Reply(f, m)
    BY <2>3 DEF Reply
  <2> QED
    BY <2>1, <2>2, <2>3
<1>9. ASSUME NEW g \in Fragment, fstate'[g] = "DONE"
      PROVE  Gone(g)' /\ state \in Over
  <2>1. CASE g # f
    BY <1>1, <1>3, <1>9, <2>1 DEF Ending, Gone
  <2>2. CASE g = f
    <3>1. Gone(g)' /\ (fstate[g] = "DONE" \/ First(g, "SHUTDOWN"))
      BY <1>4, <1>9, <2>2 DEF Advances
    <3>2. CASE First(g, "SHUTDOWN")
      <4>1. PICK r \in Asked("ctrl", g) : r.type = "SHUTDOWN"
        BY <1>1, <3>2, HeadType DEF First
      <4>2. Rank("SHUTDOWN") <= Rank(state)
        BY <1>1, <4>1 DEF Numbers
      <4>3. state \in Over
        BY <1>1, <4>2, RankIs, RoundIs DEF TypeOK, Over
      <4> QED
        BY <3>1, <4>3
    <3> QED
      BY <1>1, <3>1, <3>2 DEF Ending
  <2> QED
    BY <2>1, <2>2
<1>10. /\ state = "END_TESTCASE" /\ step = 2 /\ error = "NONE" =>
            \A g \in Fragment \ pending : Ended(g)'
       /\ state \in Over /\ exit_code = "NONE" => \A g \in Fragment : Ended(g)'
       /\ state = "SHUTDOWN" /\ step = 2 /\ error = "NONE" =>
            \A g \in Fragment \ pending : fstate'[g] = "DONE"
       /\ state = "FORCEFUL_SHUTDOWN" => exit_code # "NONE"
       /\ state \in {"RESET", "DONE"} /\ exit_code = "NONE" =>
            \A g \in Fragment : fstate'[g] = "DONE"
  BY <1>1, <1>5 DEF Ending
<1> QED
  BY <1>2, <1>6, <1>7, <1>8, <1>9, <1>10 DEF Ending

LEMMA EffectKilling ==
  ASSUME IInv, NEW f \in Fragment, Effect(f)
  PROVE  Killing'
<1>1. Killing
  BY DEF IInv
<1>2. UNCHANGED <<state, step, error, pending, pids, autotest>>
  BY DEF Effect, OthersAsBefore, orchVars
<1>3. \A g \in Fragment : /\ Gone(g) => Gone(g)'
                          /\ life'[g] = "spinning" => autotest
  BY <1>1 DEF Effect, OthersAsBefore, Advances, Gone, Killing
<1> QED
  BY <1>1, <1>2, <1>3 DEF Killing

LEMMA EffectKeeps ==
  ASSUME IInv, NEW f \in Fragment, Effect(f)
  PROVE  IInv'
<1>1. TypeOK' /\ Channels'
  BY DEF Effect, Reads, Writes, ToType, FromType, Channels
<1>2. Steps'
  BY DEF IInv, Steps, Effect, OthersAsBefore, orchVars, InRound
<1>3. Holding'
  <2>1. ASSUME NEW g \in Fragment PROVE Holds(g)'
    <3>1. CASE g = f
      BY <3>1 DEF Effect
    <3>2. CASE g # f
      <4>1. /\ Holds(g) /\ fstate'[g] = fstate[g] /\ fstep'[g] = fstep[g]
            /\ to'["ctrl"][g] = to["ctrl"][g]
        BY <3>2, OwnFacts DEF Effect, OthersAsBefore, Plane
      <4> QED
        BY <4>1 DEF Holds, First
    <3> QED
      BY <3>1, <3>2
  <2> QED
    BY <2>1 DEF Holding, Holds, First
<1> QED
  BY <1>1, <1>2, <1>3, EffectNumbers, EffectOps, EffectConnected, EffectEnding, EffectKilling
  DEF IInv

-----------------------------------------------------------------------------
(* What a step of the orchestrator may do *)

LEMMA DoesIs ==
  ASSUME TypeOK, Steps
  PROVE  /\ Does("send") <=> InRound /\ \/ state = "SETUP_CTRL" /\ step = 2
                                        \/ state = "SETUP_PCAP" /\ step \in {1, 4}
                                        \/ state \notin {"SETUP_CTRL", "SETUP_PCAP"} /\ step = 1
         /\ Does("recv") <=> InRound /\ \/ state = "SETUP_CTRL" /\ step = 1
                                        \/ state = "SETUP_PCAP" /\ step \in {2, 3}
                                        \/ state \notin {"SETUP_CTRL", "SETUP_PCAP"} /\ step = 2
         /\ InRound => /\ OnPlane = IF state = "SETUP_PCAP" /\ step \in {3, 4} THEN "pcap" ELSE "ctrl"
                       /\ Len(Program(state)) = IF state = "SETUP_PCAP" THEN 4 ELSE 2
<1>1. CASE ~InRound
  BY <1>1 DEF Does
<1>2. CASE InRound /\ state = "SETUP_CTRL"
  <2>1. Program(state) = <<<<"recv", "ctrl">>, <<"send", "ctrl">>>>
    BY <1>2, ProgramIs
  <2>2. step \in {1, 2}
    <3>1. Len(Program(state)) = 2
      BY <2>1
    <3>2. step \in 1 .. 2
      BY <1>2, <3>1 DEF Steps
    <3> QED
      BY <3>2
  <2> QED
    BY <1>2, <2>1, <2>2 DEF Does, OnPlane
<1>3. CASE InRound /\ state = "SETUP_PCAP"
  <2>1. Program(state) = <<<<"send", "ctrl">>, <<"recv", "ctrl">>, <<"recv", "pcap">>,
                           <<"send", "pcap">>>>
    BY <1>3, ProgramIs
  <2>2. step \in {1, 2, 3, 4}
    <3>1. Len(Program(state)) = 4
      BY <2>1
    <3>2. step \in 1 .. 4
      BY <1>3, <3>1 DEF Steps
    <3> QED
      BY <3>2
  <2>3. /\ Program(state)[1] = <<"send", "ctrl">> /\ Program(state)[2] = <<"recv", "ctrl">>
        /\ Program(state)[3] = <<"recv", "pcap">> /\ Program(state)[4] = <<"send", "pcap">>
        /\ Len(Program(state)) = 4
    BY <2>1
  <2> QED
    BY <1>3, <2>2, <2>3 DEF Does, OnPlane
<1>4. CASE InRound /\ state \notin {"SETUP_CTRL", "SETUP_PCAP"}
  <2>1. Program(state) = <<<<"send", "ctrl">>, <<"recv", "ctrl">>>>
    BY <1>4, ProgramIs DEF InRound
  <2>2. step \in {1, 2}
    BY <1>4, <2>1 DEF Steps
  <2>3. /\ Program(state)[1] = <<"send", "ctrl">> /\ Program(state)[2] = <<"recv", "ctrl">>
        /\ Len(Program(state)) = 2
    BY <2>1
  <2> QED
    BY <1>4, <2>2, <2>3 DEF Does, OnPlane
<1> QED
  BY <1>1, <1>2, <1>3, <1>4

\* The state machine of run(): the states only ever move on.
AnyState == Round \cup {"RUN_TESTCASE", "FORCEFUL_SHUTDOWN", "RESET", "DONE"}

LEMMA FinishIs ==
  ASSUME TypeOK, state \in Round \cup {"RUN_TESTCASE"}, NEW e \in Error, FinishState(e)
  PROVE  /\ step' = 1 /\ error' = "NONE" /\ pending' = {} /\ op' = 0
         /\ exit_code' \in Error /\ (exit_code' = "NONE" <=> exit_code = "NONE" /\ e = "NONE")
         /\ state' \in AnyState /\ Rank(state') > Rank(state)
         /\ state' = "RUN_TESTCASE" => state = "START_TESTCASE"
         /\ state' = "RESOLVE_MIXNET_CONNS" => state = "START_MIXNET_CLIENTS" /\ e = "NONE"
         /\ state' = "START_TESTCASE" => state = "RESOLVE_MIXNET_CONNS"
         /\ state' = "END_TESTCASE" => state \in {"START_TESTCASE", "RUN_TESTCASE"}
         /\ state' \in Over /\ e = "NONE" => \/ state = "END_TESTCASE" /\ state' = "SHUTDOWN"
                                             \/ state = "SHUTDOWN" /\ state' = "RESET"
         /\ state' = "FORCEFUL_SHUTDOWN" => e # "NONE"
         /\ state' \in {"RESET", "DONE"} => state = "SHUTDOWN" /\ e = "NONE" /\ state' = "RESET"
         /\ state \in Over => state' \in Over
<1>1. /\ step' = 1 /\ error' = "NONE" /\ pending' = {} /\ op' = 0
      /\ exit_code' = FirstError(exit_code, e)
      /\ e = "NONE" => state' = OnSuccess(state)
      /\ e # "NONE" => state' = OnError(state)
  BY DEF FinishState
<1>2. exit_code' \in Error /\ (exit_code' = "NONE" <=> exit_code = "NONE" /\ e = "NONE")
  BY <1>1, FirstErrorIs DEF TypeOK
<1>3. state \in {"SETUP_CTRL", "SETUP_PCAP", "TOPOLOGY", "START_MIXNET_SERVER",
                 "START_MIXNET_CLIENTS", "RESOLVE_MIXNET_CONNS", "START_TESTCASE", "END_TESTCASE",
                 "SHUTDOWN", "RUN_TESTCASE"}
  BY RoundIs
<1>4. CASE e = "NONE"
  <2>1. /\ state = "SETUP_CTRL" => state' = "SETUP_PCAP"
        /\ state = "SETUP_PCAP" => state' = "TOPOLOGY"
        /\ state = "TOPOLOGY" => state' = "START_MIXNET_SERVER"
        /\ state = "START_MIXNET_SERVER" => state' = "START_MIXNET_CLIENTS"
        /\ state = "START_MIXNET_CLIENTS" => state' = "RESOLVE_MIXNET_CONNS"
        /\ state = "RESOLVE_MIXNET_CONNS" => state' = "START_TESTCASE"
        /\ state = "START_TESTCASE" => state' = "RUN_TESTCASE"
        /\ state = "RUN_TESTCASE" => state' = "END_TESTCASE"
        /\ state = "END_TESTCASE" => state' = "SHUTDOWN"
        /\ state = "SHUTDOWN" => state' = "RESET"
    BY <1>1, <1>4, NextRoundIs DEF OnSuccess
  <2> QED
    BY <1>1, <1>2, <1>3, <1>4, <2>1, RankIs, RoundIs DEF Over, AnyState
<1>5. CASE e # "NONE"
  <2>1. /\ state = "SETUP_CTRL" => state' = "FORCEFUL_SHUTDOWN"
        /\ state \in {"SETUP_PCAP", "TOPOLOGY", "START_MIXNET_SERVER", "START_MIXNET_CLIENTS",
                      "RESOLVE_MIXNET_CONNS", "END_TESTCASE"} => state' = "SHUTDOWN"
        /\ state \in {"START_TESTCASE", "RUN_TESTCASE"} => state' = "END_TESTCASE"
        /\ state = "SHUTDOWN" => state' = "FORCEFUL_SHUTDOWN"
    BY <1>1, <1>5 DEF OnError
  <2> QED
    BY <1>1, <1>2, <1>3, <1>5, <2>1, RankIs, RoundIs DEF Over, AnyState
<1> QED
  BY <1>4, <1>5

\* A send that does not end its state begins the receive of the answers.
LEMMA AfterSend ==
  ASSUME TypeOK, Steps, Does("send"), NEW e \in Error, FinishStep(e)
  PROVE  \/ FinishState(e) /\ (e = "NONE" => state \in {"SETUP_CTRL", "SETUP_PCAP"})
         \/ /\ state # "SETUP_CTRL" /\ step = 1 /\ step' = 2
            /\ pending' = Fragment /\ error' = "NONE" /\ UNCHANGED <<state, exit_code, op>>
<1>1. InRound /\ state \in Round
  BY DEF Does, InRound
<1>2. Len(Program(state)) = IF state = "SETUP_PCAP" THEN 4 ELSE 2
  BY <1>1, DoesIs
<1>3. \/ state = "SETUP_CTRL" /\ step = 2
      \/ state = "SETUP_PCAP" /\ step \in {1, 4}
      \/ state \notin {"SETUP_CTRL", "SETUP_PCAP"} /\ step = 1
  BY DoesIs
<1>4. CASE step = Len(Program(state)) \/ (e # "NONE" /\ ~(state = "SHUTDOWN" /\ step = 1))
  <2>1. FinishState(e)
    BY <1>4 DEF FinishStep
  <2>2. e = "NONE" => state \in {"SETUP_CTRL", "SETUP_PCAP"}
    BY <1>2, <1>3, <1>4
  <2> QED
    BY <2>1, <2>2
<1>5. CASE ~(step = Len(Program(state)) \/ (e # "NONE" /\ ~(state = "SHUTDOWN" /\ step = 1)))
  <2>1. state # "SETUP_CTRL" /\ step = 1
    BY <1>2, <1>3, <1>5
  <2>2. /\ step' = step + 1 /\ error' = "NONE" /\ UNCHANGED <<state, exit_code, op>>
        /\ pending' = IF Program(state)[step + 1][1] = "recv" THEN Fragment ELSE {}
    BY <1>5 DEF FinishStep
  <2>3. Program(state)[2][1] = "recv"
    BY <1>1, <2>1, ProgramIs
  <2> QED
    BY <2>1, <2>2, <2>3
<1> QED
  BY <1>4, <1>5

LEMMA AfterReceive ==
  ASSUME TypeOK, Steps, Does("recv"), NEW e \in Error, FinishStep(e)
  PROVE  \/ FinishState(e)
         \/ /\ e = "NONE" /\ step' = step + 1
            /\ (state = "SETUP_CTRL" /\ step = 1) \/ (state = "SETUP_PCAP" /\ step \in {2, 3})
            /\ pending' \in {{}, Fragment} /\ error' = "NONE" /\ UNCHANGED <<state, exit_code, op>>
<1>1. InRound
  BY DEF Does
<1>2. CASE ~FinishState(e)
  <2>1. /\ step' = step + 1 /\ error' = "NONE" /\ UNCHANGED <<state, exit_code, op>>
        /\ pending' = IF Program(state)[step + 1][1] = "recv" THEN Fragment ELSE {}
        /\ step # Len(Program(state)) /\ ~(e # "NONE" /\ ~(state = "SHUTDOWN" /\ step = 1))
    BY <1>2 DEF FinishStep
  <2>2. (state = "SETUP_CTRL" /\ step = 1) \/ (state = "SETUP_PCAP" /\ step \in {2, 3})
    BY <1>1, <2>1, DoesIs
  <2> QED
    BY <2>1, <2>2
<1> QED
  BY <1>2

\* A step that leaves the state: every message was of it or of an earlier state, and a
\* success is one of all fragments.
LEMMA LeaveKeeps ==
  ASSUME IInv, NEW e \in Error, state \in Round \cup {"RUN_TESTCASE"}, FinishState(e),
         UNCHANGED <<fragVars, pids, autotest>>,
         \A p \in Plane, g \in Fragment : \A m \in Asked(p, g)' : m \in Asked(p, g) \/ m.type = state,
         \A p \in Plane, g \in Fragment : Told(p, g)' \subseteq Told(p, g),
         e = "NONE" /\ state = "START_MIXNET_CLIENTS" => \A g \in Fragment : connected[g],
         e = "NONE" /\ state = "END_TESTCASE" => \A g \in Fragment : Ended(g),
         e = "NONE" /\ state = "SHUTDOWN" =>
            (\A g \in Fragment : fstate[g] = "DONE") /\ (autotest => pids = {})
  PROVE  /\ Steps' /\ Numbers' /\ Ops' /\ Connected' /\ NetworkBeforeNodes' /\ Ending' /\ Killing'
<1>0. TypeOK /\ Channels /\ Numbers /\ Connected /\ NetworkBeforeNodes /\ Ending /\ Killing
      /\ "ctrl" \in Plane /\ Plane = {"ctrl", "pcap"}
  BY DEF IInv, Plane
<1>1. /\ step' = 1 /\ error' = "NONE" /\ pending' = {} /\ op' = 0
      /\ exit_code' = "NONE" <=> exit_code = "NONE" /\ e = "NONE"
      /\ state' \in AnyState /\ Rank(state') > Rank(state)
      /\ state' = "RUN_TESTCASE" => state = "START_TESTCASE"
      /\ state' = "RESOLVE_MIXNET_CONNS" => state = "START_MIXNET_CLIENTS" /\ e = "NONE"
      /\ state' = "START_TESTCASE" => state = "RESOLVE_MIXNET_CONNS"
      /\ state' = "END_TESTCASE" => state \in {"START_TESTCASE", "RUN_TESTCASE"}
      /\ state' \in Over /\ e = "NONE" => \/ state = "END_TESTCASE" /\ state' = "SHUTDOWN"
                                          \/ state = "SHUTDOWN" /\ state' = "RESET"
      /\ state' = "FORCEFUL_SHUTDOWN" => e # "NONE"
      /\ state' \in {"RESET", "DONE"} => state = "SHUTDOWN" /\ e = "NONE" /\ state' = "RESET"
      /\ state \in Over => state' \in Over
  BY <1>0, FinishIs
<1>2. /\ Rank(state) \in Nat /\ Rank(state') \in Nat
      /\ \A t \in Types : Rank(t) \in Nat
  BY <1>1, RankIsNat DEF AnyState, Types
<1>3. UNCHANGED <<fstate, fstep, life, thread, connected>>
  BY DEF fragVars
<1>4. ASSUME NEW p \in Plane, NEW g \in Fragment, NEW m \in Asked(p, g)' \cup Told(p, g)'
      PROVE  m.type \in Types \cup {"RUN_TESTCASE"} /\ Rank(m.type) \in Nat /\ Rank(m.type) <= Rank(state)
  <2>1. CASE m \in Asked(p, g) \cup Told(p, g)
    <3>1. m.type \in Types
      BY <1>0, <2>1, HeadType DEF RequestType, ResponseType
    <3> QED
      BY <1>0, <1>2, <2>1, <3>1 DEF Numbers
  <2>2. CASE m.type = state
    BY <1>2, <2>2 DEF Types
  <2> QED
    BY <1>4, <2>1, <2>2
<1>5. Steps'
  <2>1. 1 \in 1 .. Len(Program(state'))  \/ state' \notin Round
    <3>1. state' \in Round => Len(Program(state')) \in {2, 4}
      BY ProgramIs
    <3> QED
      BY <3>1
  <2> QED
    BY <1>1, <2>1 DEF Steps, InRound
<1>6. Numbers'
  <2>1. ASSUME NEW p \in Plane, NEW g \in Fragment, NEW m \in Asked(p, g)' \cup Told(p, g)'
        PROVE  Rank(m.type) <= Rank(state') /\ m.type # state'
    BY <1>1, <1>2, <1>4, <2>1
  <2> QED
    BY <2>1 DEF Numbers
<1>7. Ops'
  <2>1. ASSUME state' = "RUN_TESTCASE", NEW g \in Fragment
        PROVE  /\ NoOp(to["ctrl"][g])' /\ NoOp(from["ctrl"][g])'
               /\ \A m \in Asked("ctrl", g)' \cup Told("ctrl", g)' : m.type # "OP"
    <3>1. Rank(state) = 7
      BY <1>1, <2>1, RankIs
    <3>2. ASSUME NEW m \in Asked("ctrl", g)' \cup Told("ctrl", g)' PROVE m.type # "OP"
      BY <1>0, <1>4, <3>1, RankIs
    <3> QED
      BY <3>2 DEF NoOp, Asked, Told
  <2>2. ASSUME state' = "RUN_TESTCASE", NEW g \in Fragment
        PROVE  OneOp(to["ctrl"][g])' /\ OneOp(from["ctrl"][g])'
    BY <2>1, <2>2, NoOpOne
  <2> QED
    BY <1>1, <2>1, <2>2 DEF Ops
<1>8. Connected'
  <2>1. /\ \A f \in Fragment : fstep'[f] = "accept" => connected'[f]
        /\ \A f \in Fragment : \A m \in Told("ctrl", f)' :
             m.type = "START_MIXNET_CLIENTS" => connected'[f]
    BY <1>0, <1>3 DEF Connected
  <2>2. state' \in {"RESOLVE_MIXNET_CONNS", "START_TESTCASE", "RUN_TESTCASE", "END_TESTCASE"} =>
          \A f \in Fragment : connected'[f]
    BY <1>0, <1>1, <1>3 DEF Connected
  <2>3. \A f \in Fragment : \A m \in Asked("ctrl", f)' : m.type = "START_TESTCASE" =>
           \A g \in Fragment : connected'[g]
    BY <1>0, <1>3 DEF Connected
  <2> QED
    BY <1>1, <2>1, <2>2, <2>3 DEF Connected
<1>9. NetworkBeforeNodes'
  BY <1>0, <1>3 DEF NetworkBeforeNodes
<1>10. Ending'
  <2>1. /\ \A f \in Fragment : fstate'[f] = "RUN_TESTCASE" => thread'[f] # "none"
        /\ \A f \in Fragment : Ended(f)' => thread'[f] \in {"joined", "exited"}
        /\ \A f \in Fragment : \A m \in Told("ctrl", f)' :
             /\ m.type = "END_TESTCASE" => Ended(f)'
             /\ m.type = "SHUTDOWN" => fstate'[f] = "DONE"
    BY <1>0, <1>3 DEF Ending, Ended
  <2>2. \A f \in Fragment : fstate'[f] = "DONE" => Gone(f)' /\ state' \in Over
    BY <1>0, <1>1, <1>3 DEF Ending, Gone
  <2>3. state' \in Over /\ exit_code' = "NONE" => \A f \in Fragment : Ended(f)'
    BY <1>1, <1>3 DEF Ended
  <2>4. state' = "FORCEFUL_SHUTDOWN" => exit_code' # "NONE"
    BY <1>1
  <2>5. state' \in {"RESET", "DONE"} /\ exit_code' = "NONE" => \A f \in Fragment : fstate'[f] = "DONE"
    BY <1>1, <1>3
  <2> QED
    BY <1>1, <2>1, <2>2, <2>3, <2>4, <2>5 DEF Ending
<1>11. Killing'
  <2>1. \A f \in Fragment : (Gone(f)' <=> Gone(f)) /\ life'[f] = life[f]
    BY <1>3 DEF Gone
  <2>2. autotest /\ state' \in {"RESET", "DONE"} => \A f \in Fragment : Gone(f)
    BY <1>0, <1>1 DEF Killing
  <2> QED
    BY <1>0, <1>1, <2>1, <2>2 DEF Killing
<1> QED
  BY <1>5, <1>6, <1>7, <1>8, <1>9, <1>10, <1>11

\* Requests are added behind the one a fragment is at work on.
LEMMA HoldingStays ==
  ASSUME IInv, UNCHANGED fragVars,
         \A g \in Fragment : \/ to'["ctrl"][g] = to["ctrl"][g]
                             \/ \E x \in RequestType : to'["ctrl"][g] = Append(to["ctrl"][g], x)
  PROVE  Holding'
<1>1. ASSUME NEW g \in Fragment PROVE Holds(g)'
  <2>1. Holds(g) /\ fstate' = fstate /\ fstep' = fstep /\ Channels /\ "ctrl" \in Plane
    BY OwnFacts DEF fragVars, IInv, Plane
  <2>2. \A t : First(g, t) => First(g, t)'
    <3>1. CASE to'["ctrl"][g] = to["ctrl"][g]
      BY <3>1 DEF First
    <3>2. CASE to'["ctrl"][g] # to["ctrl"][g]
      <4>1. PICK x \in RequestType : to'["ctrl"][g] = Append(to["ctrl"][g], x)
        BY <3>2
      <4>2. to["ctrl"][g] # <<>> =>
              /\ Append(to["ctrl"][g], x) # <<>>
              /\ Head(Append(to["ctrl"][g], x)) = Head(to["ctrl"][g])
        BY <2>1, HeadType, HeadAppend
      <4> QED
        BY <4>1, <4>2 DEF First
    <3> QED
      BY <3>1, <3>2
  <2> QED
    BY <2>1, <2>2 DEF Holds
<1> QED
  BY <1>1 DEF Holding, Holds, First

-----------------------------------------------------------------------------
(* The steps of the orchestrator keep the invariant *)

\* A round of requests: each queue gets the new request or nothing.
LEMMA SendIs ==
  ASSUME IInv, NEW k \in Fragment, NEW broken \in BOOLEAN, SendRound(k, broken)
  PROVE  /\ Request(state, request + 1) \in RequestType
         /\ ToType'
         /\ \A p \in Plane, g \in Fragment :
              \/ to'[p][g] = to[p][g]
              \/ to'[p][g] = Append(to[p][g], Request(state, request + 1))
         /\ \A p \in Plane, g \in Fragment :
              Asked(p, g)' \subseteq Asked(p, g) \cup {Request(state, request + 1)}
<1>1. TypeOK /\ Steps /\ Channels /\ InRound /\ request \in Nat
  BY DEF IInv, SendRound, Does, TypeOK
<1> DEFINE x == Request(state, request + 1)
           P == OnPlane
<1>2. x \in RequestType
  BY <1>1 DEF Request, RequestType, Types, InRound
<1>3. P \in Plane
  BY <1>1, DoesIs DEF Plane
<1>4. to' = [to EXCEPT ![P] = [f \in Fragment |->
               IF f <= k /\ ~Gone(f) THEN Append(to[P][f], x) ELSE to[P][f]]]
  BY DEF SendRound
<1> HIDE DEF x, P
<1>5. \A g \in Fragment : Append(to[P][g], x) \in Seq(RequestType) /\ to[P][g] \in Seq(RequestType)
  BY <1>1, <1>2, <1>3, HeadType, AppendProperties
<1>6. to \in [Plane -> [Fragment -> Seq(RequestType)]]
  BY <1>1 DEF Channels
<1>7. ToType'
  BY <1>3, <1>4, <1>5, <1>6 DEF ToType
<1>8. ASSUME NEW p \in Plane, NEW g \in Fragment
      PROVE  to'[p][g] = to[p][g] \/ to'[p][g] = Append(to[p][g], x)
  BY <1>3, <1>4, <1>6
<1>9. ASSUME NEW p \in Plane, NEW g \in Fragment
      PROVE  Asked(p, g)' \subseteq Asked(p, g) \cup {x}
  <2>1. In(Append(to[p][g], x)) = In(to[p][g]) \cup {x}
    BY <1>1, <1>2, HeadType, InAppend
  <2> QED
    BY <1>8, <2>1 DEF Asked
<1> QED
  BY <1>2, <1>7, <1>8, <1>9 DEF x

\* Steps of the orchestrator alone, without a process.
OrchType ==
  /\ state \in AnyState /\ step \in 1 .. 4 /\ pending \subseteq Fragment
  /\ error \in Error /\ exit_code \in Error
  /\ request \in Nat /\ op \in 0 .. N /\ ops_left \in 0 .. MaxOps /\ pids \subseteq Fragment

LEMMA OrchTypes ==
  ASSUME TypeOK, OrchType', UNCHANGED <<fragVars, autotest, faults_left>>, late' \in BOOLEAN
  PROVE  TypeOK'
  BY DEF TypeOK, OrchType, fragVars, AnyState

LEMMA ToldSame ==
  ASSUME UNCHANGED from
  PROVE  \A p \in Plane, g \in Fragment : Told(p, g)' = Told(p, g)
  BY DEF Told

LEMMA AskedSame ==
  ASSUME UNCHANGED to
  PROVE  \A p \in Plane, g \in Fragment : Asked(p, g)' = Asked(p, g)
  BY DEF Asked

LEMMA SendRoundKeeps ==
  ASSUME IInv, NEW k \in Fragment, NEW broken \in BOOLEAN, SendRound(k, broken)
  PROVE  IInv'
<1> DEFINE e == IF broken THEN "CONNECTION_BROKEN" ELSE IF k < N THEN "TIMEOUT" ELSE "NONE"
           x == Request(state, request + 1)
<1>1. TypeOK /\ Steps /\ Channels /\ Numbers /\ Ops /\ Connected /\ NetworkBeforeNodes /\ Ending
      /\ Killing /\ "ctrl" \in Plane
  BY DEF IInv, Plane
<1>2. /\ Does("send") /\ state \in Round /\ state # "RUN_TESTCASE" /\ e \in Error /\ FinishStep(e)
      /\ request' = request + 1 /\ UNCHANGED <<ops_left, pids, fragVars, from>>
      /\ Premature(k < N)
  BY RoundIs DEF SendRound, Does, InRound, Error
<1> HIDE DEF e
<1>3. late' \in BOOLEAN /\ UNCHANGED <<autotest, faults_left>>
  BY <1>1, <1>2 DEF Premature, TypeOK
<1>4. x \in RequestType /\ x.type = state /\ x.number = request + 1
  BY SendIs DEF Request
<1>5. /\ ToType'
      /\ \A p \in Plane, g \in Fragment :
           to'[p][g] = to[p][g] \/ to'[p][g] = Append(to[p][g], x)
      /\ \A p \in Plane, g \in Fragment : Asked(p, g)' \subseteq Asked(p, g) \cup {x}
  BY SendIs
<1> HIDE DEF x
<1>6. Channels'
  BY <1>1, <1>2, <1>5 DEF Channels, ToType
<1>7. Holding'
  BY <1>1, <1>2, <1>4, <1>5, HoldingStays
<1>8. \A p \in Plane, g \in Fragment : Told(p, g)' = Told(p, g)
  BY <1>2, ToldSame
<1>9. CASE FinishState(e) /\ (e = "NONE" => state \in {"SETUP_CTRL", "SETUP_PCAP"})
  <2>1. Steps' /\ Numbers' /\ Ops' /\ Connected' /\ NetworkBeforeNodes' /\ Ending' /\ Killing'
    BY <1>2, <1>3, <1>4, <1>5, <1>8, <1>9, LeaveKeeps
  <2>2. OrchType'
    <3>1. /\ step' = 1 /\ error' = "NONE" /\ pending' = {} /\ op' = 0
          /\ exit_code' \in Error /\ state' \in AnyState
      BY <1>1, <1>2, <1>9, FinishIs
    <3> QED
      BY <1>1, <1>2, <3>1, ConstantAssumption DEF OrchType, TypeOK, Error
  <2>3. TypeOK'
    BY <1>1, <1>2, <1>3, <2>2, OrchTypes
  <2> QED
    BY <1>6, <1>7, <2>1, <2>3 DEF IInv
<1>10. CASE /\ state # "SETUP_CTRL" /\ step = 1 /\ step' = 2
            /\ pending' = Fragment /\ error' = "NONE" /\ UNCHANGED <<state, exit_code, op>>
  <2>1. TypeOK'
    <3>1. OrchType'
      BY <1>1, <1>2, <1>10 DEF OrchType, TypeOK, Error, AnyState
    <3> QED
      BY <1>1, <1>2, <1>3, <3>1, OrchTypes
  <2>2. Steps'
    <3>1. InRound /\ Len(Program(state)) \in {2, 4}
      BY <1>1, <1>2, DoesIs DEF InRound
    <3> QED
      BY <1>10, <3>1 DEF Steps, InRound
  <2>3. Numbers'
    <3>1. ASSUME NEW p \in Plane, NEW g \in Fragment, NEW m \in Asked(p, g)' \cup Told(p, g)'
          PROVE  Rank(m.type) <= Rank(state) /\ (m.type = state => m.number = request + 1)
      <4>1. CASE m = x
        BY <1>2, <1>4, <4>1, RankIsNat DEF Types
      <4>2. CASE m \in Asked(p, g) \cup Told(p, g)
        BY <1>1, <1>10, <4>2 DEF Numbers
      <4> QED
        BY <1>5, <1>8, <3>1, <4>1, <4>2
    <3> QED
      BY <1>2, <1>10, <3>1 DEF Numbers
  <2>4. Ops'
    BY <1>1, <1>2, <1>10 DEF Ops
  <2>5. Connected'
    <3>1. UNCHANGED <<fstep, connected>>
      BY <1>2 DEF fragVars
    <3>2. \A f \in Fragment : \A m \in Asked("ctrl", f)' : m.type = "START_TESTCASE" =>
             \A g \in Fragment : connected'[g]
      BY <1>1, <1>4, <1>5, <3>1 DEF Connected
    <3>3. \A f \in Fragment : \A m \in Told("ctrl", f)' :
             m.type = "START_MIXNET_CLIENTS" => connected'[f]
      BY <1>1, <1>8, <3>1 DEF Connected
    <3> QED
      BY <1>1, <1>10, <3>1, <3>2, <3>3 DEF Connected
  <2>6. NetworkBeforeNodes'
    BY <1>1, <1>2 DEF NetworkBeforeNodes, fragVars
  <2>7. Ending'
    <3>1. UNCHANGED <<fstate, life, thread>>
      BY <1>2 DEF fragVars
    <3> QED
      BY <1>1, <1>8, <1>10, <3>1 DEF Ending, Ended, Gone
  <2>8. Killing'
    BY <1>1, <1>2, <1>3, <1>10 DEF Killing, Gone, fragVars, TypeOK
  <2> QED
    BY <1>6, <1>7, <2>1, <2>2, <2>3, <2>4, <2>5, <2>6, <2>7, <2>8 DEF IInv
<1> QED
  BY <1>1, <1>2, <1>9, <1>10, AfterSend

\* An answer, or the end of a connection, is taken note of.
LEMMA ReceiveKeeps ==
  ASSUME IInv, NEW f \in Fragment, ReceiveResponse(f) \/ ReceiveEnd(f)
  PROVE  IInv'
<1>1. TypeOK /\ Steps /\ Channels /\ Numbers /\ Ops /\ Connected /\ NetworkBeforeNodes /\ Ending
      /\ Killing /\ "ctrl" \in Plane
  BY DEF IInv, Plane
<1>2. /\ Does("recv") /\ state \in Round /\ state # "RUN_TESTCASE" /\ f \in pending
      /\ pending' = pending \ {f}
      /\ UNCHANGED <<state, step, exit_code, request, op, ops_left, fragVars, to, autotest, late,
                     faults_left>>
  BY RoundIs DEF ReceiveResponse, ReceiveEnd, Does, InRound, envVars
<1> DEFINE p == OnPlane
           m == Head(from[p][f])
<1>3. p \in Plane /\ (state \in {"START_MIXNET_CLIENTS", "END_TESTCASE", "SHUTDOWN"} => p = "ctrl")
  BY <1>1, <1>2, DoesIs DEF Plane, InRound
<1> HIDE DEF p
<1>4. /\ FromType' /\ error' \in Error /\ pids' \subseteq pids
      /\ \A q \in Plane, g \in Fragment : Told(q, g)' \subseteq Told(q, g)
      /\ error' = "NONE" => error = "NONE" /\ m \in Told(p, f) /\ m.type = state
      /\ pids' # pids => pids' = pids \ {f} /\ m \in Told(p, f) /\ m.type = "SHUTDOWN" /\ state = "SHUTDOWN"
      /\ error' = "NONE" /\ state = "SHUTDOWN" => pids' = pids \ {f}
  <2>1. CASE ReceiveResponse(f)
    <3> DEFINE e == Check(m, state)
    <3>1. /\ from[p][f] # <<>> /\ error' = FirstError(error, e)
          /\ pids' = IF state = "SHUTDOWN" /\ e = "NONE" THEN pids \ {f} ELSE pids
          /\ from' = [from EXCEPT ![p][f] = Tail(from[p][f])]
      BY <2>1 DEF ReceiveResponse, p
    <3>2. e \in Error /\ (e = "NONE" => m.type = state)
      BY DEF Check, Error
    <3>3. /\ m \in Told(p, f) /\ Tail(from[p][f]) \in Seq(ResponseType)
          /\ In(Tail(from[p][f])) \subseteq Told(p, f)
      BY <1>1, <1>3, <3>1, HeadType
    <3> HIDE DEF e, m
    <3> DEFINE t == Tail(from[p][f])
    <3>4. from' = [from EXCEPT ![p][f] = t] /\ t \in Seq(ResponseType) /\ In(t) \subseteq Told(p, f)
      BY <3>1, <3>3
    <3> HIDE DEF t
    <3>5. from \in [Plane -> [Fragment -> Seq(ResponseType)]]
      BY <1>1 DEF Channels
    <3>6. FromType'
      BY <1>3, <3>4, <3>5 DEF FromType
    <3>7. \A q \in Plane, g \in Fragment : Told(q, g)' \subseteq Told(q, g)
      <4>1. ASSUME NEW q \in Plane, NEW g \in Fragment
            PROVE  from'[q][g] = from[q][g] \/ (q = p /\ g = f /\ from'[q][g] = t)
        BY <1>3, <3>4, <3>5
      <4> QED
        BY <3>4, <4>1 DEF Told
    <3>8. error' \in Error /\ (error' = "NONE" <=> error = "NONE" /\ e = "NONE")
      BY <1>1, <3>1, <3>2, FirstErrorIs DEF TypeOK
    <3> QED
      BY <3>1, <3>2, <3>3, <3>6, <3>7, <3>8
  <2>2. CASE ReceiveEnd(f)
    <3>1. error' = FirstError(error, "CONNECTION_BROKEN") /\ UNCHANGED pids /\ UNCHANGED from
      BY <2>2 DEF ReceiveEnd
    <3>2. error' \in Error /\ error' # "NONE"
      BY <1>1, <3>1, FirstErrorIs DEF TypeOK, Error
    <3>3. FromType'
      BY <1>1, <3>1 DEF Channels, FromType
    <3> QED
      BY <3>1, <3>2, <3>3, ToldSame
  <2> QED
    BY <2>1, <2>2
<1> HIDE DEF m
<1>5. \A q \in Plane, g \in Fragment : Asked(q, g)' = Asked(q, g)
  BY <1>2, AskedSame
<1>6. UNCHANGED <<fstate, fstep, life, thread, connected>>
  BY <1>2 DEF fragVars
<1>7. TypeOK'
  <2>1. OrchType'
    BY <1>1, <1>2, <1>4 DEF OrchType, TypeOK, AnyState
  <2> QED
    BY <1>1, <1>2, <2>1, OrchTypes DEF TypeOK
<1>8. Channels'
  BY <1>1, <1>2, <1>4 DEF Channels, FromType
<1>9. Steps' /\ (Does("recv")' <=> Does("recv"))
  BY <1>1, <1>2 DEF Steps, InRound, Does
<1>10. Holding'
  BY <1>2, HoldingStays
<1>11. Numbers'
  BY <1>1, <1>2, <1>4, <1>5, <1>9 DEF Numbers
<1>12. Ops'
  BY <1>1, <1>2 DEF Ops
<1>13. Connected'
  <2>1. state = "START_MIXNET_CLIENTS" /\ step = 2 /\ error' = "NONE" =>
           \A g \in Fragment \ pending' : connected[g]
    <3>1. SUFFICES ASSUME state = "START_MIXNET_CLIENTS", step = 2, error' = "NONE",
                          NEW g \in Fragment \ pending'
                   PROVE  connected[g]
      OBVIOUS
    <3>2. CASE g = f
      BY <1>1, <1>3, <1>4, <3>1, <3>2 DEF Connected
    <3>3. CASE g # f
      BY <1>1, <1>2, <1>4, <3>1, <3>3 DEF Connected
    <3> QED
      BY <3>2, <3>3
  <2>2. \A g \in Fragment : \A x \in Told("ctrl", g)' :
             x.type = "START_MIXNET_CLIENTS" => connected[g]
    BY <1>1, <1>4 DEF Connected
  <2>3. \A g \in Fragment : \A x \in Asked("ctrl", g)' : x.type = "START_TESTCASE" =>
             \A h \in Fragment : connected[h]
    BY <1>1, <1>5 DEF Connected
  <2> QED
    BY <1>1, <1>2, <1>6, <2>1, <2>2, <2>3 DEF Connected
<1>14. NetworkBeforeNodes'
  BY <1>1, <1>6 DEF NetworkBeforeNodes
<1>15. Ending'
  <2>1. state = "END_TESTCASE" /\ step = 2 /\ error' = "NONE" =>
           \A g \in Fragment \ pending' : Ended(g)
    <3>1. SUFFICES ASSUME state = "END_TESTCASE", step = 2, error' = "NONE",
                          NEW g \in Fragment \ pending'
                   PROVE  Ended(g)
      OBVIOUS
    <3>2. CASE g = f
      BY <1>1, <1>3, <1>4, <3>1, <3>2 DEF Ending
    <3>3. CASE g # f
      BY <1>1, <1>2, <1>4, <3>1, <3>3 DEF Ending
    <3> QED
      BY <3>2, <3>3
  <2>2. state = "SHUTDOWN" /\ step = 2 /\ error' = "NONE" =>
           \A g \in Fragment \ pending' : fstate[g] = "DONE"
    <3>1. SUFFICES ASSUME state = "SHUTDOWN", step = 2, error' = "NONE",
                          NEW g \in Fragment \ pending'
                   PROVE  fstate[g] = "DONE"
      OBVIOUS
    <3>2. CASE g = f
      BY <1>1, <1>3, <1>4, <3>1, <3>2 DEF Ending
    <3>3. CASE g # f
      BY <1>1, <1>2, <1>4, <3>1, <3>3 DEF Ending
    <3> QED
      BY <3>2, <3>3
  <2>3. \A g \in Fragment : \A x \in Told("ctrl", g)' :
             /\ x.type = "END_TESTCASE" => Ended(g)
             /\ x.type = "SHUTDOWN" => fstate[g] = "DONE"
    BY <1>1, <1>4 DEF Ending
  <2>4. \A g \in Fragment : (Ended(g)' <=> Ended(g)) /\ (Gone(g)' <=> Gone(g))
    BY <1>6 DEF Ended, Gone
  <2> QED
    BY <1>1, <1>2, <1>6, <2>1, <2>2, <2>3, <2>4 DEF Ending
<1>16. Killing'
  <2>1. \A g \in Fragment : (Gone(g)' <=> Gone(g)) /\ life'[g] = life[g]
    BY <1>6 DEF Gone
  <2>2. pids' # pids => Gone(f)
    BY <1>1, <1>3, <1>4 DEF Ending
  <2>3. autotest => \A g \in Fragment \ pids' : Gone(g)
    BY <1>1, <1>4, <2>2 DEF Killing
  <2>4. autotest /\ state = "SHUTDOWN" /\ step = 2 /\ error' = "NONE" => pids' \subseteq pending'
    BY <1>1, <1>2, <1>4 DEF Killing
  <2> QED
    BY <1>1, <1>2, <2>1, <2>3, <2>4 DEF Killing
<1> QED
  BY <1>7, <1>8, <1>9, <1>10, <1>11, <1>12, <1>13, <1>14, <1>15, <1>16 DEF IInv

\* The answers of a round are complete, or the time is over.
LEMMA EndReceiveKeeps ==
  ASSUME IInv, EndReceive \/ ReceiveTimeout
  PROVE  IInv'
<1> DEFINE e == IF pending = {} THEN error ELSE FirstError(error, "TIMEOUT")
<1>1. TypeOK /\ Steps /\ Channels /\ Numbers /\ Ops /\ Connected /\ NetworkBeforeNodes /\ Ending
      /\ Killing
  BY DEF IInv
<1>2. /\ Does("recv") /\ state \in Round /\ state # "RUN_TESTCASE" /\ FinishStep(e)
      /\ UNCHANGED <<request, ops_left, pids, fragVars, to, from, autotest, faults_left>>
  BY RoundIs DEF EndReceive, ReceiveTimeout, Does, InRound, envVars, Premature
<1>3. late' \in BOOLEAN
  BY <1>1 DEF EndReceive, ReceiveTimeout, envVars, Premature, TypeOK
<1>4. e \in Error /\ (e = "NONE" => pending = {} /\ error = "NONE")
  BY <1>1, FirstErrorIs DEF TypeOK, Error
<1> HIDE DEF e
<1>5. /\ \A p \in Plane, g \in Fragment : Told(p, g)' = Told(p, g)
      /\ \A p \in Plane, g \in Fragment : Asked(p, g)' = Asked(p, g)
  BY <1>2, ToldSame, AskedSame
<1>6. Channels' /\ Holding'
  BY <1>1, <1>2, HoldingStays DEF Channels
<1>7. CASE FinishState(e)
  <2>1. state \in {"START_MIXNET_CLIENTS", "END_TESTCASE", "SHUTDOWN"} => step = 2
    BY <1>1, <1>2, DoesIs
  <2>2. e = "NONE" /\ state = "START_MIXNET_CLIENTS" => \A g \in Fragment : connected[g]
    BY <1>1, <1>4, <2>1 DEF Connected
  <2>3. e = "NONE" /\ state = "END_TESTCASE" => \A g \in Fragment : Ended(g)
    BY <1>1, <1>4, <2>1 DEF Ending
  <2>4. e = "NONE" /\ state = "SHUTDOWN" =>
            (\A g \in Fragment : fstate[g] = "DONE") /\ (autotest => pids = {})
    BY <1>1, <1>4, <2>1 DEF Ending, Killing
  <2>5. Steps' /\ Numbers' /\ Ops' /\ Connected' /\ NetworkBeforeNodes' /\ Ending' /\ Killing'
    BY <1>2, <1>4, <1>5, <1>7, <2>2, <2>3, <2>4, LeaveKeeps
  <2>6. OrchType'
    <3>1. /\ step' = 1 /\ error' = "NONE" /\ pending' = {} /\ op' = 0
          /\ exit_code' \in Error /\ state' \in AnyState
      BY <1>1, <1>2, <1>4, <1>7, FinishIs
    <3> QED
      BY <1>1, <1>2, <3>1, ConstantAssumption DEF OrchType, TypeOK, Error
  <2>7. TypeOK'
    BY <1>1, <1>2, <1>3, <2>6, OrchTypes
  <2> QED
    BY <1>6, <2>5, <2>7 DEF IInv
<1>8. CASE /\ e = "NONE" /\ step' = step + 1
           /\ (state = "SETUP_CTRL" /\ step = 1) \/ (state = "SETUP_PCAP" /\ step \in {2, 3})
           /\ pending' \in {{}, Fragment} /\ error' = "NONE" /\ UNCHANGED <<state, exit_code, op>>
  <2>1. UNCHANGED <<fstate, fstep, life, thread, connected>>
    BY <1>2 DEF fragVars
  <2>2. TypeOK'
    <3>1. OrchType'
      BY <1>1, <1>2, <1>8 DEF OrchType, TypeOK, Error, AnyState
    <3> QED
      BY <1>1, <1>2, <1>3, <3>1, OrchTypes
  <2>3. Steps'
    <3>1. InRound /\ Len(Program(state)) = IF state = "SETUP_PCAP" THEN 4 ELSE 2
      BY <1>1, <1>2, DoesIs DEF InRound
    <3> QED
      BY <1>8, <3>1 DEF Steps, InRound
  <2>4. Numbers'
    BY <1>1, <1>2, <1>5, <1>8 DEF Numbers
  <2>5. Ops'
    BY <1>1, <1>2, <1>8 DEF Ops
  <2>6. Connected'
    BY <1>1, <1>5, <1>8, <2>1 DEF Connected, Plane
  <2>7. NetworkBeforeNodes'
    BY <1>1, <2>1 DEF NetworkBeforeNodes
  <2>8. Ending'
    BY <1>1, <1>5, <1>8, <2>1 DEF Ending, Ended, Gone, Plane, Over
  <2>9. Killing'
    BY <1>1, <1>2, <1>8, <2>1 DEF Killing, Gone
  <2> QED
    BY <1>6, <2>2, <2>3, <2>4, <2>5, <2>6, <2>7, <2>8, <2>9 DEF IInv
<1> QED
  BY <1>1, <1>2, <1>4, <1>7, <1>8, AfterReceive

\* The test case's own requests.
LEMMA StartOpKeeps ==
  ASSUME IInv, NEW f \in Fragment, StartOp(f)
  PROVE  IInv'
<1> DEFINE x == Request("OP", request + 1)
<1>1. TypeOK /\ Steps /\ Channels /\ Numbers /\ Ops /\ Connected /\ NetworkBeforeNodes /\ Ending
      /\ Killing /\ "ctrl" \in Plane
  BY DEF IInv, Plane
<1>2. /\ state = "RUN_TESTCASE" /\ op = 0 /\ ops_left > 0 /\ ops_left' = ops_left - 1
      /\ request' = request + 1 /\ op' = f
      /\ to' = to \/ to' = [to EXCEPT !["ctrl"][f] = Append(to["ctrl"][f], x)]
      /\ UNCHANGED <<state, step, pending, error, exit_code, pids, fragVars, from, autotest, late,
                     faults_left>>
  BY DEF StartOp, envVars
<1>3. x \in RequestType /\ x.type = "OP" /\ x.number = request + 1
  BY <1>1 DEF Request, RequestType, Types, TypeOK
<1> HIDE DEF x
<1>4. /\ ToType'
      /\ \A p \in Plane, g \in Fragment :
           to'[p][g] = to[p][g] \/ (p = "ctrl" /\ g = f /\ to'[p][g] = Append(to[p][g], x))
  <2>1. Append(to["ctrl"][f], x) \in Seq(RequestType)
    BY <1>1, <1>3, HeadType, AppendProperties
  <2> DEFINE t == Append(to["ctrl"][f], x)
  <2> HIDE DEF t
  <2>2. to' = to \/ to' = [to EXCEPT !["ctrl"][f] = t]
    BY <1>2 DEF t
  <2>3. to \in [Plane -> [Fragment -> Seq(RequestType)]] /\ t \in Seq(RequestType)
    BY <1>1, <2>1 DEF Channels, t
  <2>4. ToType'
    <3>1. CASE to' = to
      BY <2>3, <3>1 DEF ToType
    <3>2. CASE to' = [to EXCEPT !["ctrl"][f] = t]
      BY <1>1, <2>3, <3>2 DEF ToType
    <3> QED
      BY <2>2, <3>1, <3>2
  <2>5. \A p \in Plane, g \in Fragment : to'[p][g] = to[p][g] \/ (p = "ctrl" /\ g = f /\ to'[p][g] = t)
    BY <1>1, <2>2, <2>3
  <2> QED
    BY <2>4, <2>5 DEF t
<1>5. \A p \in Plane, g \in Fragment : Told(p, g)' = Told(p, g)
  BY <1>2, ToldSame
<1>6. ASSUME NEW p \in Plane, NEW g \in Fragment
      PROVE  Asked(p, g)' \subseteq Asked(p, g) \cup {x}
  <2>1. In(Append(to[p][g], x)) = In(to[p][g]) \cup {x}
    BY <1>1, <1>3, HeadType, InAppend
  <2>2. to'[p][g] = to[p][g] \/ to'[p][g] = Append(to[p][g], x)
    BY <1>4
  <2> QED
    BY <2>1, <2>2 DEF Asked
<1>7. UNCHANGED <<fstate, fstep, life, thread, connected>>
  BY <1>2 DEF fragVars
<1>8. TypeOK'
  <2>1. OrchType'
    BY <1>1, <1>2, ConstantAssumption DEF OrchType, TypeOK, AnyState, Fragment
  <2> QED
    BY <1>1, <1>2, <2>1, OrchTypes DEF TypeOK
<1>9. Channels'
  BY <1>1, <1>2, <1>4 DEF Channels, ToType
<1>10. Steps' /\ ~InRound /\ ~Does("recv")'
  BY <1>1, <1>2, RoundIs DEF Steps, InRound, Does
<1>11. Holding'
  BY <1>1, <1>2, <1>3, <1>4, HoldingStays
<1>12. Numbers'
  <2>1. ASSUME NEW p \in Plane, NEW g \in Fragment, NEW m \in Asked(p, g)' \cup Told(p, g)'
        PROVE  Rank(m.type) <= Rank(state) /\ m.type # state
    <3>1. CASE m = x
      BY <1>2, <1>3, <3>1, RankIs
    <3>2. CASE m \in Asked(p, g) \cup Told(p, g)
      <4>1. m.type \in Types
        BY <1>1, <3>2, HeadType DEF RequestType, ResponseType
      <4> QED
        BY <1>1, <1>2, <3>2, <4>1, RoundIs DEF Numbers, Types
    <3> QED
      BY <1>5, <1>6, <2>1, <3>1, <3>2
  <2> QED
    BY <1>2, <2>1 DEF Numbers
<1>13. Ops'
  <2>1. ASSUME NEW g \in Fragment
        PROVE  /\ f # g => NoOp(to["ctrl"][g])' /\ NoOp(from["ctrl"][g])'
               /\ OneOp(to["ctrl"][g])' /\ OneOp(from["ctrl"][g])'
               /\ NoOp(from["ctrl"][g])'
               /\ \A m \in Asked("ctrl", g)' \cup Told("ctrl", g)' : m.type = "OP" => m.number = request + 1
    <3>1. /\ NoOp(to["ctrl"][g]) /\ NoOp(from["ctrl"][g]) /\ to["ctrl"][g] \in Seq(RequestType)
          /\ from' = from
      BY <1>1, <1>2, HeadType DEF Ops, Fragment
    <3>2. OneOp(to["ctrl"][g]) /\ OneOp(from["ctrl"][g])
      BY <3>1, NoOpOne
    <3>3. OneOp(Append(to["ctrl"][g], x))
      BY <1>3, <3>1, <3>2, OneOpAppend
    <3>4. OneOp(to["ctrl"][g])' /\ (f # g => NoOp(to["ctrl"][g])')
      BY <1>1, <1>4, <3>1, <3>2, <3>3
    <3>5. \A m \in Asked("ctrl", g) \cup Told("ctrl", g) : m.type # "OP"
      BY <3>1 DEF NoOp, Asked, Told
    <3>6. \A m \in Asked("ctrl", g)' \cup Told("ctrl", g)' : m.type = "OP" => m.number = request + 1
      BY <1>1, <1>3, <1>5, <1>6, <3>5
    <3> QED
      BY <3>1, <3>2, <3>4, <3>6
  <2> QED
    BY <1>2, <2>1 DEF Ops
<1>14. Connected'
  <2>1. \A g \in Fragment : \A m \in Asked("ctrl", g)' : m.type = "START_TESTCASE" =>
             \A h \in Fragment : connected[h]
    BY <1>1, <1>3, <1>6 DEF Connected
  <2>2. \A g \in Fragment : \A m \in Told("ctrl", g)' : m.type = "START_MIXNET_CLIENTS" => connected[g]
    BY <1>1, <1>5 DEF Connected
  <2> QED
    BY <1>1, <1>2, <1>7, <2>1, <2>2 DEF Connected
<1>15. NetworkBeforeNodes'
  BY <1>1, <1>7 DEF NetworkBeforeNodes
<1>16. Ending'
  BY <1>1, <1>2, <1>5, <1>7 DEF Ending, Ended, Gone
<1>17. Killing'
  BY <1>1, <1>2, <1>7 DEF Killing, Gone
<1> QED
  BY <1>8, <1>9, <1>10, <1>11, <1>12, <1>13, <1>14, <1>15, <1>16, <1>17 DEF IInv

\* The test case is over: it failed, or has no more requests.
LEMMA LeaveRunKeeps ==
  ASSUME IInv, state = "RUN_TESTCASE", NEW e \in Error, FinishState(e), FromType',
         \A p \in Plane, g \in Fragment : Told(p, g)' \subseteq Told(p, g),
         UNCHANGED <<request, ops_left, pids, fragVars, to, autotest, faults_left>>, late' \in BOOLEAN
  PROVE  IInv'
<1>1. TypeOK /\ Channels
  BY DEF IInv
<1>2. \A p \in Plane, g \in Fragment : Asked(p, g)' = Asked(p, g)
  BY AskedSame
<1>3. Steps' /\ Numbers' /\ Ops' /\ Connected' /\ NetworkBeforeNodes' /\ Ending' /\ Killing'
  BY <1>2, LeaveKeeps
<1>4. Channels' /\ Holding'
  BY <1>1, HoldingStays DEF Channels, FromType
<1>5. OrchType'
  <2>1. /\ step' = 1 /\ error' = "NONE" /\ pending' = {} /\ op' = 0
        /\ exit_code' \in Error /\ state' \in AnyState
    BY <1>1, FinishIs
  <2> QED
    BY <1>1, <2>1, ConstantAssumption DEF OrchType, TypeOK, Error
<1>6. TypeOK'
  BY <1>1, <1>5, OrchTypes
<1> QED
  BY <1>3, <1>4, <1>6 DEF IInv

LEMMA EndOpKeeps ==
  ASSUME IInv, EndOp
  PROVE  IInv'
<1>1. TypeOK /\ Steps /\ Channels /\ Numbers /\ Ops /\ Connected /\ NetworkBeforeNodes /\ Ending
      /\ Killing /\ "ctrl" \in Plane
  BY DEF IInv, Plane
<1>2. PICK f \in Fragment : f = op
  BY <1>1, ConstantAssumption DEF EndOp, TypeOK, Fragment
<1> DEFINE m == Head(from["ctrl"][f])
           e == Check(m, "OP")
           t == Tail(from["ctrl"][f])
<1>3. /\ state = "RUN_TESTCASE" /\ from["ctrl"][f] # <<>>
      /\ from' = [from EXCEPT !["ctrl"][f] = t]
      /\ e = "NONE" => op' = 0 /\ UNCHANGED <<state, step, pending, error, exit_code>>
      /\ e # "NONE" => FinishState(e)
      /\ UNCHANGED <<request, ops_left, pids, fragVars, to, autotest, late, faults_left>>
  BY <1>2 DEF EndOp, envVars
<1>4. e \in Error /\ (e = "NONE" => m.type = "OP")
  BY DEF Check, Error
<1>5. /\ m \in Told("ctrl", f) /\ t \in Seq(ResponseType) /\ In(t) \subseteq Told("ctrl", f)
      /\ from["ctrl"][f] \in Seq(ResponseType)
  BY <1>1, <1>3, HeadType
<1>6. OneOp(t) /\ (e = "NONE" => NoOp(t))
  BY <1>1, <1>3, <1>4, <1>5, OneOpTail DEF Ops
<1> HIDE DEF e, m, t
<1>7. from \in [Plane -> [Fragment -> Seq(ResponseType)]]
  BY <1>1 DEF Channels
<1>8. FromType'
  BY <1>1, <1>3, <1>5, <1>7 DEF FromType
<1>9. ASSUME NEW q \in Plane, NEW g \in Fragment
      PROVE  /\ from'[q][g] = from[q][g] \/ (q = "ctrl" /\ g = f /\ from'[q][g] = t)
             /\ g = f /\ q = "ctrl" => from'[q][g] = t
  BY <1>1, <1>3, <1>7
<1>10. \A q \in Plane, g \in Fragment : Told(q, g)' \subseteq Told(q, g)
  BY <1>5, <1>9 DEF Told
<1>11. CASE e # "NONE"
  BY <1>1, <1>3, <1>4, <1>8, <1>10, <1>11, LeaveRunKeeps DEF TypeOK
<1>12. CASE e = "NONE"
  <2>1. op' = 0 /\ UNCHANGED <<state, step, pending, error, exit_code>>
    BY <1>3, <1>12
  <2>2. UNCHANGED <<fstate, fstep, life, thread, connected>>
    BY <1>3 DEF fragVars
  <2>3. \A q \in Plane, g \in Fragment : Asked(q, g)' = Asked(q, g)
    BY <1>3, AskedSame
  <2>4. TypeOK'
    <3>1. OrchType'
      BY <1>1, <1>3, <2>1, ConstantAssumption DEF OrchType, TypeOK, AnyState
    <3> QED
      BY <1>1, <1>3, <3>1, OrchTypes DEF TypeOK
  <2>5. Channels' /\ Holding'
    BY <1>1, <1>3, <1>8, HoldingStays DEF Channels, FromType
  <2>6. Steps' /\ (Does("recv")' <=> Does("recv"))
    BY <1>1, <2>1 DEF Steps, InRound, Does
  <2>7. Numbers'
    BY <1>1, <1>3, <1>10, <2>1, <2>3, <2>6 DEF Numbers
  <2>8. Ops'
    <3>1. ASSUME NEW g \in Fragment
          PROVE  /\ NoOp(to["ctrl"][g])' /\ NoOp(from["ctrl"][g])'
                 /\ OneOp(to["ctrl"][g])' /\ OneOp(from["ctrl"][g])'
                 /\ \A x \in Asked("ctrl", g)' \cup Told("ctrl", g)' : x.type = "OP" => x.number = request
      <4>1. NoOp(to["ctrl"][g]) /\ NoOp(from["ctrl"][g])'
        <5>1. CASE g = f
          <6>1. ~NoOp(from["ctrl"][f])
            BY <1>4, <1>5, <1>12 DEF NoOp, Told
          <6> QED
            BY <1>1, <1>3, <1>6, <1>9, <1>12, <5>1, <6>1 DEF Ops
        <5>2. CASE g # f
          BY <1>1, <1>2, <1>3, <1>9, <5>2 DEF Ops
        <5> QED
          BY <5>1, <5>2
      <4>2. NoOp(to["ctrl"][g])'
        BY <1>3, <4>1
      <4>3. OneOp(to["ctrl"][g])' /\ OneOp(from["ctrl"][g])'
        BY <4>1, <4>2, NoOpOne
      <4>4. \A x \in Asked("ctrl", g)' \cup Told("ctrl", g)' : x.type # "OP"
        BY <4>1, <4>2 DEF NoOp, Asked, Told
      <4> QED
        BY <4>1, <4>2, <4>3, <4>4
    <3> QED
      BY <1>3, <2>1, <3>1 DEF Ops
  <2>9. Connected'
    BY <1>1, <1>10, <2>1, <2>2, <2>3 DEF Connected
  <2>10. NetworkBeforeNodes'
    BY <1>1, <2>2 DEF NetworkBeforeNodes
  <2>11. Ending'
    BY <1>1, <1>10, <2>1, <2>2 DEF Ending, Ended, Gone
  <2>12. Killing'
    BY <1>1, <1>3, <2>1, <2>2 DEF Killing, Gone
  <2> QED
    BY <2>4, <2>5, <2>6, <2>7, <2>8, <2>9, <2>10, <2>11, <2>12 DEF IInv
<1> QED
  BY <1>11, <1>12

LEMMA EndRunKeeps ==
  ASSUME IInv, OpFails \/ EndRun
  PROVE  IInv'
<1>1. TypeOK /\ Channels
  BY DEF IInv
<1>2. /\ state = "RUN_TESTCASE"
      /\ FinishState("NONE") \/ FinishState("CONNECTION_BROKEN") \/ FinishState("TIMEOUT")
      /\ UNCHANGED <<request, ops_left, pids, fragVars, to, from, autotest, faults_left>>
  BY DEF OpFails, EndRun, envVars, Premature
<1>3. late' \in BOOLEAN
  BY <1>1 DEF OpFails, EndRun, envVars, Premature, TypeOK
<1>4. PICK e \in Error : FinishState(e)
  BY <1>2 DEF Error
<1>5. FromType'
  BY <1>1, <1>2 DEF Channels, FromType
<1>6. \A p \in Plane, g \in Fragment : Told(p, g)' \subseteq Told(p, g)
  BY <1>2, ToldSame
<1> QED
  BY <1>2, <1>3, <1>4, <1>5, <1>6, LeaveRunKeeps

\* The processes that are left are killed; the connections are closed.
LEMMA LastKeeps ==
  ASSUME IInv, ForcefulShutdown \/ Reset
  PROVE  IInv'
<1>1. TypeOK /\ Steps /\ Channels /\ Numbers /\ Ops /\ Connected /\ NetworkBeforeNodes /\ Ending
      /\ Killing /\ Holding
  BY DEF IInv
<1>2. /\ UNCHANGED <<step, pending, error, exit_code, request, op, ops_left, pids, fstate, fstep, thread,
                     connected, to, from, autotest, late, faults_left>>
      /\ \/ state = "FORCEFUL_SHUTDOWN" /\ state' = "RESET"
         \/ state = "RESET" /\ state' = "DONE"
  BY DEF ForcefulShutdown, Reset, fragVars, envVars
<1>3. /\ life' \in [Fragment -> {"running", "spinning", "exited", "killed"}]
      /\ \A f \in Fragment : /\ life'[f] = "spinning" => life[f] = "spinning"
                             /\ Gone(f) => Gone(f)'
                             /\ state = "FORCEFUL_SHUTDOWN" /\ f \in pids => Gone(f)'
  BY <1>1, <1>2 DEF ForcefulShutdown, Reset, fragVars, TypeOK, Gone
<1>4. TypeOK'
  BY <1>1, <1>2, <1>3 DEF TypeOK
<1>5. Channels' /\ Holding'
  BY <1>1, <1>2 DEF Channels, Holding
<1>6. Steps' /\ ~InRound'
  BY <1>1, <1>2, RoundIs DEF Steps, InRound
<1>7. /\ \A p \in Plane, g \in Fragment : Told(p, g)' = Told(p, g)
      /\ \A p \in Plane, g \in Fragment : Asked(p, g)' = Asked(p, g)
  BY <1>2, ToldSame, AskedSame
<1>8. Numbers'
  <2>1. ASSUME NEW p \in Plane, NEW g \in Fragment, NEW m \in Asked(p, g) \cup Told(p, g)
        PROVE  Rank(m.type) <= Rank(state') /\ m.type # state'
    <3>1. m.type \in Types /\ Rank(m.type) \in Nat
      BY <1>1, HeadType, RankIsNat DEF RequestType, ResponseType
    <3>2. Rank(m.type) <= Rank(state)
      BY <1>1 DEF Numbers
    <3> QED
      BY <1>2, <3>1, <3>2, RankIs, RoundIs DEF Types
  <2> QED
    BY <1>7, <2>1 DEF Numbers
<1>9. Ops'
  BY <1>1, <1>2 DEF Ops
<1>10. Connected' /\ NetworkBeforeNodes'
  BY <1>1, <1>2, <1>7 DEF Connected, NetworkBeforeNodes, Plane
<1>11. Ending'
  <2>1. \A f \in Fragment : fstate'[f] = "DONE" => Gone(f)' /\ state' \in Over
    BY <1>1, <1>2, <1>3 DEF Ending, Over
  <2>2. \A g \in Fragment : \A x \in Told("ctrl", g)' :
             /\ x.type = "END_TESTCASE" => Ended(g)'
             /\ x.type = "SHUTDOWN" => fstate'[g] = "DONE"
    BY <1>1, <1>2, <1>7 DEF Ending, Ended, Plane
  <2>3. state' \in Over /\ exit_code' = "NONE" => \A f \in Fragment : Ended(f)'
    BY <1>1, <1>2 DEF Ending, Over, Ended
  <2>4. exit_code' = "NONE" => \A f \in Fragment : fstate'[f] = "DONE"
    BY <1>1, <1>2 DEF Ending
  <2> QED
    BY <1>1, <1>2, <2>1, <2>2, <2>3, <2>4 DEF Ending, Ended
<1>12. Killing'
  BY <1>1, <1>2, <1>3 DEF Killing
<1> QED
  BY <1>4, <1>5, <1>6, <1>8, <1>9, <1>10, <1>11, <1>12 DEF IInv

\* fork() fails before anything is sent.
LEMMA ForkFailsKeeps ==
  ASSUME IInv, NEW k \in Fragment, ForkFails(k)
  PROVE  IInv'
<1>1. TypeOK /\ Steps /\ Channels /\ Numbers /\ Ops /\ Connected /\ NetworkBeforeNodes /\ Ending
      /\ Killing /\ Holding
  BY DEF IInv
<1>2. /\ state = "SETUP_CTRL" /\ FinishState("FORK_FAILED") /\ faults_left' \in 0 .. MaxFaults
      /\ UNCHANGED <<request, ops_left, fstate, fstep, thread, connected, to, from, autotest, late>>
      /\ pids' = 1 .. k - 1
      /\ life' = [f \in Fragment |-> IF f >= k THEN "exited" ELSE life[f]]
  BY <1>1, ConstantAssumption DEF ForkFails, Fault, TypeOK
<1>3. /\ life' \in [Fragment -> {"running", "spinning", "exited", "killed"}]
      /\ \A f \in Fragment : /\ life'[f] = "spinning" => life[f] = "spinning"
                             /\ Gone(f) => Gone(f)'
                             /\ f \notin pids' => Gone(f)'
      /\ pids' \subseteq Fragment
  BY <1>1, <1>2, ConstantAssumption DEF TypeOK, Gone, Fragment
<1>4. state' = "FORCEFUL_SHUTDOWN" /\ state' \in AnyState
  BY <1>2 DEF FinishState, OnError, AnyState
<1>5. /\ step' = 1 /\ error' = "NONE" /\ pending' = {} /\ op' = 0 /\ exit_code' \in Error
      /\ exit_code' # "NONE"
  BY <1>1, <1>2, FinishIs, RoundIs DEF Error
<1>6. TypeOK'
  BY <1>1, <1>2, <1>3, <1>4, <1>5, ConstantAssumption DEF TypeOK, Error
<1>7. Channels' /\ Holding'
  BY <1>1, <1>2 DEF Channels, Holding
<1>8. Steps' /\ ~InRound'
  BY <1>4, <1>5, RoundIs DEF Steps, InRound
<1>9. /\ \A p \in Plane, g \in Fragment : Told(p, g)' = Told(p, g)
      /\ \A p \in Plane, g \in Fragment : Asked(p, g)' = Asked(p, g)
  BY <1>2, ToldSame, AskedSame
<1>10. Numbers'
  <2>1. ASSUME NEW p \in Plane, NEW g \in Fragment, NEW m \in Asked(p, g) \cup Told(p, g)
        PROVE  Rank(m.type) <= Rank(state') /\ m.type # state'
    <3>1. m.type \in Types /\ Rank(m.type) \in Nat
      BY <1>1, HeadType, RankIsNat DEF RequestType, ResponseType
    <3>2. Rank(m.type) <= Rank(state)
      BY <1>1 DEF Numbers
    <3> QED
      BY <1>2, <1>4, <3>1, <3>2, RankIs, RoundIs DEF Types
  <2> QED
    BY <1>9, <2>1 DEF Numbers
<1>11. Ops'
  BY <1>4, <1>5 DEF Ops
<1>12. Connected' /\ NetworkBeforeNodes'
  BY <1>1, <1>2, <1>4, <1>9 DEF Connected, NetworkBeforeNodes, Plane
<1>13. Ending'
  <2>1. \A f \in Fragment : fstate'[f] = "DONE" => Gone(f)' /\ state' \in Over
    BY <1>1, <1>2, <1>3, <1>4 DEF Ending, Over
  <2>2. \A g \in Fragment : \A x \in Told("ctrl", g)' :
             /\ x.type = "END_TESTCASE" => Ended(g)'
             /\ x.type = "SHUTDOWN" => fstate'[g] = "DONE"
    BY <1>1, <1>2, <1>9 DEF Ending, Ended, Plane
  <2>3. /\ \A f \in Fragment : fstate'[f] = "RUN_TESTCASE" => thread'[f] # "none"
        /\ \A f \in Fragment : Ended(f)' => thread'[f] \in {"joined", "exited"}
    BY <1>1, <1>2 DEF Ending, Ended
  <2> QED
    BY <1>4, <1>5, <2>1, <2>2, <2>3 DEF Ending
<1>14. Killing'
  BY <1>1, <1>2, <1>3, <1>4 DEF Killing
<1> QED
  BY <1>6, <1>7, <1>8, <1>10, <1>11, <1>12, <1>13, <1>14 DEF IInv

-----------------------------------------------------------------------------
(* Theorems *)

LEMMA InitHolds == Init => IInv
<1>1. SUFFICES ASSUME Init PROVE IInv
  OBVIOUS
<1>2. TypeOK
  <2>1. /\ state \in AnyState /\ step \in 1 .. 4 /\ pending \subseteq Fragment
        /\ error \in Error /\ exit_code \in Error
        /\ request \in Nat /\ op \in 0 .. N /\ ops_left \in 0 .. MaxOps
        /\ pids \subseteq Fragment
    BY <1>1, RoundIs, ConstantAssumption DEF Init, AnyState, Error
  <2>2. /\ fstate \in [Fragment -> Round \cup {"RUN_TESTCASE", "DONE"}]
        /\ fstep \in [Fragment -> {"connect", "await", "handshake", "accept"}]
        /\ life \in [Fragment -> {"running", "spinning", "exited", "killed"}]
        /\ thread \in [Fragment -> {"none", "running", "hung", "exited", "joined"}]
        /\ connected \in [Fragment -> BOOLEAN]
    BY <1>1, RoundIs DEF Init
  <2>3. autotest \in BOOLEAN /\ late \in BOOLEAN
    BY <1>1, Zenon DEF Init
  <2>4. faults_left \in 0 .. MaxFaults
    <3>1. faults_left = MaxFaults
      BY <1>1 DEF Init
    <3> QED
      BY <3>1, ConstantAssumption
  <2> QED
    BY <2>1, <2>2, <2>3, <2>4 DEF TypeOK, AnyState
<1>3. Channels
  BY <1>1 DEF Init, Channels
<1>4. /\ \A p \in Plane, f \in Fragment : to[p][f] = <<>> /\ from[p][f] = <<>>
      /\ \A p \in Plane, f \in Fragment : Asked(p, f) = {} /\ Told(p, f) = {}
      /\ "ctrl" \in Plane
  BY <1>1, InEmpty DEF Init, Asked, Told, Plane
<1>5. \A f \in Fragment : fstate[f] = "SETUP_CTRL" /\ fstep[f] = "connect" /\ life[f] = "running"
                          /\ thread[f] = "none"
  BY <1>1 DEF Init
<1>6. Steps
  <2>1. state = "SETUP_CTRL" /\ step = 1 /\ state \in Round
    BY <1>1, RoundIs DEF Init
  <2>2. Len(Program(state)) = 2
    BY <2>1, ProgramIs
  <2> QED
    BY <2>1, <2>2 DEF Steps, InRound
<1>7. Holding
  BY <1>5 DEF Holding
<1>8. Numbers
  BY <1>4 DEF Numbers
<1>9. Ops
  BY <1>1 DEF Init, Ops
<1>10. Connected /\ NetworkBeforeNodes
  BY <1>1, <1>4, <1>5 DEF Init, Connected, NetworkBeforeNodes
<1>11. Ending
  BY <1>1, <1>4, <1>5 DEF Init, Ending, Ended, Over
<1>12. Killing
  BY <1>1, <1>5 DEF Init, Killing
<1> QED
  BY <1>2, <1>3, <1>6, <1>7, <1>8, <1>9, <1>10, <1>11, <1>12 DEF IInv

LEMMA StutterKeeps ==
  ASSUME IInv, UNCHANGED vars
  PROVE  IInv'
<1>1. TypeOK' /\ Channels' /\ Steps' /\ Holding'
  BY DEF IInv, vars, orchVars, fragVars, envVars, TypeOK, Channels, Steps, Holding, InRound
<1>2. UNCHANGED <<to, from>>
  BY DEF vars
<1>3. /\ \A p \in Plane, g \in Fragment : Told(p, g)' = Told(p, g)
      /\ \A p \in Plane, g \in Fragment : Asked(p, g)' = Asked(p, g)
  BY <1>2, ToldSame, AskedSame
<1>4. Numbers'
  BY <1>3 DEF IInv, vars, orchVars, Numbers, Does, InRound
<1>5. Ops'
  BY <1>2, <1>3 DEF IInv, vars, orchVars, Ops, Plane
<1>6. Connected' /\ NetworkBeforeNodes'
  BY <1>3 DEF IInv, vars, orchVars, fragVars, Connected, NetworkBeforeNodes, Plane
<1>7. Ending'
  BY <1>3 DEF IInv, vars, orchVars, fragVars, Ending, Ended, Gone, Plane
<1>8. Killing'
  BY DEF IInv, vars, orchVars, fragVars, envVars, Killing, Gone
<1> QED
  BY <1>1, <1>4, <1>5, <1>6, <1>7, <1>8 DEF IInv

LEMMA NextKeeps ==
  ASSUME IInv, [Next]_vars
  PROVE  IInv'
<1>1. CASE OrchestratorStep
  BY <1>1, SendRoundKeeps, ReceiveKeeps, StartOpKeeps, EndReceiveKeeps, EndOpKeeps, EndRunKeeps,
     LastKeeps DEF OrchestratorStep
<1>2. CASE \E f \in Fragment : FragmentStep(f) \/ FaultStep(f)
  BY <1>2, FragmentEffect, EffectKeeps
<1>3. CASE \E k \in Fragment : ForkFails(k)
  BY <1>3, ForkFailsKeeps
<1>4. CASE Finished \/ UNCHANGED vars
  BY <1>4, StutterKeeps DEF Finished
<1> QED
  BY <1>1, <1>2, <1>3, <1>4 DEF Next

LEMMA Invariance == Spec => []IInv
  BY InitHolds, NextKeeps, PTL DEF Spec

\* The state of the orchestrator and of every fragment keeps its type.
THEOREM OrchestrationTypes == Spec => []TypeOK
<1>1. IInv => TypeOK
  BY DEF IInv
<1> QED
  BY <1>1, Invariance, PTL

\* A response accepted by foreach_fragment_recv, or by the test case, answers the
\* request sent last: rounds only move on, so a late answer is of another type, and
\* of the test case's own requests at most one is under way.
THEOREM AnswersAreCurrent == Spec => []AnswersTheRequest
<1>1. IInv => AnswersTheRequest
  <2>1. SUFFICES ASSUME IInv, NEW f \in Fragment
                 PROVE  /\ Does("recv") /\ state # "SETUP_CTRL" /\ f \in pending
                           /\ from[OnPlane][f] # <<>> =>
                             (Head(from[OnPlane][f]).type = state =>
                                Head(from[OnPlane][f]).number = request)
                        /\ op = f /\ from["ctrl"][f] # <<>> =>
                             (Head(from["ctrl"][f]).type = "OP" =>
                                Head(from["ctrl"][f]).number = request)
    BY DEF AnswersTheRequest
  <2>2. TypeOK /\ Steps /\ Channels /\ Numbers /\ Ops /\ "ctrl" \in Plane
    BY <2>1 DEF IInv, Plane
  <2>3. ASSUME Does("recv"), state # "SETUP_CTRL", from[OnPlane][f] # <<>>,
               Head(from[OnPlane][f]).type = state
        PROVE  Head(from[OnPlane][f]).number = request
    <3>1. PICK p \in Plane : p = OnPlane
      BY <2>2, <2>3, DoesIs DEF Plane, Does
    <3>2. Head(from[p][f]) \in Told(p, f)
      BY <2>2, <2>3, <3>1, HeadType
    <3> QED
      BY <2>2, <2>3, <3>1, <3>2 DEF Numbers
  <2>4. ASSUME op = f, from["ctrl"][f] # <<>>, Head(from["ctrl"][f]).type = "OP"
        PROVE  Head(from["ctrl"][f]).number = request
    <3>1. Head(from["ctrl"][f]) \in Told("ctrl", f) /\ op # 0
      BY <2>2, <2>4, HeadType DEF Fragment
    <3> QED
      BY <2>2, <2>4, <3>1 DEF Ops
  <2> QED
    BY <2>3, <2>4
<1> QED
  BY <1>1, Invariance, PTL

\* No node thread runs before every fragment has connected all its links.
THEOREM NetworkIsUpFirst == Spec => []NetworkBeforeNodes
<1>1. IInv => NetworkBeforeNodes
  BY DEF IInv
<1> QED
  BY <1>1, Invariance, PTL

\* As long as the run is without an error, no fragment exits while the node of another
\* may still send to it.
THEOREM LinksAreClosedLast == Spec => []LinksOutliveNodes
<1>1. IInv => LinksOutliveNodes
  <2>1. SUFFICES ASSUME IInv, exit_code = "NONE", NEW f \in Fragment, NEW g \in Fragment,
                        fstate[g] = "DONE"
                 PROVE  thread[f] \in {"joined", "exited"}
    BY DEF LinksOutliveNodes
  <2>2. Ended(f)
    BY <2>1 DEF IInv, Ending
  <2> QED
    BY <2>1, <2>2 DEF IInv, Ending
<1> QED
  BY <1>1, Invariance, PTL

\* run() reports success only if every fragment went through the whole protocol.
THEOREM SuccessMeansDone == Spec => []SuccessIsReal
<1>1. IInv => SuccessIsReal
  BY DEF IInv, Ending, SuccessIsReal
<1> QED
  BY <1>1, Invariance, PTL

\* When run() has returned, no process is left that waits to be killed, and in
\* autotest mode none at all.
THEOREM NobodyIsLeft == Spec => []NoOrphans
<1>1. IInv => NoOrphans
  <2>1. SUFFICES ASSUME IInv, state = "DONE", NEW f \in Fragment
                 PROVE  life[f] # "spinning" /\ (autotest => Gone(f))
    BY DEF NoOrphans
  <2>2. autotest => Gone(f)
    BY <2>1 DEF IInv, Killing
  <2>3. life[f] = "spinning" => autotest
    BY <2>1 DEF IInv, Killing
  <2> QED
    BY <2>2, <2>3 DEF Gone
<1> QED
  BY <1>1, Invariance, PTL

=============================================================================
