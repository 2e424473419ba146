------------------------------ MODULE Framing ------------------------------
(***************************************************************************)
(* Messages on a byte stream: send_generic and recv_generic of             *)
(* framework/networking.cpp, and message::finalize and message::validate   *)
(* of framework/message.cpp, on one direction of one connection.  The      *)
(* first bytes of a message are its length, the last its canary.           *)
(*                                                                         *)
(* A byte is <<m, i>>, the i'th byte of the m'th message: its value does   *)
(* not matter, only where a reader finds it.                               *)
(***************************************************************************)
EXTENDS Integers, Sequences

CONSTANTS
  Mode,         \* how the program uses connections: the send mode, the receive mode, the receiver
  Length,       \* lengths of messages
  Variable,     \* those of messages whose type leaves the length to fields of the payload
  MinLen,       \* MIN_MESSAGE_LENGTH, MIN_MIXNET_PACKET_SIZE
  MaxLen,       \* MAX_MESSAGE_LENGTH, MAX_MIXNET_PACKET_SIZE
  Capacity,     \* bytes the connection holds
  MaxMessages,  \* bound on the messages sent
  MaxEarly      \* bound on the receives that time out although they could go on

LengthBytes == 2   \* sizeof(T), the length field
HeaderBytes == 3   \* the length field and the type
FieldBytes == 4    \* the header and the payload's fields that give its length

\* Who receives: a fragment its requests, the orchestrator's main thread the
\* responses, its pcap thread captured packets, a node thread Mixnet packets.
Caller == {"fragment", "main", "pcap", "node"}

\* A receiver that peeks waits for the whole message in its socket's buffer:
\* the buffer must hold the longest one.  Only fragments receive blocking.
ASSUME FramingAssumption ==
  /\ {MinLen, MaxLen, Capacity, MaxMessages, MaxEarly} \subseteq Nat
  /\ HeaderBytes < MinLen
  /\ Length \subseteq MinLen .. MaxLen
  /\ MaxLen <= Capacity
  /\ Mode \subseteq {"block", "timeout"} \X {"block", "timeout", "once"} \X Caller
  /\ \A m \in Mode : m[2] = "block" => m[3] = "fragment"
  /\ \A n \in Variable : n > FieldBytes

Message == 1 .. MaxMessages

VARIABLES
  tx, rx,     \* the modes of sender and receiver
  caller,     \* who receives
  lens,       \* lens[m]: length of the m'th message handed to send_generic
  sending,    \* a send is under way, of message Len(lens)
  off,        \* how many of its bytes are sent
  torn,       \* the first message given up half-way, or 0
  closed,     \* the sender's end is closed
  stream,     \* bytes sent and not yet consumed
  pc,         \* the receive under way: "idle", "length", "peek", "take", or "end" when the
              \* caller has given up the connection
  want,       \* msg_length
  buffer,     \* bytes consumed by this receive
  result,     \* its error_code
  log,        \* messages received: m if it is the m'th, whole, else 0
  early_left

sendVars == <<lens, sending, off, torn, closed>>
recvVars == <<pc, want, buffer, result, log, early_left>>
vars == <<tx, rx, caller, sendVars, stream, recvVars>>

Least(a, b) == IF a < b THEN a ELSE b

Init ==
  /\ \E m \in Mode : tx = m[1] /\ rx = m[2] /\ caller = m[3]
  /\ lens = <<>> /\ sending = FALSE /\ off = 0 /\ torn = 0 /\ closed = FALSE
  /\ stream = <<>>
  /\ pc = "idle" /\ want = 0 /\ buffer = <<>> /\ result = "NONE" /\ log = <<>>
  /\ early_left = MaxEarly

-----------------------------------------------------------------------------
(* send_generic *)

\* The length is in bounds: finalize asserts it, node_send checks it.
StartSend(n) ==
  /\ ~sending /\ ~closed
  /\ Len(lens) < MaxMessages
  /\ lens' = Append(lens, n)
  /\ sending' = TRUE /\ off' = 0
  /\ UNCHANGED <<tx, rx, caller, torn, closed, stream, recvVars>>

\* Bytes off + 1 .. off + n of the message under way.
Part(n) == [i \in 1 .. n |-> <<Len(lens), off + i>>]

\* send() takes as many bytes as there is room for, at least one; without room
\* it takes none and the loop goes on.
SendPart(n) ==
  /\ sending /\ ~closed
  /\ n <= lens[Len(lens)] - off
  /\ n <= Capacity - Len(stream)
  /\ stream' = stream \o Part(n)
  /\ IF off + n = lens[Len(lens)]
       THEN sending' = FALSE /\ off' = 0
       ELSE sending' = TRUE /\ off' = off + n
  /\ UNCHANGED <<tx, rx, caller, lens, torn, closed, recvVars>>

\* SEND_REQS_TIMEOUT.  The caller goes on using the connection.  A message of
\* which no byte was sent is as if it had never been.
SendTimeout ==
  /\ tx = "timeout"
  /\ sending /\ ~closed
  /\ sending' = FALSE /\ off' = 0
  /\ IF off = 0
       THEN /\ lens' = SubSeq(lens, 1, Len(lens) - 1)
            /\ UNCHANGED torn
       ELSE /\ torn' = IF torn = 0 THEN Len(lens) ELSE torn
            /\ UNCHANGED lens
  /\ UNCHANGED <<tx, rx, caller, closed, stream, recvVars>>

\* The sending process ends, maybe in the middle of a message.
Close ==
  /\ ~closed
  /\ closed' = TRUE
  /\ UNCHANGED <<tx, rx, caller, lens, sending, off, torn, stream, recvVars>>

SenderStep ==
  \/ \E n \in Length : StartSend(n)
  \/ \E n \in 1 .. MaxLen : SendPart(n)
  \/ SendTimeout
  \/ Close

-----------------------------------------------------------------------------
(* recv_generic *)

\* What the caller does with an error.  The pcap loop and node_recv clear
\* RECV_ZERO_PENDING and come again; on anything else, a message that did not come
\* out in time included, the pcap thread ends, and so does the node.  A fragment
\* ends on any error.  The main thread goes on to another round, one that shuts
\* the fragments down, or is through.
Goes(err) ==
  IF caller = "main" THEN {"idle", "end"}
  ELSE IF caller \in {"pcap", "node"} /\ err = "RECV_ZERO_PENDING" THEN {"idle"}
  ELSE {"end"}

\* The call returns an error.
Fail(err) ==
  /\ pc' \in Goes(err)
  /\ result' = err
  /\ want' = 0 /\ buffer' = <<>>
  /\ UNCHANGED log

Call ==
  /\ pc = "idle"
  /\ pc' = "length" /\ want' = LengthBytes
  /\ UNCHANGED <<tx, rx, caller, sendVars, stream, buffer, result, log, early_left>>

\* Is s the beginning of message m?
Begins(s, m) == \A i \in DOMAIN s : s[i] = <<m, i>>

\* What the first bytes mean as a length: anything, unless they are a length field.
Decoded(s) ==
  IF \E m \in DOMAIN lens : Begins(s, m)
    THEN {lens[s[1][1]]}
    ELSE (MinLen - 1) .. (MaxLen + 1)

\* Mutant: with a timeout, too, the message is consumed as it comes.
PeekLengthEager(n) ==
  /\ pc = "length" /\ Len(stream) >= LengthBytes
  /\ n \in Decoded(SubSeq(stream, 1, LengthBytes))
  /\ IF n \in MinLen .. MaxLen
       THEN /\ pc' = IF rx = "once" THEN "peek" ELSE "take"
            /\ want' = n
            /\ UNCHANGED <<buffer, result, log>>
       ELSE Fail("MALFORMED_MESSAGE")
  /\ UNCHANGED <<tx, rx, caller, sendVars, stream, early_left>>

\* The length is there.  It stays in the stream.
PeekLength(n) ==
  /\ pc = "length" /\ Len(stream) >= LengthBytes
  /\ n \in Decoded(SubSeq(stream, 1, LengthBytes))
  /\ IF n \in MinLen .. MaxLen
       THEN /\ pc' = IF rx = "block" THEN "take" ELSE "peek"
            /\ want' = n
            /\ UNCHANGED <<buffer, result, log>>
       ELSE Fail("MALFORMED_MESSAGE")
  /\ UNCHANGED <<tx, rx, caller, sendVars, stream, early_left>>

\* Mutant: waits for a byte more than the message has.
PeekMessageTooFar ==
  /\ pc = "peek" /\ Len(stream) > want
  /\ pc' = "take"
  /\ UNCHANGED <<tx, rx, caller, sendVars, stream, want, buffer, result, log, early_left>>

\* The whole message is there: clear MSG_PEEK and read it.
PeekMessage ==
  /\ pc = "peek" /\ Len(stream) >= want
  /\ pc' = "take"
  /\ UNCHANGED <<tx, rx, caller, sendVars, stream, want, buffer, result, log, early_left>>

\* A single try, and not enough is there.
GiveUp ==
  /\ rx = "once"
  /\ pc \in {"length", "peek"}
  /\ Len(stream) < want
  /\ stream # <<>> \/ ~closed
  /\ Fail("RECV_ZERO_PENDING")
  /\ UNCHANGED <<tx, rx, caller, sendVars, stream, early_left>>

\* Mutant: validate only looks at the header.
ValidateHeader(s) == {TRUE}

\* The bytes of message m from which compute_total_length finds where it ends.
Fields(m) == IF lens[m] \in Variable THEN FieldBytes ELSE HeaderBytes

\* message::validate, on message s.  Where the canary is looked for is not taken
\* from the length field but from the type and, for some types, from the payload.
\* When these are the bytes of one message it is the last byte; otherwise, also
\* when only the header is that of a message, it may be any place of the buffer,
\* that of a canary which arrived just now or with an earlier message included.
Validate(s) ==
  IF \E m \in DOMAIN lens : Begins(SubSeq(s, 1, Fields(m)), m)
    THEN {LET b == s[Len(s)] IN b[2] = lens[b[1]]}
    ELSE BOOLEAN

\* Whole messages by their number.
Entry(s) == IF Begins(s, s[1][1]) THEN s[1][1] ELSE 0

\* recv() without MSG_PEEK.
TakeBytes(valid) ==
  /\ pc = "take" /\ stream # <<>>
  /\ LET n == Least(want - Len(buffer), Len(stream))
         s == buffer \o SubSeq(stream, 1, n)
     IN /\ stream' = SubSeq(stream, n + 1, Len(stream))
        /\ IF Len(s) < want
             THEN /\ valid
                  /\ buffer' = s
                  /\ UNCHANGED <<pc, want, result, log>>
             ELSE /\ valid \in Validate(s)
                  /\ pc' \in IF valid THEN {"idle"} ELSE Goes("INVALID")
                  /\ result' = IF valid THEN "NONE" ELSE "INVALID"
                  /\ log' = Append(log, Entry(s))
                  /\ want' = 0 /\ buffer' = <<>>
  /\ UNCHANGED <<tx, rx, caller, sendVars, early_left>>

\* Mutant: a closed connection is taken for one that has nothing yet.
ReadClosedWaits ==
  /\ pc \in {"length", "take"}
  /\ stream = <<>> /\ closed
  /\ Fail(IF pc = "length" THEN "RECV_ZERO_PENDING" ELSE "CONNECTION_BROKEN")
  /\ UNCHANGED <<tx, rx, caller, sendVars, stream, early_left>>

\* recv() returns 0.
ReadClosed ==
  /\ pc \in {"length", "take"}
  /\ stream = <<>> /\ closed
  /\ Fail("CONNECTION_BROKEN")
  /\ UNCHANGED <<tx, rx, caller, sendVars, stream, early_left>>

\* The receive could go on.
Ready == Len(stream) >= want \/ (stream = <<>> /\ closed)

\* The timeout passes between two tries; what was read by then is dropped.
RecvTimeout ==
  /\ rx = "timeout"
  /\ pc \in {"length", "peek", "take"}
  /\ Ready => early_left > 0
  /\ early_left' = IF Ready THEN early_left - 1 ELSE early_left
  /\ Fail(IF pc = "take" THEN "RECV_WAIT_TIMEOUT" ELSE "RECV_ZERO_PENDING")
  /\ UNCHANGED <<tx, rx, caller, sendVars, stream>>

ReceiverStep ==
  \/ Call
  \/ \E n \in 0 .. MaxLen + 1 : PeekLength(n)
  \/ PeekMessage
  \/ GiveUp
  \/ \E valid \in BOOLEAN : TakeBytes(valid)
  \/ ReadClosed
  \/ RecvTimeout

-----------------------------------------------------------------------------
Next == SenderStep \/ ReceiverStep

Spec == Init /\ [][Next]_vars

\* Both loops run on, and a caller that has not given up calls again; a send that
\* has begun goes on as long as there is room.
FairSpec ==
  /\ Spec
  /\ WF_vars(ReceiverStep)
  /\ WF_vars(\E n \in 1 .. MaxLen : SendPart(n))

-----------------------------------------------------------------------------
(* Properties *)

\* Messages sent whole before any was torn.
Whole == IF torn # 0 THEN torn - 1 ELSE IF sending THEN Len(lens) - 1 ELSE Len(lens)

Channel == INSTANCE MessageChannel WITH
  sent <- [m \in 1 .. Whole |-> m],
  received <- IF torn = 0 THEN log ELSE SubSeq(log, 1, Least(Len(log), Whole)),
  torn <- torn # 0

\* The byte stream implements a channel of whole messages: in all three modes,
\* wherever sends and receives are cut short, what recv_generic returns is
\* the messages given to send_generic, whole and in order, up to the first
\* that a timed-out send has torn (networking.cpp, "to achieve a message
\* abstraction").  In particular, a receive that times out or finds too little
\* leaves the stream at the beginning of a message.
ImplementsChannel == Channel!Spec

\* The next byte to be read is the first of a message.
Aligned == IF stream = <<>> THEN off = 0 ELSE stream[1][2] = 1

\* After a torn message, a receive makes one of the pieces of two.  A caller
\* that goes on because message::validate has found the canary is back at the
\* beginning of a message, provided that the header it read was one and, for a
\* message whose length is in its payload, that those fields were its own: then
\* the last byte it took was the last of some message.  A genuine header is not
\* enough, see Validate.
CanaryRealigns ==
  [][pc = "take" /\ pc' = "idle" /\ result' = "NONE" =>
       \/ Aligned'
       \/ \A m \in DOMAIN lens :
            ~Begins(SubSeq(buffer \o stream, 1, Fields(m)), m)]_vars

\* The receiver has left after a receive that ran out of time.
GivenUp == pc = "end" /\ result \in {"RECV_WAIT_TIMEOUT", "RECV_ZERO_PENDING"}

\* A message that was sent whole is received, whatever was cut short before
\* and also if its sender has gone since, unless a timeout makes the receiver
\* leave, which a node never does and the pcap thread only when the time is up
\* although the whole message is there; one that is being sent gets through
\* unless its send is given up, its sender goes or the receiver leaves.
Delivered ==
  \A m \in Message :
    /\ (Whole >= m) ~> (Len(log) >= m \/ GivenUp)
    /\ (Len(lens) >= m) ~> (Len(log) >= m \/ torn # 0 \/ closed \/ Len(lens) < m \/ pc = "end")

\* Bytes that will never make a message.
Leftover == IF sending THEN off ELSE 0

\* A receiver learns that the sender has gone, unless it has left itself.  When
\* the sender has gone in the middle of a message, only a blocking receive does,
\* which consumes what there is, and not after the first byte of a length, at
\* which it spins: the others find too little for ever.
CloseNoticed ==
  (closed /\ torn = 0 /\ Leftover \in (IF rx = "block" THEN 0 .. MaxLen \ {1} ELSE {0}))
    ~> (result = "CONNECTION_BROKEN" \/ GivenUp)
=============================================================================
