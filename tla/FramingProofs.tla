---------------------------- MODULE FramingProofs ----------------------------
(***************************************************************************)
(* Theorems about messages on a byte stream, for every pair of modes,      *)
(* every set of lengths, every capacity of the connection and every number *)
(* of messages, receives cut short and sends given up.                     *)
(***************************************************************************)
EXTENDS Framing, SequenceTheorems, TLAPS

-----------------------------------------------------------------------------
(* The inductive invariant *)

Byte == Nat \X Nat

SenderTypes ==
  /\ lens \in Seq(Length) /\ Len(lens) <= MaxMessages
  /\ off \in Nat /\ (~sending => off = 0)
  /\ sending => Len(lens) > 0 /\ off < lens[Len(lens)]
  /\ torn \in 0 .. Len(lens) /\ (sending => torn # Len(lens))

ReceiverTypes ==
  /\ stream \in Seq(Byte) /\ buffer \in Seq(Byte)
  /\ pc \in {"idle", "length", "peek", "take", "end"}
  /\ want \in Nat
  /\ log \in Seq(Nat)

Booleans == sending \in BOOLEAN /\ closed \in BOOLEAN

TypeOK == SenderTypes /\ ReceiverTypes /\ Booleans

\* A receive consumes only what it returns: one that may give up has nothing in
\* its buffer, and finds the whole message there when it begins to take it.  Only
\* a fragment, which does not come back after an error, can lose a part.
Receiving ==
  /\ pc # "take" => buffer = <<>>
  /\ pc \in {"peek", "take"} => want \in MinLen .. MaxLen
  /\ pc = "take" => Len(buffer) < want
  /\ rx # "block" => buffer = <<>> /\ (pc = "take" => Len(stream) >= want)
  /\ rx = "block" => caller = "fragment"

\* What the receiver has still to make messages of.
Unread == buffer \o stream

\* Message m was not given up, nor any before it.
Untorn(m) == torn = 0 \/ m < torn

\* Messages of which a byte has been sent.
Begun == IF sending /\ off = 0 THEN Len(lens) - 1 ELSE Len(lens)

\* Every byte belongs to a message, to the part of it that was sent.
Placed(u) ==
  \A j \in DOMAIN u :
    /\ u[j][1] \in DOMAIN lens
    /\ u[j][2] \in 1 .. lens[u[j][1]]
    /\ sending /\ u[j][1] = Len(lens) => u[j][2] <= off

\* The bytes of a message that was not torn follow each other ...
Contiguous(u) ==
  \A j, k \in DOMAIN u :
    j <= k /\ Untorn(u[j][1]) /\ u[j][2] + (k - j) <= lens[u[j][1]] =>
      u[k] = <<u[j][1], u[j][2] + (k - j)>>

\* ... and after the last byte of any message comes the first of the next.
InOrder(u) ==
  \A j \in DOMAIN u :
    j + 1 \in DOMAIN u /\ u[j][2] = lens[u[j][1]] => u[j + 1] = <<u[j][1] + 1, 1>>

\* The last byte is the one sent last.
LastByte(u) ==
  u # <<>> =>
    LET b == u[Len(u)] IN
      /\ b[1] = Begun
      /\ IF off > 0 THEN b[2] = off ELSE Untorn(b[1]) => b[2] = lens[b[1]]

\* Until a torn message comes, the receiver is at the beginning of a message, the
\* one after those it has received, and knows its length.
FirstByte(u) ==
  pc # "end" /\ Untorn(Len(log) + 1) =>
    /\ IF u = <<>> THEN off = 0 /\ Len(log) = Begun ELSE u[1] = <<Len(log) + 1, 1>>
    /\ pc \in {"peek", "take"} => u # <<>> /\ want = lens[Len(log) + 1]

\* What was received is the messages, in order.
Logged ==
  /\ \A i \in DOMAIN log : Untorn(i) => log[i] = i
  /\ torn = 0 => Len(log) <= Whole

Flow(u) == Placed(u) /\ Contiguous(u) /\ InOrder(u) /\ LastByte(u)

IInv == TypeOK /\ Receiving /\ Flow(Unread) /\ FirstByte(Unread) /\ Logged

-----------------------------------------------------------------------------
(* Lengths and bytes *)

LEMMA ConstantsAre ==
  /\ MinLen \in Nat /\ MaxLen \in Nat /\ Capacity \in Nat /\ MaxMessages \in Nat
  /\ MinLen > 3 /\ LengthBytes = 2 /\ HeaderBytes = 3
  /\ Length \subseteq MinLen .. MaxLen
  BY FramingAssumption DEF HeaderBytes, LengthBytes

LEMMA LensAre ==
  ASSUME TypeOK
  PROVE  /\ Len(lens) \in Nat /\ DOMAIN lens = 1 .. Len(lens)
         /\ \A m \in DOMAIN lens : lens[m] \in Nat /\ lens[m] \in MinLen .. MaxLen
<1>1. lens \in Seq(Length)
  BY DEF TypeOK, SenderTypes, ReceiverTypes
<1>2. \A m \in 1 .. Len(lens) : lens[m] \in Length
  BY <1>1
<1>3. \A x \in Length : x \in Nat /\ x \in MinLen .. MaxLen
  BY ConstantsAre
<1>4. Len(lens) \in Nat /\ DOMAIN lens = 1 .. Len(lens)
  BY <1>1
<1> QED
  BY <1>2, <1>3, <1>4

LEMMA UnreadIs ==
  ASSUME TypeOK
  PROVE  /\ Unread \in Seq(Byte) /\ Len(Unread) \in Nat /\ DOMAIN Unread = 1 .. Len(Unread)
         /\ Len(Unread) = Len(buffer) + Len(stream)
         /\ \A j \in 1 .. Len(Unread) :
              Unread[j] = IF j <= Len(buffer) THEN buffer[j] ELSE stream[j - Len(buffer)]
  BY DEF TypeOK, SenderTypes, ReceiverTypes, Unread

LEMMA UnreadBytes ==
  ASSUME TypeOK
  PROVE  \A j \in 1 .. Len(Unread) : Unread[j] = <<Unread[j][1], Unread[j][2]>> /\ Unread[j][1] \in Nat /\ Unread[j][2] \in Nat
<1>1. \A j \in 1 .. Len(Unread) : Unread[j] \in Byte
  BY UnreadIs
<1> QED
  BY <1>1 DEF Byte

LEMMA SuffixIs ==
  ASSUME NEW S, NEW s \in Seq(S), NEW t \in Nat, t <= Len(s)
  PROVE  /\ SubSeq(s, t + 1, Len(s)) \in Seq(S)
         /\ Len(SubSeq(s, t + 1, Len(s))) = Len(s) - t
         /\ \A j \in 1 .. Len(s) - t : SubSeq(s, t + 1, Len(s))[j] = s[j + t]
<1>1. PICK a \in Nat, n \in Nat : a = t + 1 /\ n = Len(s) /\ n - a + 1 = Len(s) - t /\ a >= 1
  OBVIOUS
<1>2. \A i \in a .. n : s[i] \in S
  BY <1>1
<1>3. /\ SubSeq(s, a, n) \in Seq(S)
      /\ Len(SubSeq(s, a, n)) = IF a <= n THEN n - a + 1 ELSE 0
      /\ \A i \in 1 .. n - a + 1 : SubSeq(s, a, n)[i] = s[a + i - 1]
  BY <1>2, SubSeqProperties
<1>4. Len(SubSeq(s, a, n)) = Len(s) - t
  BY <1>1, <1>3
<1>5. \A i \in 1 .. Len(s) - t : a + i - 1 = i + t
  BY <1>1
<1> QED
  BY <1>1, <1>3, <1>4, <1>5

\* The byte sequence loses its first n bytes.
LEMMA SuffixFlows ==
  ASSUME TypeOK, TypeOK', Flow(Unread), UNCHANGED <<lens, sending, off, torn>>,
         NEW n \in Nat, n <= Len(Unread), Len(Unread') = Len(Unread) - n,
         \A j \in 1 .. Len(Unread') : Unread'[j] = Unread[j + n]
  PROVE  Flow(Unread)'
<1>1. /\ DOMAIN Unread = 1 .. Len(Unread) /\ DOMAIN Unread' = 1 .. Len(Unread')
      /\ Len(Unread) \in Nat /\ Len(Unread') \in Nat
  <2>1. Unread' \in Seq(Byte)
    BY DEF TypeOK, ReceiverTypes, Unread
  <2> QED
    BY <2>1, UnreadIs
<1>2. Placed(Unread)'
  <2> SUFFICES ASSUME NEW j \in DOMAIN Unread'
               PROVE  /\ Unread'[j][1] \in DOMAIN lens
                      /\ Unread'[j][2] \in 1 .. lens[Unread'[j][1]]
                      /\ sending /\ Unread'[j][1] = Len(lens) => Unread'[j][2] <= off
    BY DEF Placed
  <2>1. j + n \in DOMAIN Unread /\ Unread'[j] = Unread[j + n]
    BY <1>1
  <2> QED
    BY <2>1 DEF Flow, Placed
<1>3. InOrder(Unread)'
  <2> SUFFICES ASSUME NEW j \in DOMAIN Unread', j + 1 \in DOMAIN Unread',
                      Unread'[j][2] = lens[Unread'[j][1]]
               PROVE  Unread'[j + 1] = <<Unread'[j][1] + 1, 1>>
    BY DEF InOrder
  <2>1. /\ j + n \in DOMAIN Unread /\ (j + n) + 1 \in DOMAIN Unread
        /\ Unread'[j] = Unread[j + n] /\ Unread'[j + 1] = Unread[(j + n) + 1]
    BY <1>1
  <2> QED
    BY <2>1 DEF Flow, InOrder
<1>4. Contiguous(Unread)'
  <2> SUFFICES ASSUME NEW j \in DOMAIN Unread', NEW k \in DOMAIN Unread', j <= k,
                      Untorn(Unread'[j][1]), Unread'[j][2] + (k - j) <= lens[Unread'[j][1]]
               PROVE  Unread'[k] = <<Unread'[j][1], Unread'[j][2] + (k - j)>>
    BY DEF Contiguous, Untorn
  <2>1. j + n \in DOMAIN Unread /\ k + n \in DOMAIN Unread /\ j + n <= k + n
        /\ (k + n) - (j + n) = k - j
    BY <1>1
  <2>2. Unread'[j] = Unread[j + n] /\ Unread'[k] = Unread[k + n]
    BY <1>1
  <2> QED
    BY <2>1, <2>2 DEF Flow, Contiguous
<1>5. LastByte(Unread)'
  <2>1. CASE Unread' = <<>>
    BY <2>1 DEF LastByte
  <2>2. CASE Unread' # <<>>
    <3>1. Len(Unread') > 0
      BY <2>2, UnreadIs
    <3>2. Unread'[Len(Unread')] = Unread[Len(Unread)] /\ Unread # <<>>
      BY <1>1, <3>1, UnreadIs
    <3> QED
      BY <3>2 DEF Flow, LastByte, Begun, Untorn
  <2> QED
    BY <2>1, <2>2
<1> QED
  BY <1>2, <1>3, <1>4, <1>5 DEF Flow
-----------------------------------------------------------------------------
(* The sender *)

\* What the receiver keeps as it is while the sender moves.
LEMMA ReceivingStays ==
  ASSUME TypeOK, Receiving, UNCHANGED <<rx, caller, recvVars>>, Len(stream') >= Len(stream), Len(stream') \in Nat
  PROVE  Receiving'
<1>1. Len(stream) \in Nat
  BY DEF TypeOK, SenderTypes, ReceiverTypes
<1> QED
  BY <1>1 DEF Receiving, recvVars, TypeOK, ReceiverTypes

LEMMA StartSendKeeps ==
  ASSUME IInv, NEW n \in Length, StartSend(n)
  PROVE  IInv'
<1>0. TypeOK /\ Receiving /\ Flow(Unread) /\ FirstByte(Unread) /\ Logged
  BY DEF IInv
<1>1. /\ ~sending /\ off = 0 /\ lens' = Append(lens, n) /\ sending' = TRUE /\ off' = 0
      /\ Len(lens) < MaxMessages
      /\ UNCHANGED <<tx, rx, caller, torn, closed, stream, pc, want, buffer, result, log, early_left>>
  BY <1>0 DEF StartSend, TypeOK, SenderTypes, recvVars
<1>2. n \in Nat /\ n > 3
  BY ConstantsAre
<1>3. /\ lens \in Seq(Length) /\ lens' \in Seq(Length) /\ Len(lens') = Len(lens) + 1
      /\ Len(lens) \in Nat /\ DOMAIN lens = 1 .. Len(lens) /\ DOMAIN lens' = 1 .. Len(lens) + 1
      /\ lens'[Len(lens) + 1] = n
      /\ \A m \in DOMAIN lens : lens'[m] = lens[m]
  BY <1>0, <1>1 DEF TypeOK, SenderTypes, ReceiverTypes
<1>4. TypeOK'
  <2>1. SenderTypes'
    <3>1. torn \in 0 .. Len(lens)
      BY <1>0 DEF TypeOK, SenderTypes
    <3>2. torn' \in 0 .. Len(lens') /\ torn' # Len(lens')
      BY <1>1, <1>3, <3>1
    <3>3. Len(lens') <= MaxMessages /\ off' \in Nat /\ Len(lens') > 0 /\ off' < lens'[Len(lens')]
      BY <1>1, <1>2, <1>3, ConstantsAre
    <3> QED
      BY <1>1, <1>3, <3>2, <3>3 DEF SenderTypes
  <2>2. ReceiverTypes'
    BY <1>0, <1>1 DEF TypeOK, ReceiverTypes
  <2>3. Booleans'
    BY <1>0, <1>1 DEF TypeOK, Booleans
  <2> QED
    BY <2>1, <2>2, <2>3 DEF TypeOK
<1>5. Receiving'
  BY <1>0, <1>1, <1>4, ReceivingStays DEF recvVars, TypeOK, ReceiverTypes
<1>6. Unread' = Unread
  BY <1>1 DEF Unread
<1>7. Begun' = Begun /\ Begun = Len(lens)
  BY <1>1, <1>3 DEF Begun
<1>8. \A j \in DOMAIN Unread : Unread[j][1] \in DOMAIN lens /\ lens'[Unread[j][1]] = lens[Unread[j][1]]
  BY <1>0, <1>3 DEF Flow, Placed
<1>9. Placed(Unread)'
  BY <1>0, <1>1, <1>3, <1>6, <1>8 DEF Flow, Placed
<1>10. Contiguous(Unread)'
  BY <1>0, <1>1, <1>6, <1>8 DEF Flow, Contiguous, Untorn
<1>11. InOrder(Unread)'
  BY <1>0, <1>6, <1>8 DEF Flow, InOrder
<1>12. Unread # <<>> => Len(Unread) \in DOMAIN Unread /\ 1 \in DOMAIN Unread
  BY <1>0, UnreadIs
<1>13. LastByte(Unread)'
  BY <1>0, <1>1, <1>6, <1>7, <1>8, <1>12 DEF Flow, LastByte, Untorn
<1>14. FirstByte(Unread)'
  <2>1. pc # "end" /\ Untorn(Len(log) + 1) /\ Unread # <<>> => Len(log) + 1 \in DOMAIN lens
    BY <1>0, <1>8, <1>12 DEF FirstByte
  <2> QED
    BY <1>0, <1>1, <1>3, <1>6, <1>7, <2>1 DEF FirstByte, Untorn
<1>15. Logged'
  BY <1>0, <1>1, <1>3 DEF Logged, Untorn, Whole
<1> QED
  BY <1>4, <1>5, <1>9, <1>10, <1>11, <1>13, <1>14, <1>15 DEF IInv, Flow

\* A message of which no byte was sent is forgotten.
LEMMA ForgetKeeps ==
  ASSUME IInv, SendTimeout, off = 0
  PROVE  IInv'
<1>0. TypeOK /\ Receiving /\ Flow(Unread) /\ FirstByte(Unread) /\ Logged
  BY DEF IInv
<1>1. /\ sending /\ lens' = SubSeq(lens, 1, Len(lens) - 1) /\ sending' = FALSE /\ off' = 0
      /\ UNCHANGED <<tx, rx, caller, torn, closed, stream, pc, want, buffer, result, log, early_left>>
  BY DEF SendTimeout, recvVars
<1>2. lens \in Seq(Length) /\ Len(lens) \in Nat /\ Len(lens) > 0 /\ DOMAIN lens = 1 .. Len(lens)
  BY <1>0, <1>1 DEF TypeOK, SenderTypes, ReceiverTypes
<1>3. /\ lens' \in Seq(Length) /\ Len(lens') = Len(lens) - 1 /\ DOMAIN lens' = 1 .. Len(lens) - 1
      /\ \A m \in DOMAIN lens' : lens'[m] = lens[m]
  BY <1>1, <1>2
<1>4. TypeOK'
  <2>1. SenderTypes'
    <3>1. torn \in 0 .. Len(lens) /\ torn # Len(lens) /\ Len(lens) <= MaxMessages
      BY <1>0, <1>1 DEF TypeOK, SenderTypes
    <3>4. torn' = torn /\ off' = 0 /\ Len(lens') = Len(lens) - 1 /\ Len(lens) \in Nat
      BY <1>1, <1>2, <1>3
    <3>2. torn' \in 0 .. Len(lens')
      BY <3>1, <3>4
    <3>3. Len(lens') <= MaxMessages /\ off' \in Nat
      BY <3>1, <3>4, ConstantsAre
    <3> QED
      BY <1>1, <1>3, <3>2, <3>3 DEF SenderTypes
  <2>2. ReceiverTypes'
    BY <1>0, <1>1 DEF TypeOK, ReceiverTypes
  <2>3. Booleans'
    BY <1>0, <1>1 DEF TypeOK, Booleans
  <2> QED
    BY <2>1, <2>2, <2>3 DEF TypeOK
<1>5. Receiving'
  BY <1>0, <1>1, <1>4, ReceivingStays DEF recvVars, TypeOK, ReceiverTypes
<1>6. Unread' = Unread
  BY <1>1 DEF Unread
<1>7. Begun' = Begun /\ Begun = Len(lens) - 1
  BY <1>1, <1>3 DEF Begun
<1>8. \A j \in DOMAIN Unread : /\ Unread[j][1] \in DOMAIN lens' /\ lens'[Unread[j][1]] = lens[Unread[j][1]]
                               /\ Unread[j][2] \in 1 .. lens[Unread[j][1]]
  <2> SUFFICES ASSUME NEW j \in DOMAIN Unread PROVE Unread[j][1] \in DOMAIN lens' /\ Unread[j][2] \in 1 .. lens[Unread[j][1]]
    BY <1>3
  <2>1. /\ Unread[j][1] \in DOMAIN lens /\ Unread[j][2] \in 1 .. lens[Unread[j][1]]
        /\ Unread[j][1] = Len(lens) => Unread[j][2] <= 0
    BY <1>0, <1>1 DEF Flow, Placed
  <2>2. lens[Unread[j][1]] \in Nat
    BY <1>0, <2>1, LensAre
  <2> QED
    BY <1>2, <1>3, <2>1, <2>2
<1>9. Placed(Unread)'
  BY <1>1, <1>6, <1>8 DEF Placed
<1>10. Contiguous(Unread)'
  BY <1>0, <1>1, <1>6, <1>8 DEF Flow, Contiguous, Untorn
<1>11. InOrder(Unread)'
  BY <1>0, <1>6, <1>8 DEF Flow, InOrder
<1>12. Unread # <<>> => Len(Unread) \in DOMAIN Unread /\ 1 \in DOMAIN Unread
  BY <1>0, UnreadIs
<1>13. LastByte(Unread)'
  BY <1>0, <1>1, <1>6, <1>7, <1>8, <1>12 DEF Flow, LastByte, Untorn
<1>14. FirstByte(Unread)'
  <2>1. pc # "end" /\ Untorn(Len(log) + 1) /\ Unread # <<>> => Len(log) + 1 \in DOMAIN lens'
    BY <1>0, <1>8, <1>12 DEF FirstByte
  <2> QED
    BY <1>0, <1>1, <1>3, <1>6, <1>7, <2>1 DEF FirstByte, Untorn
<1>15. Logged'
  BY <1>0, <1>1, <1>3 DEF Logged, Untorn, Whole
<1> QED
  BY <1>4, <1>5, <1>9, <1>10, <1>11, <1>13, <1>14, <1>15 DEF IInv, Flow

\* A message is torn.
LEMMA TearKeeps ==
  ASSUME IInv, SendTimeout, off # 0
  PROVE  IInv'
<1>0. TypeOK /\ Receiving /\ Flow(Unread) /\ FirstByte(Unread) /\ Logged
  BY DEF IInv
<1>1. /\ sending /\ torn' = (IF torn = 0 THEN Len(lens) ELSE torn) /\ sending' = FALSE /\ off' = 0
      /\ UNCHANGED <<tx, rx, caller, lens, closed, stream, pc, want, buffer, result, log, early_left>>
  BY DEF SendTimeout, recvVars
<1>2. /\ Len(lens) \in Nat /\ Len(lens) > 0 /\ off \in Nat /\ off > 0
      /\ torn \in Nat /\ torn <= Len(lens) /\ torn # Len(lens)
  BY <1>0, <1>1 DEF TypeOK, SenderTypes, ReceiverTypes
<1>3. TypeOK'
  <2>1. SenderTypes'
    BY <1>0, <1>1, <1>2 DEF TypeOK, SenderTypes
  <2>2. ReceiverTypes'
    BY <1>0, <1>1 DEF TypeOK, ReceiverTypes
  <2>3. Booleans'
    BY <1>0, <1>1 DEF TypeOK, Booleans
  <2> QED
    BY <2>1, <2>2, <2>3 DEF TypeOK
<1>4. Receiving'
  BY <1>0, <1>1, <1>3, ReceivingStays DEF recvVars, TypeOK, ReceiverTypes
<1>5. Unread' = Unread
  BY <1>1 DEF Unread
<1>6. Begun' = Len(lens) /\ Begun = Len(lens)
  BY <1>1, <1>2 DEF Begun
<1>7. \A m \in Nat : Untorn(m)' => Untorn(m) /\ m < Len(lens)
  BY <1>1, <1>2 DEF Untorn
<1>8. Placed(Unread)'
  BY <1>0, <1>1, <1>5 DEF Flow, Placed
<1>9. \A j \in DOMAIN Unread : Unread[j][1] \in Nat
  BY <1>0, UnreadBytes, UnreadIs
<1>10. Contiguous(Unread)'
  <2> SUFFICES ASSUME NEW j \in DOMAIN Unread, NEW k \in DOMAIN Unread, j <= k,
                      Untorn(Unread[j][1])', Unread[j][2] + (k - j) <= lens[Unread[j][1]]
               PROVE  Unread[k] = <<Unread[j][1], Unread[j][2] + (k - j)>>
    BY <1>1, <1>5 DEF Contiguous, Untorn
  <2>1. Untorn(Unread[j][1])
    BY <1>1, <1>2, <1>5, <1>9 DEF Untorn
  <2> QED
    BY <1>0, <2>1 DEF Flow, Contiguous
<1>11. InOrder(Unread)'
  BY <1>0, <1>1, <1>5 DEF Flow, InOrder
<1>12. LastByte(Unread)'
  BY <1>0, <1>1, <1>2, <1>5, <1>6 DEF Flow, LastByte, Untorn
<1>13. FirstByte(Unread)'
  <2>1. Len(log) \in Nat
    BY <1>0 DEF TypeOK, SenderTypes, ReceiverTypes
  <2> SUFFICES ASSUME pc # "end", Untorn(Len(log) + 1)'
               PROVE  /\ IF Unread = <<>> THEN off' = 0 /\ Len(log) = Begun' ELSE Unread[1] = <<Len(log) + 1, 1>>
                      /\ pc \in {"peek", "take"} => Unread # <<>> /\ want = lens[Len(log) + 1]
    BY <1>1, <1>5 DEF FirstByte
  <2>2. Untorn(Len(log) + 1)
    BY <1>1, <1>2, <2>1 DEF Untorn
  <2> QED
    BY <1>0, <1>2, <2>2 DEF FirstByte
<1>14. Logged'
  <2>1. \A i \in DOMAIN log : i \in Nat
    BY <1>0 DEF TypeOK, SenderTypes, ReceiverTypes
  <2> QED
    BY <1>0, <1>1, <1>2, <2>1 DEF Logged, Untorn, Whole
<1> QED
  BY <1>3, <1>4, <1>8, <1>10, <1>11, <1>12, <1>13, <1>14 DEF IInv, Flow

\* What a message has been sent of grows.
LEMMA SendPartKeeps ==
  ASSUME IInv, NEW n \in 1 .. MaxLen, SendPart(n)
  PROVE  IInv'
<1>0. TypeOK /\ Receiving /\ Flow(Unread) /\ FirstByte(Unread) /\ Logged
  BY DEF IInv
<1> DEFINE L == Len(lens)
           U == Len(Unread)
<1>1. /\ sending /\ n <= lens[L] - off /\ stream' = stream \o Part(n)
      /\ UNCHANGED <<tx, rx, caller, lens, torn, closed, pc, want, buffer, result, log, early_left>>
  BY DEF SendPart, recvVars
<1>2. /\ off + n = lens[L] => sending' = FALSE /\ off' = 0
      /\ off + n # lens[L] => sending' = TRUE /\ off' = off + n
  BY DEF SendPart
<1>3. /\ L \in Nat /\ L > 0 /\ L \in DOMAIN lens /\ lens[L] \in Nat /\ off \in Nat /\ off < lens[L]
      /\ n \in Nat /\ n > 0 /\ torn \in Nat /\ torn < L /\ off + n <= lens[L]
      /\ L <= MaxMessages
  BY <1>0, <1>1, LensAre, ConstantsAre DEF TypeOK, SenderTypes
<1>4. Part(n) \in Seq(Byte) /\ Len(Part(n)) = n /\ \A i \in 1 .. n : Part(n)[i] = <<L, off + i>>
  <2>1. \A i \in 1 .. n : <<L, off + i>> \in Byte
    BY <1>3 DEF Byte
  <2>2. Part(n) \in [1 .. n -> Byte] /\ \A i \in 1 .. n : Part(n)[i] = <<L, off + i>>
    BY <2>1 DEF Part
  <2>3. Part(n) \in Seq(Byte)
    BY <1>3, <2>2, SeqDef
  <2>4. Len(Part(n)) = n
    BY <1>3, <2>2, <2>3
  <2> QED
    BY <2>2, <2>3, <2>4
<1>5. stream \in Seq(Byte) /\ buffer \in Seq(Byte) /\ stream' \in Seq(Byte)
      /\ Len(stream') = Len(stream) + n
  <2>1. stream \in Seq(Byte) /\ buffer \in Seq(Byte) /\ stream' = stream \o Part(n)
    BY <1>0, <1>1 DEF TypeOK, ReceiverTypes
  <2> QED
    BY <1>4, <2>1, ConcatProperties
<1>6. TypeOK'
  <2>1. SenderTypes'
    BY <1>0, <1>1, <1>2, <1>3 DEF TypeOK, SenderTypes
  <2>2. ReceiverTypes'
    BY <1>0, <1>1, <1>5 DEF TypeOK, ReceiverTypes
  <2>3. Booleans'
    BY <1>0, <1>1, <1>2 DEF TypeOK, Booleans
  <2> QED
    BY <2>1, <2>2, <2>3 DEF TypeOK
<1>7. Receiving'
  <2>1. Len(stream') >= Len(stream) /\ Len(stream') \in Nat
    BY <1>3, <1>5
  <2> QED
    BY <1>0, <1>1, <2>1, ReceivingStays DEF recvVars
<1>8. /\ U \in Nat /\ DOMAIN Unread = 1 .. U /\ DOMAIN Unread' = 1 .. U + n
      /\ Len(Unread') = U + n
      /\ \A j \in 1 .. U : Unread'[j] = Unread[j]
      /\ \A i \in 1 .. n : Unread'[U + i] = <<L, off + i>>
  <2>1. Unread' = Unread \o Part(n)
    <3>1. buffer \o (stream \o Part(n)) = (buffer \o stream) \o Part(n)
      <4>1. PICK q \in Seq(Byte) : q = Part(n)
        BY <1>4
      <4>2. (buffer \o stream) \o q = buffer \o (stream \o q)
        BY <1>5, <4>1, ConcatAssociative, SMTT(40)
      <4> QED
        BY <4>1, <4>2
    <3> QED
      BY <1>1, <3>1 DEF Unread
  <2>2. Unread \in Seq(Byte) /\ Part(n) \in Seq(Byte) /\ Len(Part(n)) = n /\ n \in Nat
    BY <1>0, <1>3, <1>4, UnreadIs
  <2>3. /\ Len(Unread') = U + n /\ U \in Nat /\ DOMAIN Unread = 1 .. U /\ DOMAIN Unread' = 1 .. U + n
        /\ \A j \in 1 .. U : Unread'[j] = Unread[j]
    <3>1. PICK q \in Seq(Byte) : q = Part(n) /\ Len(q) = n
      BY <2>2
    <3>2. Unread' = Unread \o q
      BY <2>1, <3>1
    <3>3. Unread \o q \in Seq(Byte) /\ Len(Unread \o q) = Len(Unread) + n
      BY <2>2, <3>1, ConcatProperties
    <3>4. \A j \in 1 .. Len(Unread) : (Unread \o q)[j] = Unread[j]
      BY <2>2, <3>1, ConcatProperties
    <3> QED
      BY <2>2, <3>2, <3>3, <3>4
  <2>4. \A i \in 1 .. n : Unread'[U + i] = Part(n)[i]
    <3>1. PICK q \in Seq(Byte) : q = Part(n) /\ Len(q) = n
      BY <2>2
    <3>2. Unread' = Unread \o q
      BY <2>1, <3>1
    <3>3. \A i \in 1 .. n : Unread'[U + i] = q[i]
      BY <2>2, <3>1, <3>2
    <3> QED
      BY <3>1, <3>3
  <2> QED
    BY <1>4, <2>3, <2>4
<1>9. Begun' = L /\ (off > 0 => Begun = L) /\ (off = 0 => Begun = L - 1)
  BY <1>1, <1>2, <1>3 DEF Begun
<1>10. \A j \in 1 .. U : /\ Unread[j] = <<Unread[j][1], Unread[j][2]>>
                         /\ Unread[j][1] \in 1 .. L /\ Unread[j][1] \in Nat
                         /\ Unread[j][2] \in Nat /\ Unread[j][2] \in 1 .. lens[Unread[j][1]]
                         /\ lens[Unread[j][1]] \in Nat
                         /\ Unread[j][1] = L => Unread[j][2] <= off
  BY <1>0, <1>1, <1>3, <1>8, UnreadBytes, LensAre DEF Flow, Placed
<1>11. U > 0 => /\ Unread[U][1] = Begun
                /\ off > 0 => Unread[U] = <<L, off>>
                /\ off = 0 /\ Untorn(Begun) => Unread[U][2] = lens[Begun]
  <2> SUFFICES ASSUME U > 0
               PROVE  /\ Unread[U][1] = Begun
                      /\ off > 0 => Unread[U] = <<L, off>>
                      /\ off = 0 /\ Untorn(Begun) => Unread[U][2] = lens[Begun]
    OBVIOUS
  <2>1. Unread # <<>> /\ U \in 1 .. U
    BY <1>0, UnreadIs
  <2>2. /\ Unread[U][1] = Begun
        /\ IF off > 0 THEN Unread[U][2] = off ELSE Untorn(Unread[U][1]) => Unread[U][2] = lens[Unread[U][1]]
    BY <1>0, <2>1 DEF Flow, LastByte
  <2>3. Unread[U] = <<Unread[U][1], Unread[U][2]>>
    BY <1>10, <2>1
  <2> QED
    BY <1>3, <1>9, <2>2, <2>3
<1> HIDE DEF U
<1>12. ASSUME NEW j \in 1 .. U + n
       PROVE  \/ j \in 1 .. U
              \/ \E i \in 1 .. n : j = U + i
  <2>1. j > U => j - U \in 1 .. n /\ j = U + (j - U)
    BY <1>3, <1>8
  <2> QED
    BY <1>8, <2>1
<1>13. Placed(Unread)'
  <2> SUFFICES ASSUME NEW j \in 1 .. U + n
               PROVE  /\ Unread'[j][1] \in DOMAIN lens
                      /\ Unread'[j][2] \in 1 .. lens[Unread'[j][1]]
                      /\ sending' /\ Unread'[j][1] = L => Unread'[j][2] <= off'
    BY <1>1, <1>8 DEF Placed
  <2>1. CASE j \in 1 .. U
    <3>1. Unread'[j] = Unread[j]
      BY <1>8, <2>1
    <3>2. Unread[j][1] \in DOMAIN lens
      BY <1>0, <1>8, <2>1 DEF Flow, Placed
    <3> QED
      BY <1>2, <1>3, <1>10, <2>1, <3>1, <3>2
  <2>2. CASE \E i \in 1 .. n : j = U + i
    <3>1. PICK i \in 1 .. n : j = U + i
      BY <2>2
    <3>2. Unread'[j] = <<L, off + i>>
      BY <1>8, <3>1
    <3>3. Unread'[j][1] = L /\ Unread'[j][2] = off + i
      BY <3>2
    <3> QED
      BY <1>2, <1>3, <3>3
  <2> QED
    BY <1>12, <2>1, <2>2
<1>14. Contiguous(Unread)'
  <2> SUFFICES ASSUME NEW j \in 1 .. U + n, NEW k \in 1 .. U + n, j <= k,
                      Untorn(Unread'[j][1]), Unread'[j][2] + (k - j) <= lens[Unread'[j][1]]
               PROVE  Unread'[k] = <<Unread'[j][1], Unread'[j][2] + (k - j)>>
    BY <1>1, <1>8 DEF Contiguous, Untorn
  <2>1. CASE k \in 1 .. U
    <3>1. j \in 1 .. U
      BY <1>8, <2>1
    <3>2. Unread'[j] = Unread[j] /\ Unread'[k] = Unread[k]
      BY <1>8, <2>1, <3>1
    <3> QED
      BY <1>0, <1>8, <2>1, <3>1, <3>2 DEF Flow, Contiguous
  <2>2. ASSUME NEW i \in 1 .. n, k = U + i, NEW h \in 1 .. n, j = U + h
        PROVE  Unread'[k] = <<Unread'[j][1], Unread'[j][2] + (k - j)>>
    <3>1. Unread'[k] = <<L, off + i>> /\ Unread'[j] = <<L, off + h>>
      BY <1>8, <2>2
    <3>2. (off + h) + (k - j) = off + i
      BY <1>3, <1>8, <2>2
    <3> QED
      BY <3>1, <3>2
  <2>3. ASSUME NEW i \in 1 .. n, k = U + i, j \in 1 .. U
        PROVE  Unread'[k] = <<Unread'[j][1], Unread'[j][2] + (k - j)>>
    <3>1. Unread'[j] = Unread[j] /\ Unread'[k] = <<L, off + i>>
      BY <1>8, <2>3
    <3>2. PICK m \in Nat, b \in Nat : Unread[j] = <<m, b>> /\ m \in 1 .. L /\ lens[m] \in Nat
      BY <1>10, <2>3
    <3>3. Untorn(m) /\ b + (k - j) <= lens[m] /\ U \in 1 .. U /\ j <= U
      <4>1. Unread'[j][1] = m /\ Unread'[j][2] = b
        BY <3>1, <3>2
      <4>2. Untorn(m) /\ b + (k - j) <= lens[m]
        BY <4>1, Zenon
      <4>3. U \in Nat /\ j \in 1 .. U
        BY <1>8, <2>3
      <4>4. U \in 1 .. U /\ j <= U
        BY <4>3
      <4> QED
        BY <4>2, <4>4
    <3>4. b + (U - j) < lens[m] /\ b + (U - j) \in Nat
      BY <1>8, <2>3, <3>2, <3>3, SMTT(40)
    <3>5. Unread[U] = <<m, b + (U - j)>>
      <4>1. j \in DOMAIN Unread /\ U \in DOMAIN Unread /\ Unread[j][1] = m /\ Unread[j][2] = b
        BY <1>8, <2>3, <3>2, <3>3
      <4>2. j <= U /\ Untorn(Unread[j][1])
        BY <3>2, <3>3, <4>1
      <4>3. Unread[j][2] + (U - j) <= lens[Unread[j][1]]
        BY <3>2, <3>4, <4>1, SMTT(40)
      <4> QED
        BY <1>0, <4>1, <4>2, <4>3, SMTT(40) DEF Flow, Contiguous
    <3>6. m = Begun /\ (off = 0 => b + (U - j) = lens[m]) /\ (off > 0 => m = L /\ b + (U - j) = off)
      <4>1. U > 0
        BY <1>8, <3>3
      <4> QED
        BY <1>11, <3>3, <3>5, <4>1
    <3>7. m = L /\ b + (U - j) = off
      BY <1>3, <3>2, <3>4, <3>6
    <3>8. b + (k - j) = off + i
      <4>1. k - j = (U - j) + i
        BY <1>8, <2>3
      <4> QED
        BY <1>3, <1>8, <2>3, <3>2, <3>7, <4>1
    <3> QED
      BY <3>1, <3>2, <3>7, <3>8
  <2> QED
    BY <1>12, <2>1, <2>2, <2>3
<1>15. InOrder(Unread)'
  <2> SUFFICES ASSUME NEW j \in 1 .. U + n, j + 1 \in 1 .. U + n,
                      Unread'[j][2] = lens[Unread'[j][1]]
               PROVE  Unread'[j + 1] = <<Unread'[j][1] + 1, 1>>
    BY <1>1, <1>8 DEF InOrder
  <2>1. CASE j \in 1 .. U /\ j + 1 \in 1 .. U
    <3>1. Unread'[j] = Unread[j] /\ Unread'[j + 1] = Unread[j + 1]
      BY <1>8, <2>1
    <3> QED
      BY <1>0, <1>8, <2>1, <3>1 DEF Flow, InOrder
  <2>2. CASE j = U /\ j \in 1 .. U
    <3>1. Unread'[j] = Unread[U] /\ Unread'[j + 1] = <<L, off + 1>>
      BY <1>3, <1>8, <2>2
    <3>2. off = 0
      <4>1. off > 0 => Unread[U] = <<L, off>>
        BY <1>8, <1>11, <2>2
      <4> QED
        BY <1>3, <3>1, <4>1
    <3>3. Unread[U][1] = L - 1
      BY <1>8, <1>9, <1>11, <2>2, <3>2
    <3> QED
      BY <1>3, <3>1, <3>2, <3>3
  <2>3. ASSUME NEW i \in 1 .. n, j = U + i
        PROVE  FALSE
    <3>1. Unread'[j] = <<L, off + i>>
      BY <1>8, <2>3
    <3>2. i + 1 <= n
      BY <1>8, <1>3, <2>3
    <3> QED
      BY <1>3, <3>1, <3>2
  <2> QED
    BY <1>8, <1>12, <2>1, <2>2, <2>3
<1>16. LastByte(Unread)'
  <2>1. Unread'[U + n] = <<L, off + n>>
    BY <1>3, <1>8
  <2>2. off' > 0 => off' = off + n
    BY <1>2
  <2>3. off' = 0 => off + n = lens[L]
    BY <1>2, <1>3
  <2>4. off' \in Nat
    BY <1>2, <1>3
  <2> QED
    BY <1>1, <1>8, <1>9, <2>1, <2>2, <2>3, <2>4 DEF LastByte
<1>17. Len(log) \in Nat
  BY <1>0 DEF TypeOK, ReceiverTypes
<1>18. FirstByte(Unread)'
  <2> SUFFICES ASSUME pc # "end", Untorn(Len(log) + 1)
               PROVE  /\ Unread'[1] = <<Len(log) + 1, 1>>
                      /\ pc \in {"peek", "take"} => want = lens[Len(log) + 1]
    <3>1. Unread' # <<>>
      BY <1>3, <1>6, <1>8, UnreadIs
    <3> QED
      BY <1>1, <3>1 DEF FirstByte, Untorn
  <2>1. CASE U = 0
    <3>1. Unread = <<>>
      BY <1>0, <2>1, UnreadIs DEF U
    <3>2. off = 0 /\ Len(log) = L - 1 /\ pc \notin {"peek", "take"}
      BY <1>0, <1>3, <1>9, <3>1 DEF FirstByte
    <3>3. Unread'[1] = <<L, off + 1>>
      BY <1>3, <1>8, <2>1
    <3> QED
      BY <1>3, <1>17, <3>2, <3>3
  <2>2. CASE U # 0
    <3>1. Unread # <<>> /\ Unread'[1] = Unread[1]
      BY <1>0, <1>8, <2>2, UnreadIs DEF U
    <3> QED
      BY <1>0, <3>1 DEF FirstByte
  <2> QED
    BY <2>1, <2>2
<1>19. Logged'
  <2>1. torn = 0 => Len(log) <= L - 1
    BY <1>0, <1>1 DEF Logged, Whole
  <2> QED
    BY <1>0, <1>1, <1>2, <1>3, <1>17, <2>1 DEF Logged, Untorn, Whole
<1> QED
  BY <1>6, <1>7, <1>13, <1>14, <1>15, <1>16, <1>18, <1>19 DEF IInv, Flow

LEMMA CloseKeeps ==
  ASSUME IInv, Close
  PROVE  IInv'
<1>0. TypeOK /\ Receiving /\ Flow(Unread) /\ FirstByte(Unread) /\ Logged
  BY DEF IInv
<1>1. /\ closed' = TRUE
      /\ UNCHANGED <<tx, rx, caller, lens, sending, off, torn, stream, pc, want, buffer, result, log, early_left>>
  BY DEF Close, recvVars
<1>2. TypeOK'
  <2>1. SenderTypes' /\ ReceiverTypes'
    BY <1>0, <1>1 DEF TypeOK, SenderTypes, ReceiverTypes
  <2>2. Booleans'
    BY <1>0, <1>1 DEF TypeOK, Booleans
  <2> QED
    BY <2>1, <2>2 DEF TypeOK
<1>3. Receiving'
  BY <1>0, <1>1 DEF Receiving
<1>4. Unread' = Unread /\ Begun' = Begun
  BY <1>1 DEF Unread, Begun
<1>5. Flow(Unread)'
  BY <1>0, <1>1, <1>4 DEF Flow, Placed, Contiguous, InOrder, LastByte, Untorn
<1>6. FirstByte(Unread)'
  BY <1>0, <1>1, <1>4 DEF FirstByte, Untorn
<1>7. Logged'
  BY <1>0, <1>1 DEF Logged, Untorn, Whole
<1> QED
  BY <1>2, <1>3, <1>5, <1>6, <1>7 DEF IInv

LEMMA SenderKeeps ==
  ASSUME IInv, SenderStep
  PROVE  IInv'
<1>1. CASE \E n \in Length : StartSend(n)
  BY <1>1, StartSendKeeps
<1>2. CASE \E n \in 1 .. MaxLen : SendPart(n)
  BY <1>2, SendPartKeeps
<1>3. CASE SendTimeout
  BY <1>3, ForgetKeeps, TearKeeps
<1>4. CASE Close
  BY <1>4, CloseKeeps
<1> QED
  BY <1>1, <1>2, <1>3, <1>4 DEF SenderStep

-----------------------------------------------------------------------------
(* The receiver *)

\* A step that consumes nothing.
LEMMA LookKeeps ==
  ASSUME IInv, UNCHANGED <<tx, rx, caller, sendVars, stream, buffer, log>>,
         pc' \in {"idle", "length", "peek", "take", "end"}, want' \in Nat, Receiving',
         pc' # "end" => pc # "end",
         pc' \in {"peek", "take"} /\ Untorn(Len(log) + 1) => Unread # <<>> /\ want' = lens[Len(log) + 1]
  PROVE  IInv'
<1>0. TypeOK /\ Flow(Unread) /\ FirstByte(Unread) /\ Logged
  BY DEF IInv
<1>1. UNCHANGED <<tx, rx, caller, lens, sending, off, torn, closed, stream, buffer, log>>
  BY DEF sendVars
<1>2. TypeOK'
  <2>1. SenderTypes' /\ ReceiverTypes'
    BY <1>0, <1>1 DEF TypeOK, SenderTypes, ReceiverTypes
  <2>2. Booleans'
    BY <1>0, <1>1 DEF TypeOK, Booleans
  <2> QED
    BY <2>1, <2>2 DEF TypeOK
<1>3. Unread' = Unread /\ Begun' = Begun
  BY <1>1 DEF Unread, Begun
<1>4. Flow(Unread)'
  BY <1>0, <1>1, <1>3 DEF Flow, Placed, Contiguous, InOrder, LastByte, Untorn
<1>5. FirstByte(Unread)'
  BY <1>0, <1>1, <1>3 DEF FirstByte, Untorn
<1>6. Logged'
  BY <1>0, <1>1 DEF Logged, Untorn, Whole
<1> QED
  BY <1>2, <1>4, <1>5, <1>6 DEF IInv

LEMMA CallKeeps ==
  ASSUME IInv, Call
  PROVE  IInv'
<1>1. /\ UNCHANGED <<tx, rx, caller, sendVars, stream, buffer, log>> /\ pc = "idle"
      /\ pc' = "length" /\ want' = 2
  BY ConstantsAre DEF Call
<1>2. Receiving'
  BY <1>1 DEF IInv, Receiving
<1> QED
  BY <1>1, <1>2, LookKeeps

\* A receive that fails with nothing in its buffer.
LEMMA FailKeeps ==
  ASSUME IInv, NEW err, Fail(err), buffer = <<>>, pc # "end", UNCHANGED <<tx, rx, caller, sendVars, stream>>
  PROVE  IInv'
<1>1. pc' \in {"idle", "end"} /\ want' = 0 /\ buffer' = <<>> /\ log' = log
  BY DEF Fail, Goes
<1>2. Receiving'
  BY <1>1 DEF IInv, Receiving
<1> QED
  BY <1>1, <1>2, LookKeeps

LEMMA GiveUpKeeps ==
  ASSUME IInv, GiveUp
  PROVE  IInv'
<1>1. Fail("RECV_ZERO_PENDING") /\ pc \in {"length", "peek"} /\ UNCHANGED <<tx, rx, caller, sendVars, stream>>
  BY DEF GiveUp
<1>2. buffer = <<>>
  BY <1>1 DEF IInv, Receiving
<1> QED
  BY <1>1, <1>2, FailKeeps

LEMMA RecvTimeoutKeeps ==
  ASSUME IInv, RecvTimeout
  PROVE  IInv'
<1>1. PICK err : Fail(err)
  BY DEF RecvTimeout
<1>2. rx = "timeout" /\ pc \in {"length", "peek", "take"} /\ UNCHANGED <<tx, rx, caller, sendVars, stream>>
  BY DEF RecvTimeout
<1>3. buffer = <<>>
  BY <1>2 DEF IInv, Receiving
<1> QED
  BY <1>1, <1>2, <1>3, FailKeeps

\* The end of the stream: a receive drops what it has, and its caller ends.
LEMMA ReadClosedDrops ==
  ASSUME IInv, ReadClosed, pc' = "end"
  PROVE  IInv'
<1>0. TypeOK /\ Flow(Unread) /\ FirstByte(Unread) /\ Logged
  BY DEF IInv
<1>1. /\ pc' = "end" /\ want' = 0 /\ buffer' = <<>> /\ stream = <<>>
      /\ UNCHANGED <<tx, rx, caller, lens, sending, off, torn, closed, stream, log>>
  BY DEF ReadClosed, Fail, sendVars
<1>2. TypeOK'
  <2>1. SenderTypes'
    BY <1>0, <1>1 DEF TypeOK, SenderTypes
  <2>2. ReceiverTypes'
    <3>1. <<>> \in Seq(Byte)
      OBVIOUS
    <3> QED
      BY <1>0, <1>1, <3>1 DEF TypeOK, ReceiverTypes
  <2>3. Booleans'
    BY <1>0, <1>1 DEF TypeOK, Booleans
  <2> QED
    BY <2>1, <2>2, <2>3 DEF TypeOK
<1>3. Receiving'
  BY <1>1 DEF IInv, Receiving
<1>4. Len(Unread') = 0 /\ Len(Unread) \in Nat
  <2>1. Len(buffer') = 0 /\ Len(stream') = 0
    BY <1>1
  <2>2. Len(Unread') = Len(buffer') + Len(stream')
    BY <1>2 DEF TypeOK, ReceiverTypes, Unread
  <2>3. Len(Unread) \in Nat
    BY <1>0, UnreadIs
  <2> QED
    BY <2>1, <2>2, <2>3
<1>5. Flow(Unread)'
  BY <1>0, <1>1, <1>2, <1>4, SuffixFlows
<1>6. FirstByte(Unread)'
  BY <1>1 DEF FirstByte
<1>7. Logged'
  BY <1>0, <1>1 DEF Logged, Untorn, Whole
<1> QED
  BY <1>2, <1>3, <1>5, <1>6, <1>7 DEF IInv

LEMMA ReadClosedKeeps ==
  ASSUME IInv, ReadClosed
  PROVE  IInv'
<1>1. /\ Fail("CONNECTION_BROKEN") /\ pc \in {"length", "take"}
      /\ UNCHANGED <<tx, rx, caller, sendVars, stream>>
  BY DEF ReadClosed
<1>2. CASE buffer = <<>>
  BY <1>1, <1>2, FailKeeps
<1>3. CASE buffer # <<>>
  <2>1. caller = "fragment"
    BY <1>3 DEF IInv, Receiving
  <2>2. pc' = "end"
    BY <1>1, <2>1 DEF Fail, Goes
  <2> QED
    BY <2>2, ReadClosedDrops
<1> QED
  BY <1>2, <1>3

\* What the length field of the next message says.
LEMMA LengthIsRead ==
  ASSUME IInv, pc = "length", Len(stream) >= LengthBytes, Untorn(Len(log) + 1),
         NEW n \in Decoded(SubSeq(stream, 1, LengthBytes))
  PROVE  Unread # <<>> /\ n = lens[Len(log) + 1]
<1>0. TypeOK /\ Flow(Unread) /\ FirstByte(Unread) /\ buffer = <<>>
  BY DEF IInv, Receiving
<1>1. stream \in Seq(Byte) /\ Len(stream) \in Nat /\ Len(stream) >= 2 /\ Len(log) \in Nat
  BY <1>0, ConstantsAre DEF TypeOK, ReceiverTypes
<1>2. Unread = stream
  BY <1>0, <1>1 DEF Unread
<1>3. stream # <<>> /\ stream[1] = <<Len(log) + 1, 1>>
  BY <1>0, <1>1, <1>2 DEF FirstByte
<1>4. Len(log) + 1 \in DOMAIN lens /\ lens[Len(log) + 1] \in Nat /\ lens[Len(log) + 1] > 3
  <2>1. stream[1][1] \in DOMAIN lens
    BY <1>0, <1>1, <1>2 DEF Flow, Placed
  <2>2. Len(log) + 1 \in DOMAIN lens
    BY <1>3, <2>1
  <2> QED
    BY <1>0, <2>2, LensAre, ConstantsAre
<1>5. stream[2] = <<Len(log) + 1, 2>>
  <2>1. stream[1][1] = Len(log) + 1 /\ stream[1][2] = 1 /\ 1 \in DOMAIN stream /\ 2 \in DOMAIN stream
    BY <1>1, <1>3
  <2>2. stream[2] = <<stream[1][1], stream[1][2] + (2 - 1)>>
    BY <1>0, <1>2, <1>4, <2>1 DEF Flow, Contiguous
  <2> QED
    BY <2>1, <2>2
<1> DEFINE s == SubSeq(stream, 1, LengthBytes)
<1>6. DOMAIN s = 1 .. 2 /\ s[1] = stream[1] /\ s[2] = stream[2]
  BY <1>1, ConstantsAre
<1> HIDE DEF s
<1>7. Begins(s, Len(log) + 1)
  BY <1>3, <1>5, <1>6 DEF Begins
<1>8. Decoded(s) = {lens[s[1][1]]}
  BY <1>4, <1>7 DEF Decoded
<1>9. n \in Decoded(s)
  BY DEF s
<1>10. s[1][1] = Len(log) + 1
  BY <1>3, <1>6
<1> QED
  BY <1>2, <1>3, <1>8, <1>9, <1>10

LEMMA PeekLengthKeeps ==
  ASSUME IInv, NEW n \in 0 .. MaxLen + 1, PeekLength(n)
  PROVE  IInv'
<1>1. /\ pc = "length" /\ Len(stream) >= LengthBytes
      /\ n \in Decoded(SubSeq(stream, 1, LengthBytes))
      /\ UNCHANGED <<tx, rx, caller, sendVars, stream>>
  BY DEF PeekLength
<1>2. buffer = <<>>
  BY <1>1 DEF IInv, Receiving
<1>3. CASE n \notin MinLen .. MaxLen
  BY <1>1, <1>2, <1>3, FailKeeps DEF PeekLength
<1>4. CASE n \in MinLen .. MaxLen
  <2>1. /\ pc' = (IF rx = "block" THEN "take" ELSE "peek") /\ want' = n
        /\ UNCHANGED <<buffer, log>>
    BY <1>4 DEF PeekLength
  <2>2. n \in Nat /\ n > 0
    BY <1>4, ConstantsAre
  <2>3. Receiving'
    BY <1>1, <1>2, <1>4, <2>1, <2>2 DEF IInv, Receiving
  <2>4. Untorn(Len(log) + 1) => Unread # <<>> /\ want' = lens[Len(log) + 1]
    BY <1>1, <2>1, LengthIsRead
  <2> QED
    BY <1>1, <2>1, <2>2, <2>3, <2>4, LookKeeps
<1> QED
  BY <1>3, <1>4

LEMMA PeekMessageKeeps ==
  ASSUME IInv, PeekMessage
  PROVE  IInv'
<1>1. /\ pc = "peek" /\ Len(stream) >= want /\ pc' = "take"
      /\ UNCHANGED <<tx, rx, caller, sendVars, stream, want, buffer, log>>
  BY DEF PeekMessage
<1>2. want \in MinLen .. MaxLen /\ buffer = <<>> /\ want \in Nat /\ want > 0
  BY <1>1, ConstantsAre DEF IInv, Receiving
<1>3. Receiving'
  BY <1>1, <1>2 DEF IInv, Receiving
<1>4. Untorn(Len(log) + 1) => Unread # <<>> /\ want' = lens[Len(log) + 1]
  BY <1>1 DEF IInv, FirstByte
<1> QED
  BY <1>1, <1>2, <1>3, <1>4, LookKeeps


\* What one recv() takes, and what the receive then has.
Taken == Least(want - Len(buffer), Len(stream))
Piece == buffer \o SubSeq(stream, 1, Taken)

LEMMA TakenIs ==
  ASSUME IInv, pc = "take", stream # <<>>
  PROVE  /\ want \in Nat /\ want > 3 /\ Taken \in Nat /\ Taken > 0
         /\ Len(buffer) \in Nat /\ Len(stream) \in Nat /\ Taken <= Len(stream)
         /\ Piece \in Seq(Byte) /\ Len(Piece) = Len(buffer) + Taken /\ Len(Piece) <= want
         /\ Len(Piece) < want => Taken = Len(stream) /\ rx = "block"
         /\ Len(Unread) = Len(buffer) + Len(stream)
         /\ \A j \in 1 .. Len(Piece) : Piece[j] = Unread[j]
<1>1. /\ buffer \in Seq(Byte) /\ stream \in Seq(Byte) /\ want \in MinLen .. MaxLen
      /\ Len(buffer) < want /\ TypeOK
      /\ rx # "block" => buffer = <<>> /\ Len(stream) >= want
  BY DEF IInv, TypeOK, ReceiverTypes, Receiving
<1>2. want \in Nat /\ want > 3
  BY <1>1, ConstantsAre
<1>3. Len(buffer) \in Nat /\ Len(stream) \in Nat /\ Len(stream) > 0
  BY <1>1
<1>4. Taken \in Nat /\ Taken > 0 /\ Taken <= Len(stream) /\ Len(buffer) + Taken <= want
      /\ (Len(buffer) + Taken < want => Taken = Len(stream))
  BY <1>1, <1>2, <1>3 DEF Taken, Least
<1> DEFINE h == SubSeq(stream, 1, Taken)
<1>5. h \in Seq(Byte) /\ Len(h) = Taken /\ \A j \in 1 .. Taken : h[j] = stream[j]
  BY <1>1, <1>3, <1>4
<1> HIDE DEF h
<1>6. Piece = buffer \o h
  BY DEF Piece, h
<1>7. /\ Piece \in Seq(Byte) /\ Len(Piece) = Len(buffer) + Taken
      /\ \A j \in 1 .. Len(Piece) : Piece[j] = IF j <= Len(buffer) THEN buffer[j] ELSE h[j - Len(buffer)]
  <2>1. Piece \in Seq(Byte) /\ Len(Piece) = Len(buffer) + Taken
    BY <1>1, <1>5, <1>6, ConcatProperties
  <2>2. \A j \in 1 .. Len(buffer) + Len(h) : (buffer \o h)[j] = IF j <= Len(buffer) THEN buffer[j] ELSE h[j - Len(buffer)]
    BY <1>1, <1>5
  <2> QED
    BY <1>5, <1>6, <2>1, <2>2
<1>8. rx # "block" => Len(buffer) = 0
  BY <1>1
<1>9. Len(Piece) < want => rx = "block"
  BY <1>1, <1>2, <1>3, <1>4, <1>7, <1>8
<1>10. ASSUME NEW j \in 1 .. Len(Piece)
       PROVE  Piece[j] = Unread[j]
  <2>1. Unread[j] = IF j <= Len(buffer) THEN buffer[j] ELSE stream[j - Len(buffer)]
    BY <1>1, <1>3, <1>4, <1>7, UnreadIs
  <2>2. j > Len(buffer) => j - Len(buffer) \in 1 .. Taken
    BY <1>3, <1>4, <1>7
  <2> QED
    BY <1>3, <1>5, <1>7, <2>1, <2>2
<1>11. Len(Unread) = Len(buffer) + Len(stream)
  BY <1>1, UnreadIs
<1> QED
  BY <1>2, <1>3, <1>4, <1>7, <1>9, <1>10, <1>11

\* The next message, as long as none is torn, is the first thing there is.
LEMMA NextMessage ==
  ASSUME IInv, pc = "take", Untorn(Len(log) + 1), Len(Unread) >= want
  PROVE  /\ Len(log) + 1 \in DOMAIN lens /\ want = lens[Len(log) + 1]
         /\ \A j \in 1 .. want : Unread[j] = <<Len(log) + 1, j>>
         /\ sending => Len(log) + 1 # Len(lens)
<1>0. TypeOK /\ Flow(Unread) /\ FirstByte(Unread) /\ want \in MinLen .. MaxLen
  BY DEF IInv, Receiving
<1>1. want \in Nat /\ want > 3
  BY <1>0, ConstantsAre
<1>2. DOMAIN Unread = 1 .. Len(Unread) /\ Len(Unread) \in Nat /\ 1 \in DOMAIN Unread
  BY <1>0, <1>1, UnreadIs
<1>3. Unread # <<>> /\ Unread[1] = <<Len(log) + 1, 1>> /\ want = lens[Len(log) + 1]
  BY <1>0 DEF FirstByte
<1>4. Unread[1][1] = Len(log) + 1 /\ Unread[1][2] = 1
  BY <1>3
<1>5. Len(log) + 1 \in DOMAIN lens
  <2>1. Unread[1][1] \in DOMAIN lens
    BY <1>0, <1>2 DEF Flow, Placed
  <2> QED
    BY <1>4, <2>1
<1>6. ASSUME NEW j \in 1 .. want
      PROVE  Unread[j] = <<Len(log) + 1, j>>
  <2>1. j \in DOMAIN Unread /\ 1 <= j /\ 1 + (j - 1) = j /\ j <= want
    BY <1>1, <1>2
  <2>2. Unread[1][2] + (j - 1) <= lens[Unread[1][1]] /\ Untorn(Unread[1][1])
    BY <1>3, <1>4, <2>1
  <2>3. Unread[j] = <<Unread[1][1], Unread[1][2] + (j - 1)>>
    BY <1>0, <1>2, <2>1, <2>2 DEF Flow, Contiguous
  <2> QED
    BY <1>4, <2>1, <2>3
<1>7. ASSUME sending, Len(log) + 1 = Len(lens)
      PROVE  FALSE
  <2>1. want \in DOMAIN Unread /\ want \in 1 .. want
    BY <1>1, <1>2
  <2>2. Unread[want][1] = Len(lens) /\ Unread[want][2] = want
    BY <1>6, <1>7, <2>1
  <2>3. want <= off
    BY <1>0, <1>7, <2>1, <2>2 DEF Flow, Placed
  <2>4. off < want /\ off \in Nat
    BY <1>0, <1>3, <1>7 DEF TypeOK, SenderTypes
  <2> QED
    BY <1>1, <2>3, <2>4
<1> QED
  BY <1>3, <1>5, <1>6, <1>7


LEMMA TakeBytesIs ==
  ASSUME IInv, NEW valid \in BOOLEAN, TakeBytes(valid)
  PROVE  /\ pc = "take" /\ stream # <<>>
         /\ stream' = SubSeq(stream, Taken + 1, Len(stream))
         /\ Len(Piece) < want => buffer' = Piece /\ UNCHANGED <<pc, want, log>>
         /\ ~(Len(Piece) < want) =>
              /\ valid \in Validate(Piece) /\ log' = Append(log, Entry(Piece))
              /\ pc' \in {"idle", "end"} /\ want' = 0 /\ buffer' = <<>>
              /\ result' = IF valid THEN "NONE" ELSE "INVALID"
         /\ UNCHANGED <<tx, rx, caller, lens, sending, off, torn, closed>>
  BY DEF TakeBytes, Taken, Piece, Goes, sendVars

\* There is less than the message: only a blocking receive gets here.
LEMMA TakePartKeeps ==
  ASSUME IInv, NEW valid \in BOOLEAN, TakeBytes(valid), Len(Piece) < want
  PROVE  IInv'
<1>0. TypeOK /\ Receiving /\ Flow(Unread) /\ FirstByte(Unread) /\ Logged
  BY DEF IInv
<1>1. /\ pc = "take" /\ stream # <<>> /\ stream' = SubSeq(stream, Taken + 1, Len(stream))
      /\ buffer' = Piece
      /\ UNCHANGED <<tx, rx, caller, lens, sending, off, torn, closed, pc, want, log>>
  BY TakeBytesIs
<1>2. /\ Taken = Len(stream) /\ rx = "block" /\ Piece \in Seq(Byte) /\ Len(stream) \in Nat
      /\ Len(Piece) = Len(buffer) + Len(stream)
      /\ Len(Unread) = Len(Piece) /\ \A j \in 1 .. Len(Piece) : Piece[j] = Unread[j]
  BY <1>1, TakenIs
<1>3. stream' = <<>>
  BY <1>0, <1>1, <1>2 DEF TypeOK, ReceiverTypes
<1>4. Piece = Unread
  BY <1>0, <1>2, UnreadIs, SeqEqual
<1>5. Unread' = Unread
  <2>1. Unread' = Piece \o <<>>
    BY <1>1, <1>3 DEF Unread
  <2> QED
    BY <1>2, <1>4, <2>1, ConcatEmptySeq
<1>6. TypeOK'
  <2>1. SenderTypes'
    BY <1>0, <1>1 DEF TypeOK, SenderTypes
  <2>2. ReceiverTypes'
    BY <1>0, <1>1, <1>2, <1>3 DEF TypeOK, ReceiverTypes
  <2>3. Booleans'
    BY <1>0, <1>1 DEF TypeOK, Booleans
  <2> QED
    BY <2>1, <2>2, <2>3 DEF TypeOK
<1>7. Receiving'
  BY <1>0, <1>1, <1>2 DEF Receiving
<1>8. Begun' = Begun
  BY <1>1 DEF Begun
<1>9. Flow(Unread)'
  BY <1>0, <1>1, <1>5, <1>8 DEF Flow, Placed, Contiguous, InOrder, LastByte, Untorn
<1>10. FirstByte(Unread)'
  BY <1>0, <1>1, <1>5, <1>8 DEF FirstByte, Untorn
<1>11. Logged'
  BY <1>0, <1>1 DEF Logged, Untorn, Whole
<1> QED
  BY <1>6, <1>7, <1>9, <1>10, <1>11 DEF IInv

\* The message is complete: what is left begins where it ended.
LEMMA TakeWholeShifts ==
  ASSUME IInv, NEW valid \in BOOLEAN, TakeBytes(valid), ~(Len(Piece) < want)
  PROVE  /\ Len(Piece) = want /\ want \in Nat /\ want > 3 /\ want <= Len(Unread)
         /\ Unread' = stream' /\ stream' \in Seq(Byte)
         /\ Len(Unread') = Len(Unread) - want /\ Len(Unread) \in Nat
         /\ \A j \in 1 .. Len(Unread') : Unread'[j] = Unread[j + want]
<1>0. TypeOK
  BY DEF IInv
<1>1. /\ pc = "take" /\ stream # <<>> /\ stream' = SubSeq(stream, Taken + 1, Len(stream))
      /\ buffer' = <<>>
  BY TakeBytesIs
<1>2. /\ want \in Nat /\ want > 3 /\ Taken \in Nat /\ Taken <= Len(stream)
      /\ Len(buffer) \in Nat /\ Len(stream) \in Nat /\ Len(Piece) = Len(buffer) + Taken
      /\ Len(Piece) <= want /\ Len(Unread) = Len(buffer) + Len(stream)
  BY <1>1, TakenIs
<1>3. Len(Piece) = want /\ want = Len(buffer) + Taken /\ want <= Len(Unread) /\ Len(Unread) \in Nat
  BY <1>2
<1>4. stream \in Seq(Byte)
  BY <1>0 DEF TypeOK, ReceiverTypes
<1>5. /\ stream' \in Seq(Byte) /\ Len(stream') = Len(stream) - Taken
      /\ \A j \in 1 .. Len(stream') : stream'[j] = stream[j + Taken]
  BY <1>1, <1>2, <1>4, SuffixIs
<1>6. Unread' = stream'
  BY <1>1, <1>5 DEF Unread
<1>7. ASSUME NEW j \in 1 .. Len(Unread')
      PROVE  Unread'[j] = Unread[j + want]
  <2>1. Unread'[j] = stream[j + Taken] /\ j \in Nat /\ j >= 1 /\ j <= Len(stream) - Taken
    BY <1>2, <1>5, <1>6
  <2>2. j + want \in 1 .. Len(Unread) /\ ~(j + want <= Len(buffer)) /\ j + want - Len(buffer) = j + Taken
    BY <1>2, <1>3, <2>1
  <2>3. PICK i \in Nat : i = j + want
    BY <1>2, <2>1
  <2>4. i \in 1 .. Len(Unread) /\ ~(i <= Len(buffer)) /\ i - Len(buffer) = j + Taken
    BY <1>2, <1>3, <2>1, <2>3
  <2>5. Unread[i] = stream[i - Len(buffer)]
    BY <1>0, <2>4, UnreadIs
  <2> QED
    BY <2>1, <2>3, <2>4, <2>5
<1>8. Len(Unread') = Len(Unread) - want
  BY <1>2, <1>3, <1>5, <1>6
<1> QED
  BY <1>2, <1>3, <1>5, <1>6, <1>7, <1>8


LEMMA TakeWholeKeeps ==
  ASSUME IInv, NEW valid \in BOOLEAN, TakeBytes(valid), ~(Len(Piece) < want)
  PROVE  /\ IInv' /\ Entry(Piece) \in Nat
         /\ Untorn(Len(log) + 1) => log' = Append(log, Len(log) + 1) /\ (torn = 0 => Len(log) + 1 <= Whole)
<1>0. TypeOK /\ Receiving /\ Flow(Unread) /\ FirstByte(Unread) /\ Logged
  BY DEF IInv
<1>1. /\ pc = "take" /\ stream # <<>> /\ log' = Append(log, Entry(Piece))
      /\ pc' \in {"idle", "end"} /\ want' = 0 /\ buffer' = <<>>
      /\ UNCHANGED <<tx, rx, caller, lens, sending, off, torn, closed>>
  BY TakeBytesIs
<1>2. /\ Len(Piece) = want /\ want \in Nat /\ want > 3 /\ want <= Len(Unread)
      /\ Unread' = stream' /\ stream' \in Seq(Byte)
      /\ Len(Unread') = Len(Unread) - want /\ Len(Unread) \in Nat
      /\ \A j \in 1 .. Len(Unread') : Unread'[j] = Unread[j + want]
  BY TakeWholeShifts
<1>3. PICK k \in Nat : k = Len(log)
  BY <1>0 DEF TypeOK, ReceiverTypes
<1>4. Piece \in Seq(Byte) /\ \A j \in 1 .. want : Piece[j] = Unread[j]
  BY <1>1, <1>2, TakenIs
<1>5. Untorn(k + 1) => /\ k + 1 \in DOMAIN lens /\ want = lens[k + 1]
                       /\ \A j \in 1 .. want : Unread[j] = <<k + 1, j>>
                       /\ sending => k + 1 # Len(lens)
  BY <1>1, <1>2, <1>3, NextMessage
<1>6. Untorn(k + 1) => Entry(Piece) = k + 1
  <2> SUFFICES ASSUME Untorn(k + 1) PROVE Entry(Piece) = k + 1
    OBVIOUS
  <2>1. \A j \in 1 .. want : Piece[j] = <<k + 1, j>>
    BY <1>4, <1>5
  <2>2. Piece[1][1] = k + 1 /\ DOMAIN Piece = 1 .. want
    BY <1>2, <1>4, <2>1
  <2>3. Begins(Piece, k + 1)
    BY <2>1, <2>2 DEF Begins
  <2> QED
    BY <2>2, <2>3 DEF Entry
<1>7. Entry(Piece) \in Nat
  <2>1. Piece[1] \in Byte
    BY <1>2, <1>4
  <2>2. Piece[1][1] \in Nat
    BY <2>1 DEF Byte
  <2> QED
    BY <2>2 DEF Entry
<1>8. /\ log' \in Seq(Nat) /\ Len(log') = k + 1 /\ DOMAIN log' = 1 .. k + 1
      /\ log'[k + 1] = Entry(Piece) /\ \A i \in 1 .. k : log'[i] = log[i]
      /\ DOMAIN log = 1 .. k
  BY <1>0, <1>1, <1>3, <1>7 DEF TypeOK, ReceiverTypes
<1>9. TypeOK'
  <2>1. SenderTypes'
    BY <1>0, <1>1 DEF TypeOK, SenderTypes
  <2>2. ReceiverTypes'
    <3>1. <<>> \in Seq(Byte) /\ 0 \in Nat
      OBVIOUS
    <3> QED
      BY <1>1, <1>2, <1>8, <3>1 DEF ReceiverTypes
  <2>3. Booleans'
    BY <1>0, <1>1 DEF TypeOK, Booleans
  <2> QED
    BY <2>1, <2>2, <2>3 DEF TypeOK
<1>10. Receiving'
  BY <1>0, <1>1 DEF Receiving
<1>11. Flow(Unread)'
  BY <1>0, <1>1, <1>2, <1>9, SuffixFlows
<1>12. ASSUME Untorn(k + 1) PROVE torn = 0 => k + 1 <= Whole
  <2>1. k + 1 \in DOMAIN lens /\ (sending => k + 1 # Len(lens))
    BY <1>5, <1>12
  <2>2. PICK l \in Nat : l = Len(lens) /\ DOMAIN lens = 1 .. l
    BY <1>0, LensAre
  <2>3. k + 1 \in 1 .. l
    BY <2>1, <2>2
  <2>4. k + 1 <= l /\ (k + 1 # l => k + 1 <= l - 1)
    BY <2>3
  <2>5. k + 1 <= Len(lens) /\ (k + 1 # Len(lens) => k + 1 <= Len(lens) - 1)
    BY <2>2, <2>4
  <2>6. CASE sending
    BY <2>1, <2>5, <2>6 DEF Whole
  <2>7. CASE ~sending
    BY <2>5, <2>7 DEF Whole
  <2> QED
    BY <2>6, <2>7
<1>13. Logged'
  <2>1. ASSUME NEW i \in 1 .. k + 1, Untorn(i) PROVE log'[i] = i
    <3>1. CASE i = k + 1
      BY <1>6, <1>8, <2>1, <3>1
    <3>2. CASE i # k + 1
      <4>1. i \in 1 .. k
        BY <3>2
      <4> QED
        BY <1>0, <1>8, <2>1, <4>1 DEF Logged
    <3> QED
      BY <3>1, <3>2
  <2>2. torn = 0 => k + 1 <= Whole
    BY <1>12 DEF Untorn
  <2> QED
    BY <1>1, <1>8, <2>1, <2>2 DEF Logged, Untorn, Whole
<1>14. FirstByte(Unread)'
  <2> SUFFICES ASSUME Untorn(k + 2)
               PROVE  IF Unread' = <<>> THEN off = 0 /\ k + 1 = Begun ELSE Unread'[1] = <<k + 2, 1>>
    <3>1. (k + 1) + 1 = k + 2 /\ pc' \notin {"peek", "take"}
      BY <1>1
    <3>2. Begun' = Begun
      BY <1>1 DEF Begun
    <3> QED
      BY <1>1, <1>8, <3>1, <3>2 DEF FirstByte, Untorn
  <2>1. Untorn(k + 1)
    <3>1. torn \in Nat
      BY <1>0 DEF TypeOK, SenderTypes
    <3> QED
      BY <3>1 DEF Untorn
  <2>2. want \in 1 .. want /\ Unread[want] = <<k + 1, want>>
    BY <1>2, <1>5, <2>1
  <2>3. /\ Unread[want][1] = k + 1 /\ Unread[want][2] = want /\ want = lens[k + 1]
        /\ DOMAIN Unread = 1 .. Len(Unread) /\ want \in DOMAIN Unread
    BY <1>0, <1>2, <1>5, <2>1, <2>2, UnreadIs
  <2>4. CASE Unread' = <<>>
    <3>1. Len(Unread) = want /\ Unread # <<>>
      BY <1>0, <1>2, <2>4, UnreadIs
    <3>2. k + 1 = Begun /\ (off > 0 => want = off)
      BY <1>0, <2>3, <3>1 DEF Flow, LastByte
    <3>3. off \in Nat /\ (off > 0 => sending /\ off < lens[Len(lens)] /\ Begun = Len(lens))
      BY <1>0 DEF TypeOK, SenderTypes, Begun
    <3>4. off = 0
      BY <1>2, <2>3, <3>2, <3>3
    <3> QED
      BY <2>4, <3>2, <3>4
  <2>5. CASE Unread' # <<>>
    <3>1. Len(Unread') > 0 /\ Len(Unread') \in Nat
      BY <1>2, <2>5
    <3>2. 1 \in 1 .. Len(Unread') /\ want + 1 \in DOMAIN Unread /\ 1 + want = want + 1
      <4>1. PICK d \in Nat : d = Len(Unread') /\ d > 0
        BY <3>1
      <4>2. PICK l \in Nat : l = Len(Unread) /\ d = l - want
        BY <1>0, <1>2, <4>1, UnreadIs
      <4>3. want \in Nat /\ 1 \in 1 .. d /\ want + 1 \in 1 .. l /\ 1 + want = want + 1
        BY <1>2, <4>1, <4>2
      <4> QED
        BY <2>3, <4>1, <4>2, <4>3
    <3>3. Unread'[1] = Unread[want + 1]
      BY <1>2, <3>2
    <3>4. Unread[want + 1] = <<Unread[want][1] + 1, 1>>
      BY <1>0, <2>3, <3>2 DEF Flow, InOrder
    <3>5. (k + 1) + 1 = k + 2
      OBVIOUS
    <3> QED
      BY <2>3, <2>5, <3>3, <3>4, <3>5
  <2> QED
    BY <2>4, <2>5
<1> QED
  BY <1>1, <1>3, <1>6, <1>7, <1>9, <1>10, <1>11, <1>12, <1>13, <1>14 DEF IInv


LEMMA TakeBytesKeeps ==
  ASSUME IInv, NEW valid \in BOOLEAN, TakeBytes(valid)
  PROVE  IInv'
  BY TakePartKeeps, TakeWholeKeeps

LEMMA ReceiverKeeps ==
  ASSUME IInv, ReceiverStep
  PROVE  IInv'
<1>1. CASE Call
  BY <1>1, CallKeeps
<1>2. CASE \E n \in 0 .. MaxLen + 1 : PeekLength(n)
  BY <1>2, PeekLengthKeeps
<1>3. CASE PeekMessage
  BY <1>3, PeekMessageKeeps
<1>4. CASE GiveUp
  BY <1>4, GiveUpKeeps
<1>5. CASE \E valid \in BOOLEAN : TakeBytes(valid)
  BY <1>5, TakeBytesKeeps
<1>6. CASE ReadClosed
  BY <1>6, ReadClosedKeeps
<1>7. CASE RecvTimeout
  BY <1>7, RecvTimeoutKeeps
<1> QED
  BY <1>1, <1>2, <1>3, <1>4, <1>5, <1>6, <1>7 DEF ReceiverStep

LEMMA InitIInv ==
  ASSUME Init
  PROVE  IInv
<1>1. /\ lens = <<>> /\ sending = FALSE /\ off = 0 /\ torn = 0 /\ closed = FALSE /\ stream = <<>>
      /\ pc = "idle" /\ want = 0 /\ buffer = <<>> /\ log = <<>>
  BY DEF Init
<1>2. Len(lens) = 0 /\ Len(log) = 0 /\ lens \in Seq(Length) /\ log \in Seq(Nat)
      /\ stream \in Seq(Byte) /\ buffer \in Seq(Byte) /\ DOMAIN log = {}
  BY <1>1
<1>3. TypeOK
  <2>1. SenderTypes
    BY <1>1, <1>2, ConstantsAre DEF SenderTypes
  <2>2. ReceiverTypes
    BY <1>1, <1>2 DEF ReceiverTypes
  <2>3. Booleans
    BY <1>1 DEF Booleans
  <2> QED
    BY <2>1, <2>2, <2>3 DEF TypeOK
<1>4. Receiving
  <2>1. rx = "block" => caller = "fragment"
    BY FramingAssumption DEF Init
  <2> QED
    BY <1>1, <2>1 DEF Receiving
<1>5. Unread = <<>> /\ DOMAIN Unread = {}
  BY <1>1 DEF Unread
<1>6. Flow(Unread)
  BY <1>5 DEF Flow, Placed, Contiguous, InOrder, LastByte
<1>7. FirstByte(Unread)
  BY <1>1, <1>2, <1>5 DEF FirstByte, Begun
<1>8. Logged
  BY <1>1, <1>2 DEF Logged, Whole
<1> QED
  BY <1>3, <1>4, <1>6, <1>7, <1>8 DEF IInv

LEMMA StutterKeeps ==
  ASSUME IInv, UNCHANGED vars
  PROVE  IInv'
<1>1. /\ UNCHANGED <<tx, rx, caller, sendVars, stream, buffer, log>> /\ pc' = pc /\ want' = want
      /\ UNCHANGED recvVars
  BY DEF vars, recvVars
<1>2. pc \in {"idle", "length", "peek", "take", "end"} /\ want \in Nat
  BY DEF IInv, TypeOK, ReceiverTypes
<1>3. Receiving'
  BY <1>1 DEF IInv, Receiving
<1>4. pc \in {"peek", "take"} /\ Untorn(Len(log) + 1) => Unread # <<>> /\ want = lens[Len(log) + 1]
  BY DEF IInv, FirstByte
<1> QED
  BY <1>1, <1>2, <1>3, <1>4, LookKeeps

LEMMA Invariance == Spec => []IInv
<1>1. Init => IInv
  BY InitIInv
<1>2. IInv /\ [Next]_vars => IInv'
  BY SenderKeeps, ReceiverKeeps, StutterKeeps DEF Next
<1> QED
  BY <1>1, <1>2, PTL DEF Spec


-----------------------------------------------------------------------------
(* The channel of whole messages *)

\* What the mapping gives the channel for its messages received.
Received == IF torn = 0 THEN log ELSE SubSeq(log, 1, Least(Len(log), Whole))

LEMMA WholeIs ==
  ASSUME TypeOK
  PROVE  /\ Whole \in Nat /\ torn \in Nat /\ Len(lens) \in Nat /\ Len(lens) <= MaxMessages
         /\ Len(log) \in Nat /\ log \in Seq(Nat)
         /\ sending => Len(lens) > 0
  BY DEF TypeOK, SenderTypes, ReceiverTypes, Whole

\* Nothing is cut off what was received before the torn message.
LEMMA ReceivedAll ==
  ASSUME TypeOK, torn # 0 => Len(log) <= Whole
  PROVE  Received = log
<1>1. CASE torn = 0
  BY <1>1 DEF Received
<1>2. CASE torn # 0
  <2>1. Least(Len(log), Whole) = Len(log)
    BY <1>2, WholeIs DEF Least
  <2>2. SubSeq(log, 1, Len(log)) = log
    BY WholeIs, SubSeqFull
  <2> QED
    BY <1>2, <2>1, <2>2 DEF Received
<1> QED
  BY <1>1, <1>2

LEMMA ReceivedAllNext ==
  ASSUME TypeOK', torn' # 0 => Len(log') <= Whole'
  PROVE  Received' = log'
<1>1. CASE torn' = 0
  BY <1>1 DEF Received
<1>2. CASE torn' # 0
  <2>1. Len(log') \in Nat /\ log' \in Seq(Nat)
    BY DEF TypeOK, ReceiverTypes
  <2>2. Whole' \in Nat
    <3>1. PICK k \in Nat : torn' = k
      BY DEF TypeOK, SenderTypes
    <3> QED
      BY <1>2, <3>1 DEF Whole
  <2>3. Least(Len(log'), Whole') = Len(log')
    BY <1>2, <2>1, <2>2 DEF Least
  <2>4. SubSeq(log', 1, Len(log')) = log'
    BY <2>1, SubSeqFull
  <2> QED
    BY <1>2, <2>3, <2>4 DEF Received
<1> QED
  BY <1>1, <1>2

\* Steps that the channel does not see.
LEMMA Hidden ==
  ASSUME Whole' = Whole, torn' = torn, log' = log
  PROVE  UNCHANGED Channel!vars
  BY DEF Channel!vars

LEMMA SendPartMaps ==
  ASSUME IInv, NEW n \in 1 .. MaxLen, SendPart(n)
  PROVE  Channel!Next \/ UNCHANGED Channel!vars
<1>0. TypeOK
  BY DEF IInv
<1>1. /\ sending /\ UNCHANGED <<lens, torn, log>>
      /\ sending' = (off + n # lens[Len(lens)])
  BY DEF SendPart, recvVars
<1>2. CASE torn # 0 \/ sending'
  <2>1. Whole' = Whole
    BY <1>1, <1>2 DEF Whole
  <2> QED
    BY <1>1, <2>1, Hidden
<1>3. CASE torn = 0 /\ ~sending'
  <2>1. PICK w \in Nat : w = Whole /\ w + 1 = Len(lens) /\ w + 1 = Whole' /\ w + 1 <= MaxMessages
    BY <1>0, <1>1, <1>3, WholeIs DEF Whole
  <2>2. w + 1 \in Message
    BY <2>1, ConstantsAre DEF Message
  <2>3. [m \in 1 .. w + 1 |-> m] = Append([m \in 1 .. w |-> m], w + 1)
    OBVIOUS
  <2> QED
    BY <1>1, <1>3, <2>1, <2>2, <2>3 DEF Channel!Next, Channel!Send
<1> QED
  BY <1>2, <1>3

LEMMA SendTimeoutMaps ==
  ASSUME IInv, SendTimeout
  PROVE  Channel!Next \/ UNCHANGED Channel!vars
<1>0. TypeOK /\ Logged
  BY DEF IInv
<1>1. sending /\ ~sending' /\ log' = log
  BY DEF SendTimeout, recvVars
<1>2. CASE off = 0
  <2>1. lens' = SubSeq(lens, 1, Len(lens) - 1) /\ torn' = torn
    BY <1>2 DEF SendTimeout
  <2>2. Len(lens') = Len(lens) - 1
    <3>1. lens \in Seq(Length) /\ Len(lens) \in Nat /\ Len(lens) > 0 /\ DOMAIN lens = 1 .. Len(lens)
      BY <1>0, <1>1 DEF TypeOK, SenderTypes
    <3>2. lens' \in Seq(Length) /\ Len(lens') = Len(lens) - 1 /\ DOMAIN lens' = 1 .. Len(lens) - 1
      BY <2>1, <3>1
    <3> QED
      BY <3>2
  <2>3. Whole' = Whole
    BY <1>1, <2>1, <2>2 DEF Whole
  <2> QED
    BY <1>1, <2>1, <2>3, Hidden
<1>3. CASE off # 0 /\ torn # 0
  <2>1. lens' = lens /\ torn' = torn
    BY <1>3 DEF SendTimeout
  <2>2. Whole' = Whole
    BY <1>3, <2>1 DEF Whole
  <2> QED
    BY <1>1, <2>1, <2>2, Hidden
<1>4. CASE off # 0 /\ torn = 0
  <2>1. lens' = lens /\ torn' = Len(lens) /\ torn' # 0
    BY <1>0, <1>1, <1>4, WholeIs DEF SendTimeout
  <2>2. Whole' = Whole
    BY <1>1, <1>4, <2>1 DEF Whole
  <2>3. Len(log) <= Whole
    BY <1>0, <1>4 DEF Logged
  <2>4. Received = log
    BY <1>4 DEF Received
  <2>5. Received' = log'
    <3>1. TypeOK'
      BY <1>4, TearKeeps DEF IInv
    <3>2. torn' # 0 => Len(log') <= Whole'
      BY <1>1, <2>2, <2>3
    <3> QED
      BY <3>1, <3>2, ReceivedAllNext
  <2> QED
    BY <1>1, <1>4, <2>1, <2>2, <2>4, <2>5 DEF Channel!Next, Channel!Tear, Received
<1> QED
  BY <1>2, <1>3, <1>4

LEMMA PrefixOfAppend ==
  ASSUME NEW S, NEW s \in Seq(S), NEW e \in S, NEW w \in Nat, w <= Len(s)
  PROVE  SubSeq(Append(s, e), 1, w) = SubSeq(s, 1, w)
<1> DEFINE a == SubSeq(Append(s, e), 1, w)
           b == SubSeq(s, 1, w)
<1>1. Append(s, e) \in Seq(S) /\ Len(Append(s, e)) = Len(s) + 1
      /\ \A i \in 1 .. Len(s) : Append(s, e)[i] = s[i]
  BY AppendProperties
<1>2. b \in Seq(S) /\ Len(b) = w /\ \A i \in 1 .. w : b[i] = s[i]
  OBVIOUS
<1>3. a \in Seq(S) /\ Len(a) = w /\ \A i \in 1 .. w : a[i] = Append(s, e)[i]
  BY <1>1
<1>4. \A i \in 1 .. w : a[i] = b[i]
  BY <1>1, <1>2, <1>3
<1> HIDE DEF a, b
<1> QED
  <2>1. a = b
    BY <1>2, <1>3, <1>4, SeqEqual
  <2> QED
    BY <2>1 DEF a, b

LEMMA TakeWholeMaps ==
  ASSUME IInv, NEW valid \in BOOLEAN, TakeBytes(valid), ~(Len(Piece) < want)
  PROVE  Channel!Next \/ UNCHANGED Channel!vars
<1>0. TypeOK /\ TypeOK'
  BY TakeWholeKeeps DEF IInv
<1>1. /\ log' = Append(log, Entry(Piece))
      /\ UNCHANGED <<lens, sending, torn>>
  BY TakeBytesIs
<1>2. Whole' = Whole
  BY <1>1 DEF Whole
<1>3. PICK k \in Nat, w \in Nat : k = Len(log) /\ w = Whole
  BY <1>0, WholeIs
<1>4. Entry(Piece) \in Nat
  BY TakeWholeKeeps
<1>5. Len(log') = k + 1
  BY <1>0, <1>1, <1>3, <1>4, WholeIs
<1>6. CASE torn # 0 /\ w <= k
  <2>1. Least(Len(log), Whole) = w /\ Least(Len(log'), Whole') = w
    BY <1>2, <1>3, <1>5, <1>6 DEF Least
  <2>2. SubSeq(log', 1, w) = SubSeq(log, 1, w)
    BY <1>0, <1>1, <1>3, <1>4, <1>6, WholeIs, PrefixOfAppend
  <2> QED
    BY <1>1, <1>2, <1>6, <2>1, <2>2 DEF Channel!vars
<1>7. CASE torn = 0 \/ k < w
  <2>1. Untorn(k + 1)
    BY <1>0, <1>3, <1>7, WholeIs DEF Untorn, Whole
  <2>2. log' = Append(log, k + 1) /\ k + 1 <= w
    <3>1. log' = Append(log, k + 1) /\ (torn = 0 => k + 1 <= w)
      BY <1>3, <2>1, TakeWholeKeeps
    <3> QED
      BY <1>7, <3>1
  <2>3. Received = log
    BY <1>0, <1>3, <1>7, ReceivedAll
  <2>4. Received' = log'
    <3>1. Len(log') <= Whole'
      BY <1>2, <1>3, <1>5, <2>2
    <3> QED
      BY <1>0, <3>1, ReceivedAllNext
  <2> DEFINE sent == [m \in 1 .. Whole |-> m]
  <2>5. Len(sent) = w /\ sent[k + 1] = k + 1
    BY <1>3, <2>2
  <2>6. Len(Received) < Len(sent) /\ Received' = Append(Received, sent[Len(Received) + 1])
    BY <1>3, <2>2, <2>3, <2>4, <2>5
  <2> QED
    BY <1>1, <1>2, <2>6 DEF Channel!Next, Channel!Receive, Received
<1> QED
  BY <1>3, <1>6, <1>7

LEMMA StepMaps ==
  ASSUME IInv, Next
  PROVE  Channel!Next \/ UNCHANGED Channel!vars
<1>1. ASSUME NEW n \in Length, StartSend(n)
      PROVE  UNCHANGED Channel!vars
  <2>1. ~sending /\ sending' /\ lens' = Append(lens, n) /\ torn' = torn /\ log' = log
    BY <1>1 DEF StartSend, recvVars
  <2>2. Len(lens') = Len(lens) + 1 /\ Len(lens) \in Nat
    BY <2>1 DEF IInv, TypeOK, SenderTypes
  <2>3. Whole' = Whole
    BY <2>1, <2>2 DEF Whole
  <2> QED
    BY <2>1, <2>3, Hidden
<1>2. CASE Close
  <2>1. UNCHANGED <<lens, sending, torn, log>>
    BY <1>2 DEF Close, recvVars
  <2> QED
    BY <2>1, Hidden DEF Whole
<1>3. ASSUME ReceiverStep, ~\E valid \in BOOLEAN : TakeBytes(valid)
      PROVE  UNCHANGED Channel!vars
  <2>1. UNCHANGED <<lens, sending, torn, log>>
    BY <1>3 DEF ReceiverStep, Call, PeekLength, PeekMessage, GiveUp, ReadClosed, RecvTimeout, Fail, sendVars
  <2> QED
    BY <2>1, Hidden DEF Whole
<1>4. ASSUME NEW valid \in BOOLEAN, TakeBytes(valid)
      PROVE  Channel!Next \/ UNCHANGED Channel!vars
  <2>1. CASE Len(Piece) < want
    <3>1. UNCHANGED <<lens, sending, torn, log>>
      BY <1>4, <2>1, TakeBytesIs
    <3> QED
      BY <3>1, Hidden DEF Whole
  <2>2. CASE ~(Len(Piece) < want)
    BY <1>4, <2>2, TakeWholeMaps
  <2> QED
    BY <2>1, <2>2
<1> QED
  BY <1>1, <1>2, <1>3, <1>4, SendPartMaps, SendTimeoutMaps DEF Next, SenderStep

\* The byte stream implements the channel of whole messages, in every pair of
\* modes: what recv_generic returns is what send_generic was given, whole and
\* in order, up to the first message that a timed-out send has torn.
THEOREM FramingImplementsChannel == Spec => ImplementsChannel
<1>1. Init => Channel!Init
  <2> SUFFICES ASSUME Init PROVE Channel!Init
    OBVIOUS
  <2>1. lens = <<>> /\ torn = 0 /\ log = <<>> /\ sending = FALSE
    BY DEF Init
  <2>2. Whole = 0
    BY <2>1 DEF Whole
  <2>3. [m \in 1 .. 0 |-> m] = <<>>
    OBVIOUS
  <2> QED
    BY <2>1, <2>2, <2>3 DEF Channel!Init
<1>2. IInv /\ [Next]_vars => [Channel!Next]_(Channel!vars)
  <2>1. UNCHANGED vars => UNCHANGED Channel!vars
    BY Hidden DEF vars, sendVars, recvVars, Whole
  <2> QED
    BY <2>1, StepMaps
<1> QED
  BY <1>1, <1>2, Invariance, PTL DEF Spec, ImplementsChannel, Channel!Spec


-----------------------------------------------------------------------------
(* The canary *)

\* A receive whose last byte is the last of a message, torn or not, leaves the
\* stream at the beginning of one.
LEMMA EndsMessage ==
  ASSUME IInv, NEW valid \in BOOLEAN, TakeBytes(valid), ~(Len(Piece) < want),
         Unread[want][2] = lens[Unread[want][1]]
  PROVE  Aligned'
<1>0. TypeOK /\ Flow(Unread)
  BY DEF IInv
<1>1. /\ want \in Nat /\ want > 3 /\ want <= Len(Unread)
      /\ Unread' = stream' /\ stream' \in Seq(Byte)
      /\ Len(Unread') = Len(Unread) - want /\ Len(Unread) \in Nat
      /\ \A j \in 1 .. Len(Unread') : Unread'[j] = Unread[j + want]
  BY TakeWholeShifts
<1>2. off' = off
  BY TakeBytesIs
<1>3. DOMAIN Unread = 1 .. Len(Unread) /\ want \in DOMAIN Unread
  BY <1>0, <1>1, UnreadIs
<1>4. CASE stream' = <<>>
  <2>1. Len(Unread) = want /\ Unread # <<>>
    BY <1>0, <1>1, <1>4, UnreadIs
  <2>2. Unread[want][1] = Begun /\ (off > 0 => Unread[want][2] = off)
    BY <1>0, <2>1 DEF Flow, LastByte
  <2>3. off \in Nat /\ (off > 0 => off < lens[Len(lens)] /\ Begun = Len(lens))
    BY <1>0 DEF TypeOK, SenderTypes, Begun
  <2>4. lens[Len(lens)] = off => ~(off < lens[Len(lens)])
    BY <2>3
  <2>5. off = 0
    BY <2>2, <2>3, <2>4
  <2> QED
    BY <1>2, <1>4, <2>5 DEF Aligned
<1>5. CASE stream' # <<>>
  <2>1. Len(Unread') > 0 /\ Len(Unread') \in Nat
    BY <1>1, <1>5
  <2>2. 1 \in 1 .. Len(Unread') /\ want + 1 \in DOMAIN Unread /\ 1 + want = want + 1
    BY <1>1, <1>3, <2>1
  <2>3. stream'[1] = Unread[want + 1]
    BY <1>1, <2>2
  <2>4. Unread[want + 1] = <<Unread[want][1] + 1, 1>>
    BY <1>0, <1>3, <2>2 DEF Flow, InOrder
  <2> QED
    BY <1>5, <2>3, <2>4 DEF Aligned
<1> QED
  BY <1>4, <1>5

LEMMA FieldsAre ==
  ASSUME IInv, NEW valid \in BOOLEAN, TakeBytes(valid), ~(Len(Piece) < want), NEW m
  PROVE  SubSeq(Piece, 1, Fields(m)) = SubSeq(Unread, 1, Fields(m))
<1>1. pc = "take" /\ stream # <<>>
  BY TakeBytesIs
<1>2. /\ Piece \in Seq(Byte) /\ Len(Piece) = want /\ want > 3 /\ want \in Nat
      /\ want <= Len(Unread) /\ Len(Unread) \in Nat
      /\ \A j \in 1 .. want : Piece[j] = Unread[j]
  BY <1>1, TakenIs, TakeWholeShifts
<1>3. Unread \in Seq(Byte)
  BY UnreadIs DEF IInv
<1>4. PICK k \in Nat : k = Fields(m) /\ k <= want
  BY <1>2 DEF Fields, FieldBytes, HeaderBytes
<1> DEFINE a == SubSeq(Piece, 1, k)
           b == SubSeq(Unread, 1, k)
<1>5. a \in Seq(Byte) /\ Len(a) = k /\ \A j \in 1 .. k : a[j] = Piece[j]
  BY <1>2, <1>4
<1>6. b \in Seq(Byte) /\ Len(b) = k /\ \A j \in 1 .. k : b[j] = Unread[j]
  BY <1>2, <1>3, <1>4
<1> HIDE DEF a, b
<1>7. \A j \in 1 .. k : a[j] = b[j]
  BY <1>2, <1>4, <1>5, <1>6
<1>8. a = b
  BY <1>5, <1>6, <1>7, SeqEqual
<1> QED
  BY <1>4, <1>8 DEF a, b

\* A caller that goes on after a message because its canary was found is back at
\* the beginning of a message, provided that the bytes from which validate finds
\* the canary's place were those of one message: its header and, where the
\* payload gives the length, the fields that do.
THEOREM CanaryRealignsTheStream == Spec => CanaryRealigns
<1> DEFINE Step == pc = "take" /\ pc' = "idle" /\ result' = "NONE" =>
                     \/ Aligned'
                     \/ \A m \in DOMAIN lens :
                          ~Begins(SubSeq(buffer \o stream, 1, Fields(m)), m)
<1>1. IInv /\ [Next]_vars => [Step]_vars
  <2> SUFFICES ASSUME IInv, Next, pc = "take", pc' = "idle", result' = "NONE",
                      NEW m \in DOMAIN lens, Begins(SubSeq(Unread, 1, Fields(m)), m)
               PROVE  Aligned'
    BY DEF Unread
  <2>1. ~SenderStep
    BY DEF SenderStep, StartSend, SendPart, SendTimeout, Close, recvVars
  <2>2. PICK valid \in BOOLEAN : TakeBytes(valid)
    BY <2>1 DEF Next, ReceiverStep, Call, PeekLength, PeekMessage, GiveUp, ReadClosed, RecvTimeout, Fail
  <2>3. ~(Len(Piece) < want)
    BY <2>2, TakeBytesIs
  <2>4. valid = TRUE /\ TRUE \in Validate(Piece)
    BY <2>2, <2>3, TakeBytesIs
  <2>5. Begins(SubSeq(Piece, 1, Fields(m)), m)
    BY <2>2, <2>3, FieldsAre
  <2>6. Piece[Len(Piece)][2] = lens[Piece[Len(Piece)][1]]
    BY <2>4, <2>5 DEF Validate
  <2>7. Len(Piece) = want /\ want \in 1 .. want
    BY <2>2, <2>3, TakeWholeShifts
  <2>8. Piece[want] = Unread[want]
    BY <2>2, <2>7, TakenIs, TakeBytesIs
  <2> QED
    BY <2>2, <2>3, <2>6, <2>7, <2>8, EndsMessage
<1> QED
  BY <1>1, Invariance, PTL DEF Spec, CanaryRealigns

=============================================================================
