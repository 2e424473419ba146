----------------------------- MODULE QueueProofs -----------------------------
(***************************************************************************)
(* Theorems about the lock-free queue, for every number of writers and     *)
(* messages, every depth and every range of its counters.                  *)
(***************************************************************************)
EXTENDS MessageQueue, SequenceTheorems, FiniteSetTheorems, TLAPS

-----------------------------------------------------------------------------
(* Writers in some place *)

Places == {"alloc", "full", "allocpos", "take", "clear", "fill", "writepos", "spin", "store",
           "count", "peek", "lower", "post"}

\* How many writers are in one of the places S.
Count(S) == Cardinality({w \in Writer : wpc[w] \in S})

LEMMA CountIsNat ==
  ASSUME NEW S
  PROVE  /\ Count(S) \in Nat
         /\ Count(S) = 0 <=> \A w \in Writer : wpc[w] \notin S
<1> DEFINE C == {w \in Writer : wpc[w] \in S}
<1>1. IsFiniteSet(C)
  BY QueueAssumption, FS_Subset
<1>2. Cardinality(C) \in Nat /\ (Cardinality(C) = 0 <=> C = {})
  BY <1>1, FS_CardinalityType, FS_EmptySet
<1> QED
  BY <1>2 DEF Count

\* One writer goes elsewhere.
LEMMA CountMoves ==
  ASSUME NEW S, NEW w \in Writer, NEW there, wpc \in [Writer -> Places],
         wpc' = [wpc EXCEPT ![w] = there]
  PROVE  Count(S)' = Count(S) + (IF there \in S THEN 1 ELSE 0) - (IF wpc[w] \in S THEN 1 ELSE 0)
<1> DEFINE C == {v \in Writer : wpc[v] \in S}
           D == {v \in Writer : wpc'[v] \in S}
<1>1. IsFiniteSet(C) /\ Cardinality(C) \in Nat
  BY QueueAssumption, FS_Subset, FS_CardinalityType
<1>2. wpc'[w] = there /\ \A v \in Writer \ {w} : wpc'[v] = wpc[v]
  OBVIOUS
<1>3. Count(S) = Cardinality(C) /\ Count(S)' = Cardinality(D)
  BY DEF Count
<1>4. CASE there \in S /\ wpc[w] \in S
  <2>1. D = C
    BY <1>2, <1>4
  <2> HIDE DEF C, D
  <2> QED
    BY <1>1, <1>3, <1>4, <2>1
<1>5. CASE there \in S /\ wpc[w] \notin S
  <2>1. D = C \cup {w} /\ w \notin C
    BY <1>2, <1>5
  <2>2. Cardinality(C \cup {w}) = Cardinality(C) + 1
    BY <1>1, <2>1, FS_AddElement
  <2> HIDE DEF C, D
  <2> QED
    BY <1>1, <1>3, <1>5, <2>1, <2>2
<1>6. CASE there \notin S /\ wpc[w] \in S
  <2>1. D = C \ {w} /\ w \in C
    BY <1>2, <1>6
  <2>2. Cardinality(C \ {w}) = Cardinality(C) - 1
    BY <1>1, <2>1, FS_RemoveElement
  <2> HIDE DEF C, D
  <2> QED
    BY <1>1, <1>3, <1>6, <2>1, <2>2
<1>7. CASE there \notin S /\ wpc[w] \notin S
  <2>1. D = C
    BY <1>2, <1>7
  <2> HIDE DEF C, D
  <2> QED
    BY <1>1, <1>3, <1>7, <2>1
<1> QED
  BY <1>4, <1>5, <1>6, <1>7

LEMMA CountStays ==
  ASSUME NEW S, UNCHANGED wpc
  PROVE  Count(S)' = Count(S)
  BY DEF Count

-----------------------------------------------------------------------------
(* Positions on a ring *)

\* The m'th message has a slot.
SlotOf(m) == (m - 1) % Depth

LEMMA DivideBy ==
  ASSUME NEW x \in Int, NEW d \in Nat \ {0}, NEW q \in Int, NEW r \in Int,
         q = x \div d, r = x % d
  PROVE  x = q * d + r
  BY Z3

LEMMA Quotient ==
  ASSUME NEW x \in Int, NEW d \in Nat \ {0}, NEW r \in Int, r = x % d
  PROVE  \E q \in Int : x = q * d + r
<1>1. PICK q \in Int : q = x \div d
  OBVIOUS
<1> QED
  BY <1>1, DivideBy, ZenonT(60)

LEMMA Remainder ==
  ASSUME NEW d \in Nat \ {0}, NEW x \in Int, NEW q \in Int, NEW r \in 0 .. d - 1, x = q * d + r
  PROVE  x % d = r
  OBVIOUS

LEMMA DepthIs == Depth \in Nat \ {0} /\ Depth \in Int /\ Wrap \in Nat \ {0} /\ Wrap \in Int /\ Wrap > 1
  BY QueueAssumption

LEMMA ModRange ==
  ASSUME NEW x \in Int
  PROVE  x % Depth \in Slot /\ x % Depth \in Int
  BY DepthIs DEF Slot

LEMMA MultipleAdds ==
  ASSUME NEW x \in Int, NEW y \in Int, NEW d \in Int, NEW r \in Int, NEW a \in Int, NEW k \in Int,
         y = a * d + r, x = y + k * d
  PROVE  x = (a + k) * d + r /\ a + k \in Int
  OBVIOUS

LEMMA MultipleOfMultiple ==
  ASSUME NEW d \in Int, NEW a \in Int, NEW b \in Int, NEW w \in Int, w = b * d
  PROVE  a * w = (a * b) * d /\ a * b \in Int
  OBVIOUS

LEMMA MultipleGone ==
  ASSUME NEW x \in Int, NEW y \in Int, NEW k \in Int, x = y + k * Depth
  PROVE  x % Depth = y % Depth
<1>1. PICK r \in Int : r = y % Depth /\ r \in 0 .. Depth - 1
  BY ModRange DEF Slot
<1>2. PICK a \in Int : y = a * Depth + r
  BY <1>1, DepthIs, Quotient, ZenonT(60)
<1>3. a + k \in Int /\ x = (a + k) * Depth + r
  BY <1>2, DepthIs, MultipleAdds
<1>4. x % Depth = r
  BY <1>1, <1>3, DepthIs, Remainder
<1> QED
  BY <1>1, <1>4

LEMMA SameSlot ==
  ASSUME NEW x \in Int, NEW y \in Int, x % Depth = y % Depth
  PROVE  \E k \in Int : x = y + k * Depth
<1>1. PICK r \in Int : r = y % Depth
  BY ModRange
<1>2. PICK a \in Int : y = a * Depth + r
  BY <1>1, DepthIs, Quotient
<1>3. r = x % Depth
  BY <1>1
<1>4. PICK b \in Int : x = b * Depth + r
  BY <1>3, DepthIs, Quotient, ZenonT(60)
<1>5. b - a \in Int /\ x = y + (b - a) * Depth
  BY <1>2, <1>4, DepthIs
<1> QED
  BY <1>5

LEMMA Residue ==
  ASSUME NEW x \in Int
  PROVE  \E k \in Int : x % Depth = x + k * Depth
<1>1. PICK r \in Int : r = x % Depth
  BY ModRange
<1>2. PICK a \in Int : x = a * Depth + r
  BY <1>1, DepthIs, Quotient
<1>3. -a \in Int /\ r = x + (-a) * Depth
  BY <1>2, DepthIs
<1>4. \E k \in Int : r = x + k * Depth
  BY <1>3
<1> QED
  BY <1>1, <1>4

LEMMA SmallMod ==
  ASSUME NEW r \in Slot
  PROVE  r \in Int /\ r % Depth = r
<1>1. r \in 0 .. Depth - 1 /\ r \in Int
  BY DepthIs DEF Slot
<1>2. r = 0 * Depth + r
  BY <1>1, DepthIs
<1> QED
  BY <1>1, <1>2, DepthIs, Remainder

LEMMA ShiftMod ==
  ASSUME NEW x \in Int, NEW y \in Int, NEW i \in Int, x % Depth = y % Depth
  PROVE  (x + i) % Depth = (y + i) % Depth
<1>1. PICK k \in Int : x = y + k * Depth
  BY SameSlot
<1>2. x + i = (y + i) + k * Depth /\ x + i \in Int /\ y + i \in Int
  BY <1>1, DepthIs
<1> QED
  BY <1>2, MultipleGone

\* The counters wrap around at a multiple of the depth.
LEMMA WrapMod ==
  ASSUME NEW x \in Int
  PROVE  (x % Wrap) % Depth = x % Depth
<1>1. PICK y \in Int : y = x % Wrap
  BY DepthIs
<1>2. PICK a \in Int : x = a * Wrap + y
  BY <1>1, DepthIs, Quotient
<1>3. PICK z \in Int : z = Wrap % Depth /\ z = 0
  BY QueueAssumption
<1>10. PICK b \in Int : Wrap = b * Depth + z
  BY <1>3, DepthIs, Quotient
<1>4. Wrap = b * Depth
  BY <1>3, <1>10, DepthIs
<1>5. a * Wrap = (a * b) * Depth /\ a * b \in Int
  BY <1>4, DepthIs, MultipleOfMultiple
<1>6. x = y + (a * b) * Depth
  <2>1. (a * b) * Depth \in Int
    BY <1>5, DepthIs
  <2> QED
    BY <1>2, <1>5, <2>1
<1>7. x % Depth = y % Depth
  BY <1>5, <1>6, MultipleGone
<1> QED
  BY <1>1, <1>7

LEMMA SuccMod ==
  ASSUME NEW x \in Int, NEW y \in Int, x % Depth = y % Depth
  PROVE  Succ(x) % Depth = (y + 1) % Depth
<1>1. (x + 1) % Depth = (y + 1) % Depth
  BY ShiftMod
<1>2. Succ(x) % Depth = (x + 1) % Depth
  BY WrapMod DEF Succ
<1> QED
  BY <1>1, <1>2

\* Fewer than Depth apart, two positions are in different slots.
LEMMA SlotsDiffer ==
  ASSUME NEW m \in Int, NEW n \in Int, m < n, n < m + Depth
  PROVE  SlotOf(m) # SlotOf(n)
<1>1. SUFFICES ASSUME (n - 1) % Depth = (m - 1) % Depth PROVE FALSE
  BY DEF SlotOf
<1>2. PICK k \in Int : n - 1 = (m - 1) + k * Depth
  BY <1>1, SameSlot
<1>3. k * Depth > 0 /\ k * Depth < Depth
  BY <1>2, DepthIs
<1> QED
  BY <1>3, DepthIs

\* How far a slot is from a position.
LEMMA GapRange ==
  ASSUME NEW s \in Int, NEW a \in Int
  PROVE  (s - a) % Depth \in 0 .. Depth - 1
<1>1. s - a \in Int
  OBVIOUS
<1> QED
  BY <1>1, ModRange DEF Slot

\* The slot z after a has distance z ...
LEMMA GapOf ==
  ASSUME NEW s \in Int, NEW a \in Int, NEW z \in Slot, s % Depth = (a + z) % Depth
  PROVE  (s - a) % Depth = z
<1>1. z \in Int /\ z % Depth = z
  BY SmallMod
<1>2. PICK k \in Int : s = (a + z) + k * Depth
  BY <1>1, SameSlot
<1>3. s - a = z + k * Depth /\ s - a \in Int
  BY <1>1, <1>2, DepthIs
<1> QED
  BY <1>1, <1>3, MultipleGone

\* ... and the slot of distance z is z after a.
LEMMA GapIs ==
  ASSUME NEW s \in Slot, NEW a \in Int, NEW z \in Int, z = (s - a) % Depth
  PROVE  s = (a + z) % Depth
<1>1. s \in Int /\ s % Depth = s /\ s - a \in Int
  BY SmallMod
<1>2. PICK k \in Int : (s - a) % Depth = (s - a) + k * Depth
  BY <1>1, Residue
<1>3. a + z = s + k * Depth /\ a + z \in Int
  BY <1>1, <1>2, DepthIs
<1> QED
  BY <1>1, <1>3, MultipleGone

\* When the position moves on, every slot is one closer, the first one last.
LEMMA GapNext ==
  ASSUME NEW s \in Slot, NEW a \in Int, NEW b \in Int, NEW z \in Int,
         b % Depth = (a + 1) % Depth, z = (s - a) % Depth
  PROVE  (s - b) % Depth = IF z = 0 THEN Depth - 1 ELSE z - 1
<1>1. s \in Int /\ s % Depth = s /\ a + 1 \in Int /\ z \in 0 .. Depth - 1
  BY SmallMod, GapRange
<1>2. PICK k \in Int : b = (a + 1) + k * Depth
  BY <1>1, SameSlot
<1>3. s = (a + z) % Depth /\ a + z \in Int
  BY GapIs
<1>4. PICK j \in Int : s = (a + z) + j * Depth
  BY <1>1, <1>3, SameSlot
<1>5. CASE z = 0
  <2>1. PICK y \in Slot : y = Depth - 1
    BY <1>1, <1>5, DepthIs DEF Slot
  <2>2. y \in Int /\ b + y \in Int
    BY <2>1, SmallMod
  <2>3. j - k - 1 \in Int /\ s = (b + y) + (j - k - 1) * Depth
    BY <1>1, <1>2, <1>4, <1>5, <2>1, <2>2, DepthIs
  <2>4. s - b \in Int /\ s - b = y + (j - k - 1) * Depth
    BY <1>1, <2>2, <2>3, DepthIs
  <2>5. (s - b) % Depth = y
    BY <2>2, <2>3, <2>4, SmallMod, MultipleGone
  <2> QED
    BY <1>5, <2>1, <2>5
<1>6. CASE z # 0
  <2>1. PICK y \in Slot : y = z - 1
    BY <1>1, <1>6, DepthIs DEF Slot
  <2>2. y \in Int /\ b + y \in Int
    BY <2>1, SmallMod
  <2>3. j - k \in Int /\ s = (b + y) + (j - k) * Depth
    <3>1. j - k \in Int /\ s = (b + (z - 1)) + (j - k) * Depth
      BY <1>1, <1>2, <1>4, DepthIs
    <3> QED
      BY <2>1, <3>1
  <2>4. s - b \in Int /\ s - b = y + (j - k) * Depth
    BY <1>1, <2>2, <2>3, DepthIs
  <2>5. (s - b) % Depth = y
    BY <2>2, <2>3, <2>4, SmallMod, MultipleGone
  <2> QED
    BY <1>6, <2>1, <2>5
<1> QED
  BY <1>5, <1>6

LEMMA SlotOfRange ==
  ASSUME NEW m \in Int
  PROVE  SlotOf(m) \in Slot
  BY ModRange DEF SlotOf

-----------------------------------------------------------------------------
(* The inductive invariant *)

One(p) == IF p THEN 1 ELSE 0

Reading == {"readpos", "take", "clear", "lower", "use"}
Freeing == {"freepos", "spin", "store", "count"}

\* Writers that are on their way through the free list, and those that have a slot
\* of the queue and have not stored to it.
Owning == {"allocpos", "take", "clear", "fill", "writepos"}
Taking == {"take", "clear"}
Storing == {"spin", "store"}

\* Who has a block, and what it contains.
WriterHand(w) ==
  /\ wpc[w] \in Owning \cup {"full"} => sent[w] < MaxMessages
  /\ wblock[w] # NULL <=> wpc[w] \in {"clear", "fill", "writepos", "spin", "store"}
  /\ wpc[w] = "clear" => wblock[w] = freelist[wpos[w]]
  /\ wpc[w] = "writepos" => content[wblock[w]] = <<w, sent[w] + 1>>
  /\ wpc[w] \in Storing => content[wblock[w]] = <<w, sent[w]>>

ReaderHand ==
  /\ rblock # NULL <=> rpc \in {"clear", "lower", "use", "freepos", "spin", "store"}
  /\ rpc = "clear" => rblock = queue_data[rpos]
  /\ rpc \in {"lower", "use"} => content[rblock] = written[Len(received) + 1]

Hands == (\A w \in Writer : WriterHand(w)) /\ ReaderHand

\* free_blocks counts what is in nobody's hands and in no message.
BlockCount ==
  /\ free_blocks + Count({"full"}) >= 0
  /\ free_blocks + Count({"full"}) + Count(Owning) + (Len(written) - Len(received))
       + One(rpc \in Freeing) = Depth

\* entries counts the messages that are stored and not claimed.
EntryCount ==
  /\ entries + One(rpc = "empty") >= 0
  /\ entries + One(rpc = "empty") + Count(Storing \cup {"count"}) + One(rpc \in Reading)
       = Len(written) - Len(received)

Positions ==
  /\ writepos % Depth = SlotOf(Len(written) + 1)
  /\ readpos % Depth = SlotOf(Len(received) + 1 + One(rpc \in {"take", "clear", "lower", "use"}))
  /\ rpc \in {"take", "clear"} => rpos = SlotOf(Len(received) + 1)

\* Messages whose slot has been cleared.
Cleared == Len(received) + One(rpc \in {"lower", "use"})

\* The m'th message has a slot, and its writer has not stored to it.
Pending(m) ==
  LET w == written[m][1] IN wpc[w] \in Storing /\ written[m][2] = sent[w]

Ring ==
  /\ \A m \in DOMAIN written : written[m][2] <= sent[written[m][1]]
  /\ \A m, n \in DOMAIN written : written[m] = written[n] => m = n
  /\ \A w \in Writer : wpc[w] \in Storing =>
       \E m \in Cleared + 1 .. Len(written) : written[m] = <<w, sent[w]>> /\ wpos[w] = SlotOf(m)
  /\ \A m \in Cleared + 1 .. Len(written) :
       IF Pending(m) THEN queue_data[SlotOf(m)] = NULL
       ELSE queue_data[SlotOf(m)] # NULL /\ content[queue_data[SlotOf(m)]] = written[m]
  /\ \A s \in Slot : queue_data[s] # NULL => \E m \in Cleared + 1 .. Len(written) : s = SlotOf(m)

\* The free list: Free slots from allocpos on hold blocks nobody has a claim to.
Free == free_blocks + Count({"full", "allocpos"})
Dist(s) == (s - allocpos) % Depth

FreeRing ==
  /\ \A s \in Slot : Dist(s) < Free =>
       freelist[s] # NULL /\ \A w \in Writer : wpc[w] \in Taking => wpos[w] # s
  /\ \A w \in Writer : wpc[w] \in Taking => freelist[wpos[w]] # NULL
  /\ \A v, w \in Writer : wpc[v] \in Taking /\ wpc[w] \in Taking /\ wpos[v] = wpos[w] => v = w
  /\ \A s \in Slot : freelist[s] # NULL =>
       \/ Dist(s) < Free
       \/ \E w \in Writer : wpc[w] \in Taking /\ wpos[w] = s
       \/ rpc = "count" /\ rpos = s
  /\ rpc \notin {"spin", "store", "count"} => freepos % Depth = (allocpos + Free) % Depth
  /\ rpc \in {"spin", "store", "count"} =>
       freepos % Depth = (allocpos + Free + 1) % Depth /\ Dist(rpos) = Free
  /\ rpc = "store" => freelist[rpos] = NULL
  /\ rpc = "count" =>
       freelist[rpos] # NULL /\ \A w \in Writer : wpc[w] \in Taking => wpos[w] # rpos

\* No block is in two places ...
Apart ==
  /\ \A s, t \in Slot : freelist[s] # NULL /\ freelist[s] = freelist[t] => s = t
  /\ \A s, t \in Slot : queue_data[s] # NULL /\ queue_data[s] = queue_data[t] => s = t
  /\ \A s, t \in Slot : freelist[s] # NULL => freelist[s] # queue_data[t]
  /\ \A w \in Writer : wblock[w] # NULL /\ wpc[w] # "clear" =>
       /\ \A s \in Slot : freelist[s] # wblock[w] /\ queue_data[s] # wblock[w]
       /\ \A v \in Writer : wblock[v] = wblock[w] => v = w
       /\ rblock # wblock[w]
  /\ rblock # NULL /\ rpc # "clear" =>
       \A s \in Slot : freelist[s] # rblock /\ queue_data[s] # rblock

\* ... and none is lost.
Somewhere ==
  \A b \in Block :
    \/ \E s \in Slot : freelist[s] = b \/ queue_data[s] = b
    \/ \E w \in Writer : Holds(w, b)
    \/ ReaderHolds(b)

\* Readers that raised blocked_readers, and wakeups that are due.
Due == blocked_readers + sem + Count({"post"}) - One(raised)

Wakeups ==
  /\ \E q \in Int : Due = q * Wrap
  /\ rpc \in {"sleep", "lower"} => raised
  /\ rpc = "raise" => ~raised
  /\ rpc \in {"use"} \cup Freeing => ~raised
  /\ raised /\ rpc \in {"empty", "sleep"} /\ entries + One(rpc = "empty") > 0 /\ sem = 0 =>
       \E w \in Writer : wpc[w] \in {"peek", "lower", "post"}

IInv ==
  /\ TypeOK /\ Hands /\ BlockCount /\ EntryCount /\ Positions /\ Ring /\ FreeRing
  /\ Apart /\ Somewhere /\ Wakeups

-----------------------------------------------------------------------------
(* Types *)

LEMMA CounterRange ==
  ASSUME NEW x \in Int
  PROVE  Succ(x) \in 0 .. Wrap - 1 /\ Pred(x) \in 0 .. Wrap - 1
  BY DepthIs DEF Succ, Pred

LEMMA WriterTypes ==
  ASSUME TypeOK, Hands, NEW w \in Writer, WriterStep(w)
  PROVE  TypeOK'
<1>1. allocpos \in Int /\ writepos \in Int /\ blocked_readers \in Int
  BY DEF TypeOK
<1>2. Succ(allocpos) \in 0 .. Wrap - 1 /\ Succ(writepos) \in 0 .. Wrap - 1
      /\ Pred(blocked_readers) \in 0 .. Wrap - 1
  BY <1>1, CounterRange
<1>3. allocpos % Depth \in Slot /\ writepos % Depth \in Slot
  BY <1>1, ModRange
<1>4. NULL \notin Block
  BY DepthIs DEF NULL, Block
<1>5. CASE AllocClaim(w)
  BY <1>5 DEF TypeOK, AllocClaim, At, Goto, allocVars, queueVars, wakeVars, readerVars, ghostVars
<1>6. CASE AllocFails(w)
  BY <1>6 DEF TypeOK, AllocFails, At, Goto, allocVars, queueVars, wakeVars, readerVars, ghostVars
<1>7. CASE AllocPos(w)
  BY <1>2, <1>3, <1>7 DEF TypeOK, AllocPos, At, Goto, queueVars, wakeVars, readerVars, ghostVars
<1>8. CASE AllocTake(w)
  BY <1>8 DEF TypeOK, AllocTake, At, Goto, allocVars, queueVars, wakeVars, readerVars, ghostVars
<1>9. CASE AllocClear(w)
  BY <1>9 DEF TypeOK, AllocClear, At, Goto, queueVars, wakeVars, readerVars, ghostVars
<1>10. CASE Fill(w)
  <2>1. <<w, sent[w] + 1>> \in Message
    BY <1>10, QueueAssumption DEF TypeOK, Hands, WriterHand, Fill, At, Owning, Message
  <2> QED
    BY <1>10, <2>1 DEF TypeOK, Fill, At, Goto, allocVars, queueVars, wakeVars, readerVars, ghostVars
<1>11. CASE WritePos(w)
  <2>1. <<w, sent[w] + 1>> \in Message /\ sent[w] + 1 \in 0 .. MaxMessages
    BY <1>11, QueueAssumption, SMTT(40) DEF TypeOK, Hands, WriterHand, WritePos, At, Owning, Message
  <2>2. Append(written, <<w, sent[w] + 1>>) \in Seq(Message)
    BY <2>1, AppendProperties DEF TypeOK
  <2> QED
    BY <1>2, <1>3, <1>11, <2>1, <2>2 DEF TypeOK, WritePos, At, Goto, allocVars, wakeVars, readerVars
<1>12. CASE WriteSpin(w)
  BY <1>12 DEF TypeOK, WriteSpin, At, Goto, allocVars, queueVars, wakeVars, readerVars, ghostVars
<1>13. CASE WriteStore(w)
  BY <1>13 DEF TypeOK, WriteStore, At, Goto, allocVars, wakeVars, readerVars, ghostVars
<1>14. CASE WriteCount(w)
  BY <1>14 DEF TypeOK, WriteCount, At, Goto, allocVars, wakeVars, readerVars, ghostVars
<1>15. CASE WritePeek(w)
  BY <1>15 DEF TypeOK, WritePeek, At, Goto, allocVars, queueVars, wakeVars, readerVars, ghostVars
<1>16. CASE WriteLower(w)
  BY <1>2, <1>16 DEF TypeOK, WriteLower, At, Goto, allocVars, queueVars, readerVars, ghostVars
<1>17. CASE WritePost(w)
  BY <1>17 DEF TypeOK, WritePost, At, Goto, allocVars, queueVars, readerVars, ghostVars
<1> QED
  BY <1>5, <1>6, <1>7, <1>8, <1>9, <1>10, <1>11, <1>12, <1>13, <1>14, <1>15, <1>16, <1>17
  DEF WriterStep

LEMMA ReaderTypes ==
  ASSUME TypeOK, Hands, EntryCount, ReaderStep
  PROVE  TypeOK'
<1>1. readpos \in Int /\ freepos \in Int /\ blocked_readers \in Int
  BY DEF TypeOK
<1>2. Succ(readpos) \in 0 .. Wrap - 1 /\ Succ(freepos) \in 0 .. Wrap - 1
      /\ Succ(blocked_readers) \in 0 .. Wrap - 1 /\ Pred(blocked_readers) \in 0 .. Wrap - 1
  BY <1>1, CounterRange
<1>3. readpos % Depth \in Slot /\ freepos % Depth \in Slot
  BY <1>1, ModRange
<1>4. CASE ReadClaim
  BY <1>4 DEF TypeOK, ReadClaim, allocVars, wakeVars, writerVars, ghostVars
<1>5. CASE ReadFails
  BY <1>5 DEF TypeOK, ReadFails, allocVars, wakeVars, writerVars, ghostVars
<1>6. CASE ReadPos
  BY <1>2, <1>3, <1>6 DEF TypeOK, ReadPos, allocVars, wakeVars, writerVars, ghostVars
<1>7. CASE ReadTake
  BY <1>7 DEF TypeOK, ReadTake, allocVars, queueVars, wakeVars, writerVars, ghostVars
<1>8. CASE ReadClear
  BY <1>8 DEF TypeOK, ReadClear, allocVars, wakeVars, writerVars, ghostVars
<1>9. CASE ReadRaise
  BY <1>2, <1>9 DEF TypeOK, ReadRaise, allocVars, queueVars, writerVars, ghostVars
<1>10. CASE ReadLower
  BY <1>2, <1>10 DEF TypeOK, ReadLower, allocVars, queueVars, writerVars, ghostVars
<1>11. CASE ReadSleep
  <2>1. sem' \in Nat
    BY <1>11 DEF TypeOK, ReadSleep
  <2> QED
    BY <1>11, <2>1 DEF TypeOK, ReadSleep, allocVars, queueVars, writerVars, ghostVars
<1>12. CASE Use
  <2>1. content[rblock] = written[Len(received) + 1]
    BY <1>12 DEF Use, Hands, ReaderHand
  <2>2. Len(received) + 1 \in DOMAIN written
    BY <1>12, CountIsNat, LenProperties DEF Use, EntryCount, One, Reading, TypeOK
  <2>3. content[rblock] \in Message
    BY <2>1, <2>2 DEF TypeOK
  <2>4. Append(received, content[rblock]) \in Seq(Message)
    BY <2>3, AppendProperties DEF TypeOK
  <2> QED
    BY <1>12, <2>4 DEF TypeOK, Use, allocVars, queueVars, wakeVars, writerVars
<1>13. CASE FreePos
  BY <1>2, <1>3, <1>13 DEF TypeOK, FreePos, queueVars, wakeVars, writerVars, ghostVars
<1>14. CASE FreeSpin
  BY <1>14 DEF TypeOK, FreeSpin, allocVars, queueVars, wakeVars, writerVars, ghostVars
<1>15. CASE FreeStore
  BY <1>15 DEF TypeOK, FreeStore, queueVars, wakeVars, writerVars, ghostVars
<1>16. CASE FreeCount
  BY <1>16 DEF TypeOK, FreeCount, queueVars, wakeVars, writerVars, ghostVars
<1> QED
  BY <1>4, <1>5, <1>6, <1>7, <1>8, <1>9, <1>10, <1>11, <1>12, <1>13, <1>14, <1>15, <1>16
  DEF ReaderStep


-----------------------------------------------------------------------------
(* Blocks in hand *)

\* A writer's step leaves the other writers and the reader where they are.
LEMMA OthersStay ==
  ASSUME TypeOK, NEW w \in Writer, WriterStep(w)
  PROVE  /\ \A v \in Writer \ {w} : /\ wpc'[v] = wpc[v] /\ wpos'[v] = wpos[v]
                                    /\ wblock'[v] = wblock[v] /\ sent'[v] = sent[v]
         /\ UNCHANGED <<readerVars, received, readpos, freepos>>
<1>1. /\ wpc \in [Writer -> Places] /\ wpos \in [Writer -> Slot]
      /\ wblock \in [Writer -> Block \cup {NULL}] /\ sent \in [Writer -> 0 .. MaxMessages]
  BY DEF TypeOK, Places
<1> QED
  BY <1>1 DEF WriterStep, AllocClaim, AllocFails, AllocPos, AllocTake, AllocClear, Fill, WritePos,
              WriteSpin, WriteStore, WriteCount, WritePeek, WriteLower, WritePost, Goto,
              allocVars, queueVars, wakeVars, readerVars, ghostVars

LEMMA HandStays ==
  ASSUME NEW v \in Writer, WriterHand(v), wpc'[v] = wpc[v], wpos'[v] = wpos[v],
         wblock'[v] = wblock[v], sent'[v] = sent[v],
         wpc[v] = "clear" => freelist'[wpos[v]] = freelist[wpos[v]],
         wpc[v] # "clear" /\ wblock[v] # NULL => content'[wblock[v]] = content[wblock[v]]
  PROVE  WriterHand(v)'
  BY DEF WriterHand, Storing, Owning

LEMMA ReaderHandStays ==
  ASSUME ReaderHand, UNCHANGED <<rpc, rpos, rblock, received>>,
         rpc = "clear" => queue_data'[rpos] = queue_data[rpos],
         rpc \in {"lower", "use"} => content'[rblock] = content[rblock]
                                     /\ written'[Len(received) + 1] = written[Len(received) + 1]
  PROVE  ReaderHand'
  BY DEF ReaderHand

\* What the message under the reader's hand is.
LEMMA NextMessage ==
  ASSUME TypeOK, EntryCount, rpc \in Reading
  PROVE  /\ Len(received) \in Nat /\ Len(written) \in Nat
         /\ Len(received) + 1 \in DOMAIN written
         /\ Len(received) + 1 <= Len(written)
  BY CountIsNat, LenProperties, SMTT(40) DEF EntryCount, One, TypeOK

\* A writer that has a slot and has not stored to it finds it empty.
LEMMA PendingSlotEmpty ==
  ASSUME IInv, NEW w \in Writer, wpc[w] \in Storing
  PROVE  queue_data[wpos[w]] = NULL
<1>1. PICK m \in Cleared + 1 .. Len(written) : written[m] = <<w, sent[w]>> /\ wpos[w] = SlotOf(m)
  BY DEF IInv, Ring
<1>2. Pending(m)
  BY <1>1 DEF Pending
<1> QED
  BY <1>1, <1>2 DEF IInv, Ring

LEMMA WriterHands ==
  ASSUME IInv, NEW w \in Writer, WriterStep(w)
  PROVE  Hands'
<1> USE DEF At, Goto
<1>1. /\ wpc \in [Writer -> Places] /\ wpos \in [Writer -> Slot]
      /\ wblock \in [Writer -> Block \cup {NULL}] /\ sent \in [Writer -> 0 .. MaxMessages]
      /\ freelist \in [Slot -> Block \cup {NULL}] /\ queue_data \in [Slot -> Block \cup {NULL}]
      /\ content \in [Block -> Message \cup {<<>>}]
  BY DEF IInv, TypeOK, Places
<1>2. /\ \A v \in Writer \ {w} : /\ wpc'[v] = wpc[v] /\ wpos'[v] = wpos[v]
                                 /\ wblock'[v] = wblock[v] /\ sent'[v] = sent[v]
      /\ UNCHANGED <<rpc, rpos, rblock, raised, received, readpos, freepos>>
  BY OthersStay DEF IInv, readerVars
<1>3. WriterHand(w) /\ ReaderHand /\ \A v \in Writer : WriterHand(v)
  BY DEF IInv, Hands
<1>4. SUFFICES /\ WriterHand(w)'
               /\ \A v \in Writer \ {w} :
                    /\ wpc[v] = "clear" => freelist'[wpos[v]] = freelist[wpos[v]]
                    /\ wpc[v] # "clear" /\ wblock[v] # NULL =>
                         content'[wblock[v]] = content[wblock[v]]
               /\ rpc = "clear" => queue_data'[rpos] = queue_data[rpos]
               /\ rpc \in {"lower", "use"} =>
                    /\ content'[rblock] = content[rblock]
                    /\ written'[Len(received) + 1] = written[Len(received) + 1]
  BY <1>2, <1>3, HandStays, ReaderHandStays DEF Hands
<1>5. CASE AllocClaim(w)
  BY <1>1, <1>3, <1>5 DEF WriterHand, AllocClaim, queueVars, wakeVars, readerVars, ghostVars, Owning,
                          Storing
<1>6. CASE AllocFails(w)
  BY <1>1, <1>3, <1>6 DEF WriterHand, AllocFails, queueVars, wakeVars, readerVars, ghostVars, Owning,
                          Storing
<1>7. CASE AllocPos(w)
  BY <1>1, <1>3, <1>7 DEF WriterHand, AllocPos, queueVars, wakeVars, readerVars, ghostVars, Owning,
                          Storing
<1>8. CASE AllocTake(w)
  BY <1>1, <1>3, <1>8 DEF WriterHand, AllocTake, allocVars, queueVars, wakeVars, readerVars,
                          ghostVars, Owning, Storing
<1>9. CASE AllocClear(w)
  <2>1. \A v \in Writer \ {w} : wpc[v] = "clear" => wpos[v] # wpos[w]
    BY <1>9 DEF IInv, FreeRing, Taking, AllocClear
  <2> QED
    BY <1>1, <1>3, <1>9, <2>1 DEF WriterHand, AllocClear, queueVars, wakeVars, readerVars,
                                  ghostVars, Owning, Storing
<1>10. CASE Fill(w)
  <2>1. wblock[w] \in Block /\ wblock[w] # NULL
    BY <1>1, <1>3, <1>10 DEF WriterHand, Fill
  <2>2. \A v \in Writer \ {w} : wpc[v] # "clear" /\ wblock[v] # NULL => wblock[v] # wblock[w]
    BY <1>10, <2>1 DEF IInv, Apart, Fill
  <2>3. rblock # wblock[w]
    BY <1>10, <2>1 DEF IInv, Apart, Fill
  <2> QED
    BY <1>1, <1>3, <1>10, <2>1, <2>2, <2>3
    DEF WriterHand, Fill, allocVars, queueVars, wakeVars, readerVars, ghostVars, Owning, Storing
<1>11. CASE WritePos(w)
  <2>1. rpc \in {"lower", "use"} => written'[Len(received) + 1] = written[Len(received) + 1]
    BY <1>11, NextMessage, AppendProperties, SMTT(40) DEF IInv, TypeOK, WritePos, Reading
  <2>2. WriterHand(w)'
    BY <1>1, <1>3, <1>11 DEF WriterHand, WritePos, allocVars, Owning, Storing
  <2> QED
    BY <1>11, <2>1, <2>2 DEF WritePos, allocVars
<1>12. CASE WriteSpin(w)
  BY <1>1, <1>3, <1>12 DEF WriterHand, WriteSpin, allocVars, queueVars, wakeVars, readerVars,
                           ghostVars, Owning, Storing
<1>13. CASE WriteStore(w)
  <2>1. queue_data[wpos[w]] = NULL
    BY <1>13, PendingSlotEmpty DEF Storing, WriteStore
  <2>2. rpc = "clear" => queue_data[rpos] # NULL
    BY <1>3 DEF ReaderHand
  <2> QED
    BY <1>1, <1>3, <1>13, <2>1, <2>2 DEF WriterHand, WriteStore, allocVars, ghostVars, Owning,
                                         Storing, IInv, TypeOK
<1>14. CASE WriteCount(w)
  BY <1>1, <1>3, <1>14 DEF WriterHand, WriteCount, allocVars, ghostVars, Owning, Storing
<1>15. CASE WritePeek(w)
  BY <1>1, <1>3, <1>15 DEF WriterHand, WritePeek, allocVars, queueVars, ghostVars, Owning, Storing
<1>16. CASE WriteLower(w)
  BY <1>1, <1>3, <1>16 DEF WriterHand, WriteLower, allocVars, queueVars, ghostVars, Owning, Storing
<1>17. CASE WritePost(w)
  BY <1>1, <1>3, <1>17 DEF WriterHand, WritePost, allocVars, queueVars, ghostVars, Owning, Storing
<1> QED
  BY <1>5, <1>6, <1>7, <1>8, <1>9, <1>10, <1>11, <1>12, <1>13, <1>14, <1>15, <1>16, <1>17
  DEF WriterStep

LEMMA ReaderHands ==
  ASSUME IInv, ReaderStep
  PROVE  Hands'
<1>1. /\ wpc \in [Writer -> Places] /\ wpos \in [Writer -> Slot]
      /\ wblock \in [Writer -> Block \cup {NULL}]
      /\ freelist \in [Slot -> Block \cup {NULL}] /\ queue_data \in [Slot -> Block \cup {NULL}]
      /\ rpos \in Slot /\ received \in Seq(Message)
  BY DEF IInv, TypeOK, Places
<1>2. ReaderHand /\ \A v \in Writer : WriterHand(v)
  BY DEF IInv, Hands
<1>3. UNCHANGED <<wpc, wpos, wblock, sent, content, written>>
  BY DEF ReaderStep, ReadClaim, ReadFails, ReadPos, ReadTake, ReadClear, ReadRaise, ReadLower,
         ReadSleep, Use, FreePos, FreeSpin, FreeStore, FreeCount, writerVars, ghostVars
<1>4. SUFFICES /\ \A v \in Writer : wpc[v] = "clear" => freelist'[wpos[v]] = freelist[wpos[v]]
               /\ ReaderHand'
  BY <1>2, <1>3, HandStays DEF Hands
<1>5. CASE ReadClaim
  BY <1>2, <1>5 DEF ReaderHand, ReadClaim, allocVars
<1>6. CASE ReadFails
  BY <1>2, <1>6 DEF ReaderHand, ReadFails, allocVars
<1>7. CASE ReadPos
  BY <1>2, <1>7 DEF ReaderHand, ReadPos, allocVars
<1>8. CASE ReadTake
  BY <1>2, <1>8 DEF ReaderHand, ReadTake, allocVars, queueVars
<1>9. CASE ReadClear
  <2>1. queue_data[rpos] # NULL /\ rblock = queue_data[rpos] /\ rpos = SlotOf(Len(received) + 1)
    BY <1>2, <1>9 DEF ReaderHand, ReadClear, IInv, Positions
  <2>2. Len(received) + 1 \in Cleared + 1 .. Len(written)
    BY <1>9, NextMessage DEF IInv, Cleared, One, ReadClear, Reading
  <2>3. content[rblock] = written[Len(received) + 1]
    BY <2>1, <2>2 DEF IInv, Ring
  <2> QED
    BY <1>2, <1>9, <2>3 DEF ReaderHand, ReadClear, allocVars, ghostVars
<1>10. CASE ReadRaise
  BY <1>2, <1>10 DEF ReaderHand, ReadRaise, allocVars
<1>11. CASE ReadLower
  BY <1>2, <1>11 DEF ReaderHand, ReadLower, allocVars, ghostVars
<1>12. CASE ReadSleep
  BY <1>2, <1>12 DEF ReaderHand, ReadSleep, allocVars
<1>13. CASE Use
  BY <1>2, <1>13 DEF ReaderHand, Use, allocVars
<1>14. CASE FreePos
  BY <1>2, <1>14 DEF ReaderHand, FreePos, allocVars
<1>15. CASE FreeSpin
  BY <1>2, <1>15 DEF ReaderHand, FreeSpin, allocVars
<1>16. CASE FreeStore
  <2>1. freelist[rpos] = NULL
    BY <1>16 DEF IInv, FreeRing, FreeStore
  <2>2. \A v \in Writer : wpc[v] = "clear" => wpos[v] # rpos
    BY <1>1, <1>2, <2>1 DEF WriterHand
  <2> QED
    BY <1>1, <1>2, <1>16, <2>2 DEF ReaderHand, FreeStore
<1>17. CASE FreeCount
  BY <1>2, <1>17 DEF ReaderHand, FreeCount
<1> QED
  BY <1>5, <1>6, <1>7, <1>8, <1>9, <1>10, <1>11, <1>12, <1>13, <1>14, <1>15, <1>16, <1>17
  DEF ReaderStep


-----------------------------------------------------------------------------
(* Counters and positions *)

\* What a writer's move does to the counts the invariant speaks of.
LEMMA Moves ==
  ASSUME TypeOK, NEW w \in Writer, NEW t, Goto(w, t)
  PROVE  /\ Count({"full"})' = Count({"full"}) + One(t = "full") - One(wpc[w] = "full")
         /\ Count(Owning)' = Count(Owning) + One(t \in Owning) - One(wpc[w] \in Owning)
         /\ Count(Storing \cup {"count"})' =
              Count(Storing \cup {"count"}) + One(t \in Storing \cup {"count"})
                - One(wpc[w] \in Storing \cup {"count"})
         /\ Count({"full", "allocpos"})' =
              Count({"full", "allocpos"}) + One(t \in {"full", "allocpos"})
                - One(wpc[w] \in {"full", "allocpos"})
         /\ Count({"post"})' = Count({"post"}) + One(t = "post") - One(wpc[w] = "post")
<1>1. wpc \in [Writer -> Places] /\ wpc' = [wpc EXCEPT ![w] = t]
  BY DEF TypeOK, Places, Goto
<1>2. \A S : Count(S)' = Count(S) + (IF t \in S THEN 1 ELSE 0) - (IF wpc[w] \in S THEN 1 ELSE 0)
  BY <1>1, CountMoves
<1>3. Count({"full"})' = Count({"full"}) + One(t = "full") - One(wpc[w] = "full")
  BY <1>2 DEF One
<1>4. Count(Owning)' = Count(Owning) + One(t \in Owning) - One(wpc[w] \in Owning)
  BY <1>2 DEF One
<1>5. Count(Storing \cup {"count"})' =
        Count(Storing \cup {"count"}) + One(t \in Storing \cup {"count"})
          - One(wpc[w] \in Storing \cup {"count"})
  BY <1>2 DEF One
<1>6. Count({"full", "allocpos"})' =
        Count({"full", "allocpos"}) + One(t \in {"full", "allocpos"})
          - One(wpc[w] \in {"full", "allocpos"})
  BY <1>2 DEF One
<1>7. Count({"post"})' = Count({"post"}) + One(t = "post") - One(wpc[w] = "post")
  BY <1>2 DEF One
<1> QED
  BY <1>3, <1>4, <1>5, <1>6, <1>7

LEMMA CountsAreNat ==
  /\ Count({"full"}) \in Nat /\ Count(Owning) \in Nat /\ Count(Storing \cup {"count"}) \in Nat
  /\ Count({"full", "allocpos"}) \in Nat /\ Count({"post"}) \in Nat
  BY CountIsNat

LEMMA LengthsAreNat ==
  ASSUME TypeOK
  PROVE  Len(written) \in Nat /\ Len(received) \in Nat
  BY LenProperties DEF TypeOK

LEMMA WriterCounts ==
  ASSUME IInv, NEW w \in Writer, WriterStep(w)
  PROVE  BlockCount' /\ EntryCount' /\ Positions'
<1>1. TypeOK /\ free_blocks \in Int /\ entries \in Int /\ writepos \in Int
  BY DEF IInv, TypeOK
<1>2. BlockCount /\ EntryCount /\ Positions
  BY DEF IInv
<1>3. Len(written) \in Nat /\ Len(received) \in Nat
  BY <1>1, LengthsAreNat
<1>4. Count({"full"}) \in Nat /\ Count(Owning) \in Nat /\ Count(Storing \cup {"count"}) \in Nat
  BY CountsAreNat
<1>5. rpc' = rpc /\ rpos' = rpos /\ received' = received /\ readpos' = readpos
  BY <1>1, OthersStay DEF readerVars
<1> DEFINE f == One(rpc \in Freeing)
           e == One(rpc = "empty")
           r == One(rpc \in Reading)
<1>0. f \in Int /\ e \in Int /\ r \in Int /\ f' = f /\ e' = e /\ r' = r
  BY <1>5 DEF One
<1> HIDE DEF f, e, r
<1>6. CASE AllocClaim(w)
  <2>1. CASE free_blocks > 0
    <3>1. free_blocks' = free_blocks - 1 /\ entries' = entries /\ Goto(w, "allocpos")
        /\ wpc[w] = "alloc"
      BY <1>6, <2>1 DEF AllocClaim, At, Goto, allocVars, queueVars, ghostVars
    <3>2. /\ Count({"full"})' = Count({"full"})
         /\ Count(Owning)' = Count(Owning) + 1
         /\ Count(Storing \cup {"count"})' = Count(Storing \cup {"count"})
      BY <1>1, <1>4, <3>1, Moves DEF One, Owning, Storing
    <3>3. UNCHANGED <<written, writepos>>
      BY <1>6, <2>1 DEF AllocClaim, queueVars, ghostVars
    <3>0. free_blocks' = free_blocks - 1
      BY <3>1
    <3>4. BlockCount'
      <4>1. free_blocks' + Count({"full"})' >= 0
        BY <1>1, <1>4, <2>1, <3>0, <3>2
      <4>2. free_blocks + Count({"full"}) + Count(Owning) + (Len(written) - Len(received)) + f = Depth
        BY <1>2 DEF BlockCount, f
      <4>3. Len(written') = Len(written) /\ Len(received') = Len(received)
        BY <1>5, <3>3
      <4>4. free_blocks' + Count({"full"})' + Count(Owning)' + (Len(written') - Len(received')) + f'
              = Depth
        BY <1>0, <1>1, <1>3, <1>4, <3>0, <3>2, <4>2, <4>3
      <4> QED
        BY <4>1, <4>4 DEF BlockCount, f
    <3>5. EntryCount'
      BY <1>0, <1>1, <1>2, <1>3, <1>4, <1>5, <3>1, <3>2, <3>3 DEF EntryCount, e, r
    <3> QED
      BY <1>2, <1>5, <3>3, <3>4, <3>5 DEF Positions
  <2>2. CASE ~(free_blocks > 0)
    <3>1. free_blocks' = free_blocks - 1 /\ entries' = entries /\ Goto(w, "full")
        /\ wpc[w] = "alloc"
      BY <1>6, <2>2 DEF AllocClaim, At, Goto, allocVars, queueVars, ghostVars
    <3>2. /\ Count({"full"})' = Count({"full"}) + 1
         /\ Count(Owning)' = Count(Owning)
         /\ Count(Storing \cup {"count"})' = Count(Storing \cup {"count"})
      BY <1>1, <1>4, <3>1, Moves DEF One, Owning, Storing
    <3>3. UNCHANGED <<written, writepos>>
      BY <1>6, <2>2 DEF AllocClaim, queueVars, ghostVars
    <3>4. BlockCount'
      BY <1>0, <1>1, <1>2, <1>3, <1>4, <1>5, <2>2, <3>1, <3>2, <3>3 DEF BlockCount, f
    <3>5. EntryCount'
      BY <1>0, <1>1, <1>2, <1>3, <1>4, <1>5, <3>1, <3>2, <3>3 DEF EntryCount, e, r
    <3> QED
      BY <1>2, <1>5, <3>3, <3>4, <3>5 DEF Positions
  <2> QED
    BY <2>1, <2>2
<1>7. CASE AllocFails(w)
  <2>1. free_blocks' = free_blocks + 1 /\ entries' = entries /\ Goto(w, "alloc")
      /\ wpc[w] = "full"
    BY <1>7 DEF AllocFails, At, Goto, allocVars, queueVars, ghostVars
  <2>2. /\ Count({"full"})' = Count({"full"}) - 1
       /\ Count(Owning)' = Count(Owning)
       /\ Count(Storing \cup {"count"})' = Count(Storing \cup {"count"})
    BY <1>1, <1>4, <2>1, Moves DEF One, Owning, Storing
  <2>3. UNCHANGED <<written, writepos>>
    BY <1>7 DEF AllocFails, queueVars, ghostVars
  <2>4. BlockCount'
    BY <1>0, <1>1, <1>2, <1>3, <1>4, <1>5, <2>1, <2>2, <2>3 DEF BlockCount, f
  <2>5. EntryCount'
    BY <1>0, <1>1, <1>2, <1>3, <1>4, <1>5, <2>1, <2>2, <2>3 DEF EntryCount, e, r
  <2> QED
    BY <1>2, <1>5, <2>3, <2>4, <2>5 DEF Positions
<1>8. CASE AllocPos(w)
  <2>1. free_blocks' = free_blocks /\ entries' = entries /\ Goto(w, "take")
      /\ wpc[w] = "allocpos"
    BY <1>8 DEF AllocPos, At, Goto, allocVars, queueVars, ghostVars
  <2>2. /\ Count({"full"})' = Count({"full"})
       /\ Count(Owning)' = Count(Owning)
       /\ Count(Storing \cup {"count"})' = Count(Storing \cup {"count"})
    BY <1>1, <1>4, <2>1, Moves DEF One, Owning, Storing
  <2>3. UNCHANGED <<written, writepos>>
    BY <1>8 DEF AllocPos, queueVars, ghostVars
  <2>4. BlockCount'
    BY <1>0, <1>1, <1>2, <1>3, <1>4, <1>5, <2>1, <2>2, <2>3 DEF BlockCount, f
  <2>5. EntryCount'
    BY <1>0, <1>1, <1>2, <1>3, <1>4, <1>5, <2>1, <2>2, <2>3 DEF EntryCount, e, r
  <2> QED
    BY <1>2, <1>5, <2>3, <2>4, <2>5 DEF Positions
<1>9. CASE AllocTake(w)
  <2>1. free_blocks' = free_blocks /\ entries' = entries /\ Goto(w, "clear")
      /\ wpc[w] = "take"
    BY <1>9 DEF AllocTake, At, Goto, allocVars, queueVars, ghostVars
  <2>2. /\ Count({"full"})' = Count({"full"})
       /\ Count(Owning)' = Count(Owning)
       /\ Count(Storing \cup {"count"})' = Count(Storing \cup {"count"})
    BY <1>1, <1>4, <2>1, Moves DEF One, Owning, Storing
  <2>3. UNCHANGED <<written, writepos>>
    BY <1>9 DEF AllocTake, queueVars, ghostVars
  <2>4. BlockCount'
    BY <1>0, <1>1, <1>2, <1>3, <1>4, <1>5, <2>1, <2>2, <2>3 DEF BlockCount, f
  <2>5. EntryCount'
    BY <1>0, <1>1, <1>2, <1>3, <1>4, <1>5, <2>1, <2>2, <2>3 DEF EntryCount, e, r
  <2> QED
    BY <1>2, <1>5, <2>3, <2>4, <2>5 DEF Positions
<1>10. CASE AllocClear(w)
  <2>1. free_blocks' = free_blocks /\ entries' = entries /\ Goto(w, "fill")
      /\ wpc[w] = "clear"
    BY <1>10 DEF AllocClear, At, Goto, allocVars, queueVars, ghostVars
  <2>2. /\ Count({"full"})' = Count({"full"})
       /\ Count(Owning)' = Count(Owning)
       /\ Count(Storing \cup {"count"})' = Count(Storing \cup {"count"})
    BY <1>1, <1>4, <2>1, Moves DEF One, Owning, Storing
  <2>3. UNCHANGED <<written, writepos>>
    BY <1>10 DEF AllocClear, queueVars, ghostVars
  <2>4. BlockCount'
    BY <1>0, <1>1, <1>2, <1>3, <1>4, <1>5, <2>1, <2>2, <2>3 DEF BlockCount, f
  <2>5. EntryCount'
    BY <1>0, <1>1, <1>2, <1>3, <1>4, <1>5, <2>1, <2>2, <2>3 DEF EntryCount, e, r
  <2> QED
    BY <1>2, <1>5, <2>3, <2>4, <2>5 DEF Positions
<1>11. CASE Fill(w)
  <2>1. free_blocks' = free_blocks /\ entries' = entries /\ Goto(w, "writepos")
      /\ wpc[w] = "fill"
    BY <1>11 DEF Fill, At, Goto, allocVars, queueVars, ghostVars
  <2>2. /\ Count({"full"})' = Count({"full"})
       /\ Count(Owning)' = Count(Owning)
       /\ Count(Storing \cup {"count"})' = Count(Storing \cup {"count"})
    BY <1>1, <1>4, <2>1, Moves DEF One, Owning, Storing
  <2>3. UNCHANGED <<written, writepos>>
    BY <1>11 DEF Fill, queueVars, ghostVars
  <2>4. BlockCount'
    BY <1>0, <1>1, <1>2, <1>3, <1>4, <1>5, <2>1, <2>2, <2>3 DEF BlockCount, f
  <2>5. EntryCount'
    BY <1>0, <1>1, <1>2, <1>3, <1>4, <1>5, <2>1, <2>2, <2>3 DEF EntryCount, e, r
  <2> QED
    BY <1>2, <1>5, <2>3, <2>4, <2>5 DEF Positions
<1>12. CASE WritePos(w)
  <2>1. free_blocks' = free_blocks /\ entries' = entries /\ Goto(w, "spin")
      /\ wpc[w] = "writepos"
    BY <1>12 DEF WritePos, At, Goto, allocVars, queueVars, ghostVars
  <2>2. /\ Count({"full"})' = Count({"full"})
       /\ Count(Owning)' = Count(Owning) - 1
       /\ Count(Storing \cup {"count"})' = Count(Storing \cup {"count"}) + 1
    BY <1>1, <1>4, <2>1, Moves DEF One, Owning, Storing
  <2>3. Len(written)' = Len(written) + 1
    <3>1. written' = Append(written, <<w, sent[w] + 1>>) /\ <<w, sent[w] + 1>> \in Message
      BY <1>1, <2>1, <1>12, QueueAssumption
      DEF WritePos, TypeOK, Message, IInv, Hands, WriterHand, Owning
    <3> QED
      BY <1>1, <3>1, AppendProperties DEF TypeOK
  <2>4. Succ(writepos) % Depth = (Len(written) + 1) % Depth
    BY <1>1, <1>2, <1>3, SuccMod DEF Positions, SlotOf
  <2>5. writepos' % Depth = SlotOf(Len(written)' + 1)
    BY <1>3, <1>12, <2>3, <2>4 DEF SlotOf, WritePos
  <2>6. BlockCount'
    BY <1>0, <1>1, <1>2, <1>3, <1>4, <1>5, <2>1, <2>2, <2>3, DepthIs, SMTT(40) DEF BlockCount, f
  <2>7. EntryCount'
    <3>1. Len(received)' = Len(received) /\ entries' = entries
      BY <1>5, <2>1
    <3>2. entries' + e' >= 0
      BY <1>0, <1>1, <1>2, <3>1 DEF EntryCount, e
    <3>3. entries' + e' + Count(Storing \cup {"count"})' + r' = Len(written)' - Len(received)'
      <4>1. entries + e + Count(Storing \cup {"count"}) + r = Len(written) - Len(received)
        BY <1>2 DEF EntryCount, e, r
      <4> QED
        BY <1>0, <1>1, <1>3, <1>4, <2>2, <2>3, <3>1, <4>1, SMTT(40)
    <3> QED
      BY <3>2, <3>3 DEF EntryCount, e, r
  <2> QED
    BY <1>2, <1>5, <2>5, <2>6, <2>7 DEF Positions
<1>13. CASE WriteSpin(w)
  <2>1. free_blocks' = free_blocks /\ entries' = entries /\ Goto(w, "store")
      /\ wpc[w] = "spin"
    BY <1>13 DEF WriteSpin, At, Goto, allocVars, queueVars, ghostVars
  <2>2. /\ Count({"full"})' = Count({"full"})
       /\ Count(Owning)' = Count(Owning)
       /\ Count(Storing \cup {"count"})' = Count(Storing \cup {"count"})
    BY <1>1, <1>4, <2>1, Moves DEF One, Owning, Storing
  <2>3. UNCHANGED <<written, writepos>>
    BY <1>13 DEF WriteSpin, queueVars, ghostVars
  <2>4. BlockCount'
    BY <1>0, <1>1, <1>2, <1>3, <1>4, <1>5, <2>1, <2>2, <2>3 DEF BlockCount, f
  <2>5. EntryCount'
    BY <1>0, <1>1, <1>2, <1>3, <1>4, <1>5, <2>1, <2>2, <2>3 DEF EntryCount, e, r
  <2> QED
    BY <1>2, <1>5, <2>3, <2>4, <2>5 DEF Positions
<1>14. CASE WriteStore(w)
  <2>1. free_blocks' = free_blocks /\ entries' = entries /\ Goto(w, "count")
      /\ wpc[w] = "store"
    BY <1>14 DEF WriteStore, At, Goto, allocVars, queueVars, ghostVars
  <2>2. /\ Count({"full"})' = Count({"full"})
       /\ Count(Owning)' = Count(Owning)
       /\ Count(Storing \cup {"count"})' = Count(Storing \cup {"count"})
    BY <1>1, <1>4, <2>1, Moves DEF One, Owning, Storing
  <2>3. UNCHANGED <<written, writepos>>
    BY <1>14 DEF WriteStore, queueVars, ghostVars
  <2>4. BlockCount'
    BY <1>0, <1>1, <1>2, <1>3, <1>4, <1>5, <2>1, <2>2, <2>3 DEF BlockCount, f
  <2>5. EntryCount'
    BY <1>0, <1>1, <1>2, <1>3, <1>4, <1>5, <2>1, <2>2, <2>3 DEF EntryCount, e, r
  <2> QED
    BY <1>2, <1>5, <2>3, <2>4, <2>5 DEF Positions
<1>15. CASE WriteCount(w)
  <2>1. free_blocks' = free_blocks /\ entries' = entries + 1 /\ Goto(w, "peek")
      /\ wpc[w] = "count"
    BY <1>15 DEF WriteCount, At, Goto, allocVars, queueVars, ghostVars
  <2>2. /\ Count({"full"})' = Count({"full"})
       /\ Count(Owning)' = Count(Owning)
       /\ Count(Storing \cup {"count"})' = Count(Storing \cup {"count"}) - 1
    BY <1>1, <1>4, <2>1, Moves DEF One, Owning, Storing
  <2>3. UNCHANGED <<written, writepos>>
    BY <1>15 DEF WriteCount, queueVars, ghostVars
  <2>4. BlockCount'
    BY <1>0, <1>1, <1>2, <1>3, <1>4, <1>5, <2>1, <2>2, <2>3 DEF BlockCount, f
  <2>5. EntryCount'
    BY <1>0, <1>1, <1>2, <1>3, <1>4, <1>5, <2>1, <2>2, <2>3, SMTT(40) DEF EntryCount, e, r
  <2> QED
    BY <1>2, <1>5, <2>3, <2>4, <2>5 DEF Positions
<1>16. CASE WritePeek(w)
  <2>1. CASE blocked_readers # 0
    <3>1. free_blocks' = free_blocks /\ entries' = entries /\ Goto(w, "lower")
        /\ wpc[w] = "peek"
      BY <1>16, <2>1 DEF WritePeek, At, Goto, allocVars, queueVars, ghostVars
    <3>2. /\ Count({"full"})' = Count({"full"})
         /\ Count(Owning)' = Count(Owning)
         /\ Count(Storing \cup {"count"})' = Count(Storing \cup {"count"})
      BY <1>1, <1>4, <3>1, Moves DEF One, Owning, Storing
    <3>3. UNCHANGED <<written, writepos>>
      BY <1>16, <2>1 DEF WritePeek, queueVars, ghostVars
    <3>4. BlockCount'
      BY <1>0, <1>1, <1>2, <1>3, <1>4, <1>5, <2>1, <3>1, <3>2, <3>3 DEF BlockCount, f
    <3>5. EntryCount'
      BY <1>0, <1>1, <1>2, <1>3, <1>4, <1>5, <3>1, <3>2, <3>3 DEF EntryCount, e, r
    <3> QED
      BY <1>2, <1>5, <3>3, <3>4, <3>5 DEF Positions
  <2>2. CASE blocked_readers = 0
    <3>1. free_blocks' = free_blocks /\ entries' = entries /\ Goto(w, "alloc")
        /\ wpc[w] = "peek"
      BY <1>16, <2>2 DEF WritePeek, At, Goto, allocVars, queueVars, ghostVars
    <3>2. /\ Count({"full"})' = Count({"full"})
         /\ Count(Owning)' = Count(Owning)
         /\ Count(Storing \cup {"count"})' = Count(Storing \cup {"count"})
      BY <1>1, <1>4, <3>1, Moves DEF One, Owning, Storing
    <3>3. UNCHANGED <<written, writepos>>
      BY <1>16, <2>2 DEF WritePeek, queueVars, ghostVars
    <3>4. BlockCount'
      BY <1>0, <1>1, <1>2, <1>3, <1>4, <1>5, <2>2, <3>1, <3>2, <3>3 DEF BlockCount, f
    <3>5. EntryCount'
      BY <1>0, <1>1, <1>2, <1>3, <1>4, <1>5, <3>1, <3>2, <3>3 DEF EntryCount, e, r
    <3> QED
      BY <1>2, <1>5, <3>3, <3>4, <3>5 DEF Positions
  <2> QED
    BY <2>1, <2>2
<1>17. CASE WriteLower(w)
  <2>1. free_blocks' = free_blocks /\ entries' = entries /\ Goto(w, "post")
      /\ wpc[w] = "lower"
    BY <1>17 DEF WriteLower, At, Goto, allocVars, queueVars, ghostVars
  <2>2. /\ Count({"full"})' = Count({"full"})
       /\ Count(Owning)' = Count(Owning)
       /\ Count(Storing \cup {"count"})' = Count(Storing \cup {"count"})
    BY <1>1, <1>4, <2>1, Moves DEF One, Owning, Storing
  <2>3. UNCHANGED <<written, writepos>>
    BY <1>17 DEF WriteLower, queueVars, ghostVars
  <2>4. BlockCount'
    BY <1>0, <1>1, <1>2, <1>3, <1>4, <1>5, <2>1, <2>2, <2>3 DEF BlockCount, f
  <2>5. EntryCount'
    BY <1>0, <1>1, <1>2, <1>3, <1>4, <1>5, <2>1, <2>2, <2>3 DEF EntryCount, e, r
  <2> QED
    BY <1>2, <1>5, <2>3, <2>4, <2>5 DEF Positions
<1>18. CASE WritePost(w)
  <2>1. free_blocks' = free_blocks /\ entries' = entries /\ Goto(w, "alloc")
      /\ wpc[w] = "post"
    BY <1>18 DEF WritePost, At, Goto, allocVars, queueVars, ghostVars
  <2>2. /\ Count({"full"})' = Count({"full"})
       /\ Count(Owning)' = Count(Owning)
       /\ Count(Storing \cup {"count"})' = Count(Storing \cup {"count"})
    BY <1>1, <1>4, <2>1, Moves DEF One, Owning, Storing
  <2>3. UNCHANGED <<written, writepos>>
    BY <1>18 DEF WritePost, queueVars, ghostVars
  <2>4. BlockCount'
    BY <1>0, <1>1, <1>2, <1>3, <1>4, <1>5, <2>1, <2>2, <2>3 DEF BlockCount, f
  <2>5. EntryCount'
    BY <1>0, <1>1, <1>2, <1>3, <1>4, <1>5, <2>1, <2>2, <2>3 DEF EntryCount, e, r
  <2> QED
    BY <1>2, <1>5, <2>3, <2>4, <2>5 DEF Positions
<1> QED
  BY <1>6, <1>7, <1>8, <1>9, <1>10, <1>11, <1>12, <1>13, <1>14, <1>15, <1>16, <1>17, <1>18
  DEF WriterStep

LEMMA ReaderCounts ==
  ASSUME IInv, ReaderStep
  PROVE  BlockCount' /\ EntryCount' /\ Positions'
<1> USE DEF One, Reading, Freeing
<1>1. TypeOK /\ free_blocks \in Int /\ entries \in Int /\ readpos \in Int
  BY DEF IInv, TypeOK
<1>2. BlockCount /\ EntryCount /\ Positions
  BY DEF IInv
<1>3. Len(written) \in Nat /\ Len(received) \in Nat
  BY <1>1, LengthsAreNat
<1>4. Count({"full"}) \in Nat /\ Count(Owning) \in Nat /\ Count(Storing \cup {"count"}) \in Nat
  BY CountsAreNat
<1>5. UNCHANGED <<wpc, writepos, written>>
  BY DEF ReaderStep, ReadClaim, ReadFails, ReadPos, ReadTake, ReadClear, ReadRaise, ReadLower,
         ReadSleep, Use, FreePos, FreeSpin, FreeStore, FreeCount, writerVars, queueVars, ghostVars
<1>6. /\ Count({"full"})' = Count({"full"}) /\ Count(Owning)' = Count(Owning)
      /\ Count(Storing \cup {"count"})' = Count(Storing \cup {"count"})
      /\ Len(written)' = Len(written)
  BY <1>5, CountStays
<1>7. CASE ReadClaim
  BY <1>1, <1>2, <1>3, <1>4, <1>5, <1>6, <1>7, SMTT(40)
  DEF BlockCount, EntryCount, Positions, ReadClaim, allocVars, ghostVars
<1>8. CASE ReadFails
  BY <1>1, <1>2, <1>3, <1>4, <1>5, <1>6, <1>8
  DEF BlockCount, EntryCount, Positions, ReadFails, allocVars, ghostVars
<1>9. CASE ReadPos
  <2>1. Succ(readpos) % Depth = (Len(received) + 1) % Depth
    BY <1>1, <1>2, <1>3, <1>9, SuccMod DEF Positions, SlotOf, ReadPos
  <2>2. received' = received /\ readpos' % Depth = SlotOf(Len(received) + 2)
    BY <1>3, <1>9, <2>1 DEF SlotOf, ReadPos, ghostVars
  <2>3. rpos' = SlotOf(Len(received) + 1)
    BY <1>2, <1>3, <1>9 DEF Positions, ReadPos
  <2>4. BlockCount' /\ EntryCount'
    BY <1>1, <1>2, <1>3, <1>4, <1>5, <1>6, <1>9, <2>2 DEF BlockCount, EntryCount, ReadPos, allocVars
  <2> QED
    BY <1>2, <1>3, <1>5, <1>9, <2>2, <2>3, <2>4 DEF Positions, ReadPos
<1>10. CASE ReadTake
  BY <1>1, <1>2, <1>3, <1>4, <1>5, <1>6, <1>10
  DEF BlockCount, EntryCount, Positions, ReadTake, allocVars, queueVars, ghostVars
<1>11. CASE ReadClear
  BY <1>1, <1>2, <1>3, <1>4, <1>5, <1>6, <1>11
  DEF BlockCount, EntryCount, Positions, ReadClear, allocVars, ghostVars
<1>12. CASE ReadRaise
  BY <1>1, <1>2, <1>3, <1>4, <1>5, <1>6, <1>12
  DEF BlockCount, EntryCount, Positions, ReadRaise, allocVars, queueVars, ghostVars
<1>13. CASE ReadLower
  BY <1>1, <1>2, <1>3, <1>4, <1>5, <1>6, <1>13
  DEF BlockCount, EntryCount, Positions, ReadLower, allocVars, queueVars, ghostVars
<1>14. CASE ReadSleep
  BY <1>1, <1>2, <1>3, <1>4, <1>5, <1>6, <1>14
  DEF BlockCount, EntryCount, Positions, ReadSleep, allocVars, queueVars, ghostVars
<1>15. CASE Use
  <2>1. Len(received)' = Len(received) + 1
    <3>1. received' = Append(received, content[rblock]) /\ content[rblock] = written[Len(received) + 1]
      BY <1>15 DEF Use, IInv, Hands, ReaderHand
    <3>2. written[Len(received) + 1] \in Message
      BY <1>1, <1>15, NextMessage DEF IInv, Use, TypeOK
    <3> QED
      BY <1>1, <3>1, <3>2, AppendProperties DEF TypeOK
  <2>2. BlockCount'
    BY <1>1, <1>2, <1>3, <1>4, <1>6, <1>15, <2>1 DEF BlockCount, Use, allocVars
  <2>3. EntryCount'
    BY <1>1, <1>2, <1>3, <1>4, <1>6, <1>15, <2>1 DEF EntryCount, Use, queueVars
  <2>4. Len(received) + 1 + 1 = Len(received)' + 1 + 0
    BY <1>3, <2>1
  <2> QED
    BY <1>2, <1>3, <1>5, <1>15, <2>1, <2>2, <2>3, <2>4 DEF Positions, Use, queueVars
<1>16. CASE FreePos
  BY <1>1, <1>2, <1>3, <1>4, <1>5, <1>6, <1>16
  DEF BlockCount, EntryCount, Positions, FreePos, queueVars, ghostVars
<1>17. CASE FreeSpin
  BY <1>1, <1>2, <1>3, <1>4, <1>5, <1>6, <1>17
  DEF BlockCount, EntryCount, Positions, FreeSpin, allocVars, queueVars, ghostVars
<1>18. CASE FreeStore
  BY <1>1, <1>2, <1>3, <1>4, <1>5, <1>6, <1>18
  DEF BlockCount, EntryCount, Positions, FreeStore, queueVars, ghostVars, allocVars
<1>19. CASE FreeCount
  <2>1. received' = received /\ free_blocks' = free_blocks + 1
    BY <1>19 DEF FreeCount, ghostVars
  <2>2. BlockCount'
    BY <1>1, <1>2, <1>3, <1>4, <1>6, <1>19, <2>1 DEF BlockCount, FreeCount
  <2>3. EntryCount' /\ Positions'
    BY <1>1, <1>2, <1>3, <1>4, <1>5, <1>6, <1>19, <2>1 DEF EntryCount, Positions, FreeCount, queueVars
  <2> QED
    BY <2>2, <2>3
<1> QED
  BY <1>7, <1>8, <1>9, <1>10, <1>11, <1>12, <1>13, <1>14, <1>15, <1>16, <1>17, <1>18, <1>19
  DEF ReaderStep


-----------------------------------------------------------------------------
(* The ring of messages *)

\* At most Depth messages are in the queue, fewer while a writer has a block
\* that is none of them.
LEMMA Spread ==
  ASSUME IInv
  PROVE  /\ Len(written) \in Nat /\ Len(received) \in Nat /\ Cleared \in Nat
         /\ Len(received) <= Cleared
         /\ Len(written) - Len(received) <= Depth
         /\ \A w \in Writer : wpc[w] \in Owning => Len(written) - Len(received) < Depth
<1>1. TypeOK /\ BlockCount /\ free_blocks \in Int
  BY DEF IInv, TypeOK
<1>2. Len(written) \in Nat /\ Len(received) \in Nat
  BY <1>1, LengthsAreNat
<1>3. Count({"full"}) \in Nat /\ Count(Owning) \in Nat
  BY CountsAreNat
<1>4. \A w \in Writer : wpc[w] \in Owning => Count(Owning) # 0
  BY CountIsNat
<1>5. One(rpc \in Freeing) \in Nat
  BY DEF One
<1>6. Cleared \in Nat /\ Len(received) <= Cleared
  BY <1>2 DEF Cleared, One
<1>7. Len(written) - Len(received) <= Depth
  BY <1>1, <1>2, <1>3, <1>5, DepthIs DEF BlockCount
<1>8. Count(Owning) # 0 => Len(written) - Len(received) < Depth
  BY <1>1, <1>2, <1>3, <1>5, DepthIs DEF BlockCount
<1> QED
  BY <1>2, <1>4, <1>6, <1>7, <1>8

\* Different messages that are in the queue have different slots.
LEMMA MessagesApart ==
  ASSUME IInv
  PROVE  \A m, n \in Cleared + 1 .. Len(written) : m # n => SlotOf(m) # SlotOf(n)
<1>1. SUFFICES ASSUME NEW m \in Cleared + 1 .. Len(written), NEW n \in Cleared + 1 .. Len(written), m # n
               PROVE  SlotOf(m) # SlotOf(n)
  OBVIOUS
<1>2. m \in Int /\ n \in Int /\ m < n + Depth /\ n < m + Depth /\ (m < n \/ n < m)
  BY <1>1, Spread, DepthIs
<1> QED
  BY <1>2, SlotsDiffer

LEMMA ClearedWritten ==
  ASSUME IInv
  PROVE  Cleared <= Len(written)
<1>1. TypeOK /\ EntryCount /\ entries \in Int
  BY DEF IInv, TypeOK
<1>2. Len(written) \in Nat /\ Len(received) \in Nat /\ Count(Storing \cup {"count"}) \in Nat
  BY <1>1, LengthsAreNat, CountsAreNat
<1> QED
  BY <1>1, <1>2 DEF EntryCount, Cleared, One, Reading

LEMMA RingStays ==
  ASSUME Ring, TypeOK, UNCHANGED <<queue_data, written, sent>>, Cleared' = Cleared,
         \A s \in Slot : queue_data[s] # NULL => content'[queue_data[s]] = content[queue_data[s]],
         \A w \in Writer : /\ wpc'[w] \in Storing <=> wpc[w] \in Storing
                           /\ wpc[w] \in Storing => wpos'[w] = wpos[w]
  PROVE  Ring'
<1>1. \A m \in DOMAIN written : written[m] \in Message /\ written[m][1] \in Writer
  BY DEF TypeOK, Message
<1>2. Len(written) \in Nat /\ DOMAIN written = 1 .. Len(written) /\ Cleared \in Nat
  BY LengthsAreNat, LenProperties DEF TypeOK, Cleared, One
<1>3. \A m \in Cleared + 1 .. Len(written) : /\ m \in DOMAIN written /\ SlotOf(m) \in Slot
                                             /\ Pending(m)' <=> Pending(m)
  BY <1>1, <1>2, SlotOfRange DEF Pending
<1>4. \A m \in Cleared + 1 .. Len(written) :
        IF Pending(m)' THEN queue_data[SlotOf(m)] = NULL
        ELSE queue_data[SlotOf(m)] # NULL /\ content'[queue_data[SlotOf(m)]] = written[m]
  BY <1>3 DEF Ring
<1>5. \A w \in Writer : wpc'[w] \in Storing =>
        \E m \in Cleared + 1 .. Len(written) : written[m] = <<w, sent[w]>> /\ wpos'[w] = SlotOf(m)
  <2>1. SUFFICES ASSUME NEW w \in Writer, wpc'[w] \in Storing
                 PROVE  \E m \in Cleared + 1 .. Len(written) :
                           written[m] = <<w, sent[w]>> /\ wpos'[w] = SlotOf(m)
    OBVIOUS
  <2>2. wpc[w] \in Storing /\ wpos'[w] = wpos[w]
    BY <2>1
  <2>3. \A v \in Writer : wpc[v] \in Storing =>
          \E m \in Cleared + 1 .. Len(written) : written[m] = <<v, sent[v]>> /\ wpos[v] = SlotOf(m)
    BY DEF Ring
  <2>4. PICK m \in Cleared + 1 .. Len(written) :
                written[m] = <<w, sent[w]>> /\ wpos[w] = SlotOf(m)
    BY <2>2, <2>3
  <2> QED
    BY <2>2, <2>4
<1> QED
  BY <1>4, <1>5 DEF Ring

LEMMA WriterRing ==
  ASSUME IInv, NEW w \in Writer, WriterStep(w)
  PROVE  Ring'
<1>1. /\ TypeOK /\ Ring /\ wpc \in [Writer -> Places] /\ wpos \in [Writer -> Slot]
      /\ wblock \in [Writer -> Block \cup {NULL}] /\ sent \in [Writer -> 0 .. MaxMessages]
      /\ queue_data \in [Slot -> Block \cup {NULL}] /\ content \in [Block -> Message \cup {<<>>}]
  BY DEF IInv, TypeOK, Places
<1>2. /\ \A v \in Writer \ {w} : /\ wpc'[v] = wpc[v] /\ wpos'[v] = wpos[v]
                                 /\ wblock'[v] = wblock[v] /\ sent'[v] = sent[v]
      /\ rpc' = rpc /\ received' = received
  BY <1>1, OthersStay DEF readerVars
<1>3. Cleared' = Cleared
  BY <1>2 DEF Cleared
<1>4. /\ Len(written) \in Nat /\ DOMAIN written = 1 .. Len(written) /\ Cleared \in Nat
      /\ \A m \in DOMAIN written : /\ written[m] \in Message /\ written[m][1] \in Writer
                                   /\ written[m][2] \in Nat
                                   /\ written[m] = <<written[m][1], written[m][2]>>
      /\ \A m \in Cleared + 1 .. Len(written) : m \in DOMAIN written
  <2>1. Len(written) \in Nat /\ DOMAIN written = 1 .. Len(written) /\ Cleared \in Nat
    BY <1>1, Spread, LenProperties DEF TypeOK
  <2>2. \A m \in DOMAIN written : written[m] \in Message
    BY <1>1 DEF TypeOK
  <2>3. \A x \in Message : x[1] \in Writer /\ x[2] \in Nat /\ x = <<x[1], x[2]>>
    BY QueueAssumption DEF Message
  <2> QED
    BY <2>1, <2>2, <2>3
<1>5. CASE WritePos(w)
  <2>1. /\ written' = Append(written, <<w, sent[w] + 1>>) /\ wpc[w] = "writepos"
        /\ wpos'[w] = writepos % Depth /\ wpc'[w] = "spin" /\ sent'[w] = sent[w] + 1
        /\ UNCHANGED <<queue_data, content>> /\ sent[w] \in Nat
    BY <1>1, <1>5, QueueAssumption DEF WritePos, At, Goto, queueVars
  <2>2. Len(written)' = Len(written) + 1 /\ DOMAIN written' = 1 .. Len(written) + 1
        /\ written'[Len(written) + 1] = <<w, sent[w] + 1>>
        /\ \A m \in 1 .. Len(written) : written'[m] = written[m]
    BY <1>4, <2>1
  <2>3. wpos'[w] = SlotOf(Len(written) + 1)
    BY <2>1 DEF IInv, Positions
  <2>4. \A m \in Cleared + 1 .. Len(written) : SlotOf(m) # SlotOf(Len(written) + 1)
    <3>1. Len(written) - Len(received) < Depth
      BY <2>1, Spread DEF Owning
    <3>2. \A m \in Cleared + 1 .. Len(written) :
            /\ m \in Int /\ Len(written) + 1 \in Int
            /\ m < Len(written) + 1 /\ Len(written) + 1 < m + Depth
      BY <3>1, Spread, DepthIs
    <3> QED
      BY <3>2, SlotsDiffer
  <2>5. queue_data[SlotOf(Len(written) + 1)] = NULL
    <3>1. SlotOf(Len(written) + 1) \in Slot
      BY <1>4, SlotOfRange
    <3> QED
      BY <1>1, <2>4, <3>1 DEF Ring
  <2>6. \A m \in 1 .. Len(written) : Pending(m)' <=> Pending(m)
    <3>1. SUFFICES ASSUME NEW m \in 1 .. Len(written) PROVE Pending(m)' <=> Pending(m)
      OBVIOUS
    <3>2. CASE written[m][1] = w
      BY <1>1, <1>4, <2>1, <2>2, <3>2 DEF Pending, Storing, Ring
    <3>3. CASE written[m][1] # w
      BY <1>2, <1>4, <2>2, <3>3 DEF Pending
    <3> QED
      BY <3>2, <3>3
  <2>7. \A m \in Nat : m = Len(written) + 1 => Pending(m)'
    <3>1. SUFFICES ASSUME NEW m \in Nat, m = Len(written) + 1 PROVE Pending(m)'
      OBVIOUS
    <3>2. written'[m] = <<w, sent[w] + 1>>
      BY <2>2, <3>1
    <3>3. written'[m][1] = w /\ written'[m][2] = sent[w] + 1
      BY <3>2
    <3>4. sent'[w] = sent[w] + 1 /\ wpc'[w] \in Storing
      BY <2>1 DEF Storing
    <3> QED
      BY <3>3, <3>4 DEF Pending
  <2>8. \A m \in DOMAIN written' : written'[m][2] <= sent'[written'[m][1]]
    <3>1. SUFFICES ASSUME NEW m \in 1 .. Len(written) + 1 PROVE written'[m][2] <= sent'[written'[m][1]]
      BY <2>2
    <3>2. CASE m = Len(written) + 1
      BY <2>1, <2>2, <3>2
    <3>3. CASE m \in 1 .. Len(written) /\ written[m][1] = w
      BY <1>1, <1>4, <2>1, <2>2, <3>3 DEF Ring
    <3>4. CASE m \in 1 .. Len(written) /\ written[m][1] # w
      BY <1>1, <1>2, <1>4, <2>2, <3>4 DEF Ring
    <3> QED
      BY <1>4, <3>2, <3>3, <3>4
  <2>9. \A m, n \in DOMAIN written' : written'[m] = written'[n] => m = n
    <3>1. \A m \in 1 .. Len(written) : written[m] # <<w, sent[w] + 1>>
      BY <1>1, <1>4, <2>1 DEF Ring
    <3> QED
      BY <1>1, <1>4, <2>2, <3>1, SMTT(40) DEF Ring
  <2>10. \A v \in Writer : wpc'[v] \in Storing =>
           \E m \in Cleared + 1 .. Len(written) + 1 :
              written'[m] = <<v, sent'[v]>> /\ wpos'[v] = SlotOf(m)
    <3>1. SUFFICES ASSUME NEW v \in Writer, wpc'[v] \in Storing
                   PROVE  \E m \in Cleared + 1 .. Len(written) + 1 :
                             written'[m] = <<v, sent'[v]>> /\ wpos'[v] = SlotOf(m)
      OBVIOUS
    <3>2. CASE v = w
      <4>1. Len(written) + 1 \in Cleared + 1 .. Len(written) + 1
        BY <1>4, ClearedWritten
      <4> QED
        BY <2>1, <2>2, <2>3, <3>2, <4>1
    <3>3. CASE v # w
      <4>1. PICK m \in Cleared + 1 .. Len(written) : written[m] = <<v, sent[v]>> /\ wpos[v] = SlotOf(m)
        BY <1>1, <1>2, <3>1, <3>3 DEF Ring
      <4>2. m \in Cleared + 1 .. Len(written) + 1 /\ written'[m] = written[m]
        BY <1>4, <2>2
      <4> QED
        BY <1>2, <3>3, <4>1, <4>2
    <3> QED
      BY <3>2, <3>3
  <2>11. \A m \in Cleared + 1 .. Len(written) + 1 :
           IF Pending(m)' THEN queue_data[SlotOf(m)] = NULL
           ELSE queue_data[SlotOf(m)] # NULL /\ content[queue_data[SlotOf(m)]] = written'[m]
    <3>1. SUFFICES ASSUME NEW m \in Cleared + 1 .. Len(written) + 1
                   PROVE  IF Pending(m)' THEN queue_data[SlotOf(m)] = NULL
                          ELSE /\ queue_data[SlotOf(m)] # NULL
                               /\ content[queue_data[SlotOf(m)]] = written'[m]
      OBVIOUS
    <3>2. CASE m = Len(written) + 1
      <4>1. Pending(m)'
        BY <1>4, <2>7, <3>2
      <4> QED
        BY <2>5, <3>2, <4>1
    <3>3. CASE m \in Cleared + 1 .. Len(written)
      BY <1>1, <1>4, <2>2, <2>6, <3>3 DEF Ring
    <3> QED
      BY <1>4, <3>2, <3>3
  <2>12. \A s \in Slot : queue_data[s] # NULL => \E m \in Cleared + 1 .. Len(written) + 1 : s = SlotOf(m)
    BY <1>1, <1>4 DEF Ring
  <2> QED
    BY <1>3, <2>1, <2>2, <2>8, <2>9, <2>10, <2>11, <2>12 DEF Ring
<1>6. CASE WriteStore(w)
  <2>1. /\ wpc[w] = "store" /\ wpc'[w] = "count" /\ UNCHANGED <<written, content, sent>>
        /\ queue_data' = [queue_data EXCEPT ![wpos[w]] = wblock[w]]
    BY <1>1, <1>6 DEF WriteStore, At, Goto, ghostVars
  <2>2. PICK k \in Cleared + 1 .. Len(written) : written[k] = <<w, sent[w]>> /\ wpos[w] = SlotOf(k)
    BY <1>1, <2>1 DEF Ring, Storing
  <2>3. wblock[w] # NULL /\ content[wblock[w]] = written[k]
    BY <2>1, <2>2 DEF IInv, Hands, WriterHand, Storing
  <2>4. queue_data'[SlotOf(k)] = wblock[w] /\ \A s \in Slot \ {SlotOf(k)} : queue_data'[s] = queue_data[s]
    BY <1>1, <2>1, <2>2
  <2>5. ~Pending(k)'
    BY <2>1, <2>2 DEF Pending, Storing
  <2>6. \A m \in Cleared + 1 .. Len(written) : m # k =>
          (Pending(m)' <=> Pending(m)) /\ SlotOf(m) \in Slot \ {SlotOf(k)}
    <3>1. SUFFICES ASSUME NEW m \in Cleared + 1 .. Len(written), m # k
                   PROVE  (Pending(m)' <=> Pending(m)) /\ SlotOf(m) \in Slot \ {SlotOf(k)}
      OBVIOUS
    <3>2. SlotOf(m) \in Slot /\ SlotOf(m) # SlotOf(k)
      BY <1>4, <3>1, SlotOfRange, MessagesApart
    <3>3. CASE written[m][1] # w
      BY <1>2, <1>4, <2>1, <3>2, <3>3 DEF Pending
    <3>4. CASE written[m][1] = w
      <4>1. written[m] # <<w, sent[w]>>
        BY <1>1, <1>4, <2>2, <3>1 DEF Ring
      <4>2. written[m][2] # sent[w]
        BY <1>4, <3>4, <4>1
      <4> QED
        BY <2>1, <3>2, <3>4, <4>2 DEF Pending
    <3> QED
      BY <3>3, <3>4
  <2>7. \A v \in Writer : wpc'[v] \in Storing => v # w
    BY <2>1 DEF Storing
  <2>8. \A v \in Writer : wpc'[v] \in Storing =>
          \E m \in Cleared + 1 .. Len(written) : written[m] = <<v, sent[v]>> /\ wpos'[v] = SlotOf(m)
    <3>1. SUFFICES ASSUME NEW v \in Writer, wpc'[v] \in Storing
                   PROVE  \E m \in Cleared + 1 .. Len(written) :
                             written[m] = <<v, sent[v]>> /\ wpos'[v] = SlotOf(m)
      OBVIOUS
    <3>2. wpc[v] \in Storing /\ wpos'[v] = wpos[v]
      BY <1>2, <2>7, <3>1
    <3>3. PICK m \in Cleared + 1 .. Len(written) : written[m] = <<v, sent[v]>> /\ wpos[v] = SlotOf(m)
      BY <1>1, <3>2 DEF Ring
    <3> QED
      BY <3>2, <3>3
  <2>9. \A m \in Cleared + 1 .. Len(written) :
          IF Pending(m)' THEN queue_data'[SlotOf(m)] = NULL
          ELSE queue_data'[SlotOf(m)] # NULL /\ content[queue_data'[SlotOf(m)]] = written[m]
    BY <1>1, <2>3, <2>4, <2>5, <2>6 DEF Ring
  <2>10. \A s \in Slot : queue_data'[s] # NULL => \E m \in Cleared + 1 .. Len(written) : s = SlotOf(m)
    BY <1>1, <2>4 DEF Ring
  <2> QED
    BY <1>1, <1>3, <2>1, <2>8, <2>9, <2>10, ZenonT(60) DEF Ring
<1>7. CASE Fill(w)
  <2>1. \A s \in Slot : queue_data[s] # wblock[w]
    <3>1. wblock[w] # NULL /\ wpc[w] = "fill"
      BY <1>7 DEF IInv, Hands, WriterHand, Fill, At
    <3> QED
      BY <3>1 DEF IInv, Apart
  <2>2. \A s \in Slot : content'[queue_data[s]] = content[queue_data[s]] \/ queue_data[s] = NULL
    BY <1>1, <1>7, <2>1 DEF Fill
  <2>3. UNCHANGED <<queue_data, written, sent, wpos>> /\ wpc[w] = "fill" /\ wpc'[w] = "writepos"
    BY <1>1, <1>7 DEF Fill, At, Goto, queueVars, ghostVars
  <2> QED
    BY <1>1, <1>2, <1>3, <2>2, <2>3, RingStays DEF Storing
<1>8. CASE ~WritePos(w) /\ ~WriteStore(w) /\ ~Fill(w)
  <2>1. UNCHANGED <<queue_data, written, sent, content>>
    BY <1>8 DEF WriterStep, AllocClaim, AllocFails, AllocPos, AllocTake, AllocClear, WriteSpin,
                WriteCount, WritePeek, WriteLower, WritePost, queueVars, ghostVars
  <2>2. wpc'[w] \in Storing <=> wpc[w] \in Storing
    BY <1>1, <1>8 DEF WriterStep, AllocClaim, AllocFails, AllocPos, AllocTake, AllocClear, WriteSpin,
                      WriteCount, WritePeek, WriteLower, WritePost, At, Goto, Storing
  <2>3. wpc[w] \in Storing => wpos' = wpos
    BY <1>8 DEF WriterStep, AllocClaim, AllocFails, AllocPos, AllocTake, AllocClear, WriteSpin,
                WriteCount, WritePeek, WriteLower, WritePost, At, Storing
  <2> QED
    BY <1>1, <1>2, <1>3, <2>1, <2>2, <2>3, RingStays
<1> QED
  BY <1>5, <1>6, <1>7, <1>8

LEMMA ReaderRing ==
  ASSUME IInv, ReaderStep
  PROVE  Ring'
<1>1. TypeOK /\ Ring /\ rpos \in Slot /\ queue_data \in [Slot -> Block \cup {NULL}]
  BY DEF IInv, TypeOK
<1>2. UNCHANGED <<wpc, wpos, sent, written, content>>
  BY DEF ReaderStep, ReadClaim, ReadFails, ReadPos, ReadTake, ReadClear, ReadRaise, ReadLower,
         ReadSleep, Use, FreePos, FreeSpin, FreeStore, FreeCount, writerVars, ghostVars
<1>3. Len(written) \in Nat /\ Len(received) \in Nat /\ Cleared \in Nat
  BY Spread
<1>4. CASE ReadClear
  <2>1. /\ rpc = "clear" /\ received' = received /\ Cleared = Len(received)
        /\ queue_data' = [queue_data EXCEPT ![rpos] = NULL]
    BY <1>3, <1>4 DEF ReadClear, ghostVars, Cleared, One
  <2>2. Cleared' = Cleared + 1
    BY <1>3, <1>4, <2>1 DEF ReadClear, Cleared, One
  <2>3. Cleared + 1 \in Cleared + 1 .. Len(written)
    BY <1>1, <1>3, <2>1, NextMessage DEF IInv, Reading
  <2>4. rpos = SlotOf(Cleared + 1)
    BY <2>1 DEF IInv, Positions
  <2>5. queue_data[rpos] # NULL
    BY <2>1 DEF IInv, Hands, ReaderHand
  <2>6. \A m \in Cleared + 2 .. Len(written) :
          m \in Cleared + 1 .. Len(written) /\ SlotOf(m) \in Slot \ {rpos}
    <3>1. \A m \in Cleared + 2 .. Len(written) : m \in Cleared + 1 .. Len(written) /\ m # Cleared + 1
      BY <1>3
    <3>2. \A m \in Cleared + 2 .. Len(written) : SlotOf(m) \in Slot /\ SlotOf(m) # SlotOf(Cleared + 1)
      BY <1>3, <2>3, <3>1, MessagesApart, SlotOfRange
    <3> QED
      BY <2>4, <3>1, <3>2
  <2>7. \A m \in Cleared + 1 .. Len(written) : SlotOf(m) # rpos => m \in Cleared + 2 .. Len(written)
    BY <1>3, <2>4
  <2>8. \A w \in Writer : wpc[w] \in Storing => wpos[w] # rpos
    BY <2>5, PendingSlotEmpty
  <2>10. \A m : Pending(m)' <=> Pending(m)
    BY <1>2 DEF Pending
  <2>11. /\ \A s \in Slot \ {rpos} : queue_data'[s] = queue_data[s]
         /\ queue_data'[rpos] = NULL
    BY <1>1, <2>1
  <2>12. \A w \in Writer : wpc[w] \in Storing =>
           \E m \in Cleared + 2 .. Len(written) : written[m] = <<w, sent[w]>> /\ wpos[w] = SlotOf(m)
    BY <1>1, <2>7, <2>8 DEF Ring
  <2>13. \A m \in Cleared + 2 .. Len(written) :
           IF Pending(m)' THEN queue_data'[SlotOf(m)] = NULL
           ELSE queue_data'[SlotOf(m)] # NULL /\ content[queue_data'[SlotOf(m)]] = written[m]
    BY <1>1, <2>6, <2>10, <2>11 DEF Ring
  <2>14. \A s \in Slot : queue_data'[s] # NULL => \E m \in Cleared + 2 .. Len(written) : s = SlotOf(m)
    BY <1>1, <2>7, <2>11 DEF Ring
  <2>15. Cleared' + 1 = Cleared + 2
    BY <1>3, <2>2
  <2> QED
    BY <1>1, <1>2, <2>12, <2>13, <2>14, <2>15 DEF Ring
<1>5. CASE Use
  <2>1. Len(received)' = Len(received) + 1
    <3>1. received' = Append(received, content[rblock]) /\ content[rblock] = written[Len(received) + 1]
      BY <1>5 DEF Use, IInv, Hands, ReaderHand
    <3>2. written[Len(received) + 1] \in Message
      BY <1>1, <1>5, NextMessage DEF IInv, Use, TypeOK, Reading
    <3> QED
      BY <1>1, <3>1, <3>2, AppendProperties DEF TypeOK
  <2>2. Cleared' = Cleared
    BY <1>3, <1>5, <2>1 DEF Use, Cleared, One
  <2>3. queue_data' = queue_data
    BY <1>5 DEF Use, queueVars
  <2> QED
    BY <1>1, <1>2, <2>2, <2>3, RingStays
<1>6. CASE ~ReadClear /\ ~Use
  <2>1. UNCHANGED <<queue_data, received>>
    BY <1>6 DEF ReaderStep, ReadClaim, ReadFails, ReadPos, ReadTake, ReadRaise, ReadLower,
                ReadSleep, FreePos, FreeSpin, FreeStore, FreeCount, queueVars, ghostVars
  <2>2. rpc' \in {"lower", "use"} <=> rpc \in {"lower", "use"}
    BY <1>6 DEF ReaderStep, ReadClaim, ReadFails, ReadPos, ReadTake, ReadRaise, ReadLower,
                ReadSleep, FreePos, FreeSpin, FreeStore, FreeCount
  <2>3. Cleared' = Cleared
    BY <2>1, <2>2 DEF Cleared, One
  <2> QED
    BY <1>1, <1>2, <2>1, <2>3, RingStays
<1> QED
  BY <1>4, <1>5, <1>6


-----------------------------------------------------------------------------
(* The ring of free blocks *)

\* How much of the free list is nobody's.
LEMMA FreeRange ==
  ASSUME IInv
  PROVE  /\ Free \in Nat /\ Free <= Depth
         /\ rpc \in Freeing => Free < Depth
         /\ \A w \in Writer : wpc[w] = "allocpos" => Free > 0
<1> DEFINE F == {w \in Writer : wpc[w] \in {"full"}}
           A == {w \in Writer : wpc[w] \in {"allocpos"}}
           B == {w \in Writer : wpc[w] \in {"full", "allocpos"}}
           O == {w \in Writer : wpc[w] \in Owning}
<1>1. IsFiniteSet(F) /\ IsFiniteSet(A) /\ IsFiniteSet(O)
  BY QueueAssumption, FS_Subset
<1>2. B = F \cup A /\ F \cap A = {} /\ A \subseteq O
  BY DEF Owning
<1>3. Cardinality(F \cup A) = Cardinality(F) + Cardinality(A) - Cardinality(F \cap A)
  BY <1>1, FS_Union
<1>4. Cardinality({}) = 0 /\ Cardinality(A) <= Cardinality(O)
  BY <1>1, <1>2, FS_EmptySet, FS_Subset
<1>5. /\ Count({"full"}) = Cardinality(F) /\ Count({"allocpos"}) = Cardinality(A)
      /\ Count({"full", "allocpos"}) = Cardinality(B) /\ Count(Owning) = Cardinality(O)
  BY DEF Count
<1>6. Count({"full"}) \in Nat /\ Count(Owning) \in Nat /\ Count({"allocpos"}) \in Nat
  BY CountIsNat
<1>7. \A w \in Writer : wpc[w] = "allocpos" => Count({"allocpos"}) # 0
  BY CountIsNat
<1> HIDE DEF F, A, B, O
<1>8. Count({"full", "allocpos"}) = Count({"full"}) + Count({"allocpos"})
      /\ Count({"allocpos"}) <= Count(Owning)
  <2>1. Cardinality(B) = Cardinality(F) + Cardinality(A) - Cardinality({})
    BY <1>2, <1>3, Zenon
  <2>2. Cardinality(B) = Cardinality(F) + Cardinality(A)
    BY <1>4, <1>5, <1>6, <2>1
  <2> QED
    BY <1>4, <1>5, <2>2
<1>9. free_blocks \in Int /\ Len(written) \in Nat /\ Len(received) \in Nat
      /\ Len(received) <= Len(written) /\ BlockCount
  BY Spread, ClearedWritten DEF IInv, TypeOK
<1> DEFINE f == One(rpc \in Freeing)
<1>10. f \in {0, 1} /\ (rpc \in Freeing => f = 1)
  BY DEF One
<1>11. /\ free_blocks + Count({"full"}) >= 0
       /\ free_blocks + Count({"full"}) + Count(Owning) + (Len(written) - Len(received)) + f = Depth
  BY <1>9 DEF BlockCount
<1> HIDE DEF f
<1>12. Free \in Nat /\ Free <= Depth - f /\ (Count({"allocpos"}) # 0 => Free > 0)
  <2>1. PICK u \in Nat : u = Count({"full"})
    BY <1>6
  <2>2. PICK a \in Nat : a = Count({"allocpos"})
    BY <1>6
  <2>3. PICK o \in Nat : o = Count(Owning)
    BY <1>6
  <2>4. PICK m \in Nat : m = Len(written) - Len(received)
    BY <1>9
  <2>5. Free = free_blocks + (u + a)
    BY <1>8, <2>1, <2>2 DEF Free
  <2>6. a <= o /\ free_blocks + u >= 0 /\ free_blocks + u + o + m + f = Depth
    BY <1>8, <1>11, <2>1, <2>2, <2>3, <2>4
  <2> QED
    BY <1>9, <1>10, <2>2, <2>5, <2>6, DepthIs
<1> QED
  BY <1>7, <1>10, <1>12, DepthIs

LEMMA FreeRingStays ==
  ASSUME FreeRing, UNCHANGED <<allocpos, freepos, freelist>>, Free' = Free,
         \A w \in Writer : /\ wpc'[w] \in Taking <=> wpc[w] \in Taking
                           /\ wpc[w] \in Taking => wpos'[w] = wpos[w],
         \/ UNCHANGED <<rpc, rpos>>
         \/ rpc \notin {"spin", "store", "count"} /\ rpc' \notin {"spin", "store", "count"}
  PROVE  FreeRing'
<1>1. \A s \in Slot : Dist(s)' = Dist(s)
  BY DEF Dist
<1>2. rpos' = rpos => Dist(rpos)' = Dist(rpos)
  BY DEF Dist
<1>3. \A s \in Slot : Dist(s) < Free =>
        freelist[s] # NULL /\ \A w \in Writer : wpc'[w] \in Taking => wpos'[w] # s
  BY DEF FreeRing
<1>4. /\ \A w \in Writer : wpc'[w] \in Taking => freelist[wpos'[w]] # NULL
      /\ \A v, w \in Writer : wpc'[v] \in Taking /\ wpc'[w] \in Taking /\ wpos'[v] = wpos'[w] => v = w
  BY DEF FreeRing
<1>5. \A s \in Slot : freelist[s] # NULL =>
        \/ Dist(s) < Free
        \/ \E w \in Writer : wpc'[w] \in Taking /\ wpos'[w] = s
        \/ rpc' = "count" /\ rpos' = s
  BY DEF FreeRing
<1>6. /\ rpc' \notin {"spin", "store", "count"} => freepos % Depth = (allocpos + Free) % Depth
      /\ rpc' \in {"spin", "store", "count"} =>
           freepos % Depth = (allocpos + Free + 1) % Depth /\ Dist(rpos)' = Free
      /\ rpc' = "store" => freelist[rpos'] = NULL
      /\ rpc' = "count" =>
           freelist[rpos'] # NULL /\ \A w \in Writer : wpc'[w] \in Taking => wpos'[w] # rpos'
  BY <1>2 DEF FreeRing
<1> QED
  BY <1>1, <1>3, <1>4, <1>5, <1>6 DEF FreeRing


LEMMA WriterFree ==
  ASSUME IInv, NEW w \in Writer, WriterStep(w)
  PROVE  FreeRing'
<1>1. /\ TypeOK /\ FreeRing /\ wpc \in [Writer -> Places] /\ wpos \in [Writer -> Slot]
      /\ freelist \in [Slot -> Block \cup {NULL}] /\ rpos \in Slot
      /\ allocpos \in Int /\ freepos \in Int /\ free_blocks \in Int
  BY DEF IInv, TypeOK, Places
<1>2. /\ \A v \in Writer \ {w} : wpc'[v] = wpc[v] /\ wpos'[v] = wpos[v]
      /\ rpc' = rpc /\ rpos' = rpos /\ freepos' = freepos
  BY <1>1, OthersStay DEF readerVars
<1>3. Free \in Nat /\ Free <= Depth /\ \A s \in Slot : s \in Int /\ Dist(s) \in 0 .. Depth - 1
  <2>1. \A s \in Slot : s \in Int
    BY DepthIs DEF Slot
  <2>2. \A s \in Slot : (s - allocpos) % Depth \in 0 .. Depth - 1
    BY <1>1, <2>1, GapRange
  <2> QED
    BY <2>1, <2>2, FreeRange DEF Dist
<1>4. Count({"full", "allocpos"}) \in Nat
  BY CountsAreNat
<1>5. CASE AllocPos(w)
  <2>1. /\ wpc[w] = "allocpos" /\ wpc'[w] = "take" /\ wpos'[w] = allocpos % Depth
        /\ allocpos' = Succ(allocpos) /\ UNCHANGED <<freelist, free_blocks>> /\ Goto(w, "take")
    BY <1>1, <1>5 DEF AllocPos, At, Goto
  <2>2. Free > 0 /\ Free' = Free - 1
    <3>1. Count({"full", "allocpos"})' = Count({"full", "allocpos"}) - 1
      BY <1>1, <1>4, <2>1, Moves DEF One
    <3> QED
      BY <1>1, <1>4, <2>1, <3>1, FreeRange DEF Free
  <2>3. allocpos' \in Int /\ allocpos' % Depth = (allocpos + 1) % Depth
    BY <1>1, <2>1, SuccMod, CounterRange, DepthIs
  <2>4. \A s \in Slot : Dist(s)' = IF Dist(s) = 0 THEN Depth - 1 ELSE Dist(s) - 1
    <3>1. SUFFICES ASSUME NEW s \in Slot PROVE Dist(s)' = IF Dist(s) = 0 THEN Depth - 1 ELSE Dist(s) - 1
      OBVIOUS
    <3>2. PICK z \in Int : z = Dist(s)
      BY <1>3
    <3>3. PICK b \in Int : b = allocpos'
      BY <2>3
    <3>4. b % Depth = (allocpos + 1) % Depth /\ z = (s - allocpos) % Depth
      BY <2>3, <3>2, <3>3 DEF Dist
    <3>5. (s - b) % Depth = IF z = 0 THEN Depth - 1 ELSE z - 1
      BY <1>1, <3>4, GapNext
    <3> QED
      BY <3>2, <3>3, <3>5 DEF Dist
  <2>5. wpos'[w] \in Slot /\ \A s \in Slot : Dist(s) = 0 <=> s = wpos'[w]
    <3>1. allocpos % Depth \in Slot /\ allocpos % Depth \in Int
      BY <1>1, ModRange
    <3>2. \A s \in Slot : Dist(s) = 0 => s = allocpos % Depth
      <4>1. \A s \in Slot, z \in Int : z = (s - allocpos) % Depth => s = (allocpos + z) % Depth
        BY <1>1, GapIs
      <4> QED
        BY <1>1, <4>1 DEF Dist
    <3>3. Dist(allocpos % Depth) = 0
      <4>1. PICK s \in Slot : s = allocpos % Depth
        BY <3>1
      <4>2. PICK z \in Slot : z = 0
        BY DepthIs DEF Slot
      <4>3. s \in Int /\ s % Depth = (allocpos + z) % Depth
        BY <1>1, <4>1, <4>2, SmallMod
      <4>4. (s - allocpos) % Depth = z
        BY <1>1, <4>3, GapOf
      <4> QED
        BY <4>1, <4>2, <4>4 DEF Dist
    <3> QED
      BY <2>1, <3>1, <3>2, <3>3
  <2>6. \A s \in Slot : Dist(s)' < Free' <=> Dist(s) < Free /\ s # wpos'[w]
    BY <1>3, <2>2, <2>4, <2>5, DepthIs
  <2>7. freelist[wpos'[w]] # NULL /\ \A v \in Writer \ {w} : wpc[v] \in Taking => wpos[v] # wpos'[w]
    BY <1>1, <2>2, <2>5 DEF FreeRing
  <2>8. \A v \in Writer \ {w} : wpc'[v] \in Taking <=> wpc[v] \in Taking
    BY <1>2
  <2>9. wpc'[w] \in Taking /\ wpc[w] \notin Taking
    BY <2>1 DEF Taking
  <2>10. \A s \in Slot : Dist(s)' < Free' =>
           freelist[s] # NULL /\ \A v \in Writer : wpc'[v] \in Taking => wpos'[v] # s
    BY <1>1, <1>2, <2>6 DEF FreeRing
  <2>11. /\ \A v \in Writer : wpc'[v] \in Taking => freelist[wpos'[v]] # NULL
         /\ \A u, v \in Writer : wpc'[u] \in Taking /\ wpc'[v] \in Taking /\ wpos'[u] = wpos'[v] => u = v
    BY <1>1, <1>2, <2>7 DEF FreeRing
  <2>12. \A s \in Slot : freelist[s] # NULL =>
           \/ Dist(s)' < Free'
           \/ \E v \in Writer : wpc'[v] \in Taking /\ wpos'[v] = s
           \/ rpc = "count" /\ rpos = s
    <3>1. SUFFICES ASSUME NEW s \in Slot, freelist[s] # NULL, ~(Dist(s)' < Free'), ~(rpc = "count" /\ rpos = s)
                   PROVE  \E v \in Writer : wpc'[v] \in Taking /\ wpos'[v] = s
      OBVIOUS
    <3>2. CASE s = wpos'[w]
      BY <2>9, <3>2
    <3>3. CASE s # wpos'[w]
      <4>1. PICK v \in Writer : wpc[v] \in Taking /\ wpos[v] = s
        BY <1>1, <2>6, <3>1, <3>3 DEF FreeRing
      <4> QED
        BY <1>2, <2>9, <4>1
    <3> QED
      BY <3>2, <3>3
  <2>13. \A i \in Int : (allocpos' + i) % Depth = (allocpos + 1 + i) % Depth
    <3>1. PICK a \in Int : a = allocpos + 1
      BY <1>1
    <3>2. PICK b \in Int : b = allocpos'
      BY <2>3
    <3>3. \A i \in Int : (b + i) % Depth = (a + i) % Depth
      BY <2>3, <3>1, <3>2, ShiftMod
    <3> QED
      BY <1>1, <3>1, <3>2, <3>3
  <2>14. /\ (allocpos' + Free') % Depth = (allocpos + Free) % Depth
         /\ (allocpos' + Free' + 1) % Depth = (allocpos + Free + 1) % Depth
    <3>1. PICK i \in Int : i = Free - 1
      BY <1>3
    <3>2. PICK j \in Int : j = Free
      BY <1>3
    <3>3. /\ (allocpos' + i) % Depth = (allocpos + 1 + i) % Depth
          /\ (allocpos' + j) % Depth = (allocpos + 1 + j) % Depth
      BY <2>13
    <3>4. /\ allocpos' + i = allocpos' + Free' /\ allocpos + 1 + i = allocpos + Free
          /\ allocpos' + j = allocpos' + Free' + 1 /\ allocpos + 1 + j = allocpos + Free + 1
      BY <1>1, <1>3, <2>2, <2>3, <3>1, <3>2
    <3> QED
      BY <3>3, <3>4
  <2>15. rpc \in {"spin", "store", "count"} => Dist(rpos)' = Free' /\ rpos # wpos'[w]
    <3>1. SUFFICES ASSUME Dist(rpos) = Free PROVE Dist(rpos)' = Free' /\ rpos # wpos'[w]
      BY <1>1 DEF FreeRing
    <3>2. \A s \in Slot : s = rpos => Dist(s)' = Dist(rpos)'
      BY <1>2 DEF Dist
    <3> QED
      BY <1>1, <1>3, <2>2, <2>4, <2>5, <3>1, <3>2
  <2>16. rpc = "count" => \A v \in Writer : wpc'[v] \in Taking => wpos'[v] # rpos
    BY <1>1, <1>2, <2>15 DEF FreeRing
  <2>17. /\ rpc \notin {"spin", "store", "count"} => freepos % Depth = (allocpos' + Free') % Depth
         /\ rpc \in {"spin", "store", "count"} => freepos % Depth = (allocpos' + Free' + 1) % Depth
    BY <1>1, <2>14 DEF FreeRing
  <2>18. /\ rpc = "store" => freelist[rpos] = NULL
         /\ rpc = "count" => freelist[rpos] # NULL
    BY <1>1 DEF FreeRing
  <2>19. UNCHANGED <<freelist, freepos, rpc, rpos>>
    BY <1>2, <2>1
  <2> QED
    BY <2>10, <2>11, <2>12, <2>15, <2>16, <2>17, <2>18, <2>19 DEF FreeRing
<1>6. CASE AllocClear(w)
  <2>1. /\ wpc[w] = "clear" /\ wpc'[w] = "fill" /\ freelist' = [freelist EXCEPT ![wpos[w]] = NULL]
        /\ UNCHANGED <<allocpos, free_blocks, wpos>> /\ Goto(w, "fill")
    BY <1>1, <1>6 DEF AllocClear, At, Goto
  <2>2. Free' = Free
    BY <1>1, <1>4, <2>1, Moves DEF One, Free
  <2>3. \A s \in Slot : Dist(s)' = Dist(s)
    BY <2>1 DEF Dist
  <2>4. wpc[w] \in Taking /\ wpc'[w] \notin Taking
    BY <2>1 DEF Taking
  <2>5. /\ freelist'[wpos[w]] = NULL
        /\ \A s \in Slot \ {wpos[w]} : freelist'[s] = freelist[s]
    BY <1>1, <2>1
  <2>6. \A s \in Slot : Dist(s) < Free =>
          freelist'[s] # NULL /\ \A v \in Writer : wpc'[v] \in Taking => wpos'[v] # s
    BY <1>1, <1>2, <2>4, <2>5 DEF FreeRing
  <2>7. /\ \A v \in Writer : wpc'[v] \in Taking => freelist'[wpos'[v]] # NULL
        /\ \A u, v \in Writer : wpc'[u] \in Taking /\ wpc'[v] \in Taking /\ wpos'[u] = wpos'[v] => u = v
    BY <1>1, <1>2, <2>4, <2>5 DEF FreeRing
  <2>8. \A s \in Slot : freelist'[s] # NULL =>
          \/ Dist(s) < Free
          \/ \E v \in Writer : wpc'[v] \in Taking /\ wpos'[v] = s
          \/ rpc = "count" /\ rpos = s
    <3>1. SUFFICES ASSUME NEW s \in Slot, freelist'[s] # NULL, ~(Dist(s) < Free), ~(rpc = "count" /\ rpos = s)
                   PROVE  \E v \in Writer : wpc'[v] \in Taking /\ wpos'[v] = s
      OBVIOUS
    <3>2. s # wpos[w] /\ freelist[s] # NULL
      BY <2>5, <3>1
    <3>3. PICK v \in Writer : wpc[v] \in Taking /\ wpos[v] = s
      BY <1>1, <3>1, <3>2 DEF FreeRing
    <3> QED
      BY <1>2, <3>2, <3>3
  <2>9. rpc = "store" => freelist'[rpos] = NULL
    BY <1>1, <2>5 DEF FreeRing
  <2>10. rpc = "count" =>
           freelist'[rpos] # NULL /\ \A v \in Writer : wpc'[v] \in Taking => wpos'[v] # rpos
    BY <1>1, <1>2, <2>4, <2>5 DEF FreeRing
  <2>11. /\ rpc \notin {"spin", "store", "count"} => freepos % Depth = (allocpos + Free) % Depth
         /\ rpc \in {"spin", "store", "count"} =>
              freepos % Depth = (allocpos + Free + 1) % Depth /\ Dist(rpos) = Free
    BY <1>1 DEF FreeRing
  <2>12. UNCHANGED <<freepos, rpc, rpos, allocpos>> /\ Dist(rpos)' = Dist(rpos)
    BY <1>2, <2>1 DEF Dist
  <2> QED
    BY <2>2, <2>3, <2>6, <2>7, <2>8, <2>9, <2>10, <2>11, <2>12 DEF FreeRing
<1>7. CASE AllocClaim(w)
  <2>1. UNCHANGED <<allocpos, freelist, wpos>> /\ free_blocks' = free_blocks - 1 /\ wpc[w] = "alloc"
        /\ \E t \in {"full", "allocpos"} : Goto(w, t)
    BY <1>7 DEF AllocClaim, At
  <2>2. PICK t \in {"full", "allocpos"} : Goto(w, t)
    BY <2>1
  <2>3. Count({"full", "allocpos"})' = Count({"full", "allocpos"}) + 1
    BY <1>1, <1>4, <2>1, <2>2, Moves DEF One
  <2>4. Free' = Free
    BY <1>1, <1>4, <2>1, <2>3 DEF Free
  <2>5. wpc'[w] \notin Taking /\ wpc[w] \notin Taking
    BY <1>1, <2>1, <2>2 DEF Goto, Taking
  <2> QED
    BY <1>1, <1>2, <2>1, <2>4, <2>5, FreeRingStays
<1>8. CASE AllocFails(w)
  <2>1. UNCHANGED <<allocpos, freelist, wpos>> /\ free_blocks' = free_blocks + 1 /\ wpc[w] = "full"
        /\ Goto(w, "alloc")
    BY <1>8 DEF AllocFails, At
  <2>2. Count({"full", "allocpos"})' = Count({"full", "allocpos"}) - 1
    BY <1>1, <1>4, <2>1, Moves DEF One
  <2>3. Free' = Free
    BY <1>1, <1>4, <2>1, <2>2 DEF Free
  <2>4. wpc'[w] \notin Taking /\ wpc[w] \notin Taking
    BY <1>1, <2>1 DEF Goto, Taking
  <2> QED
    BY <1>1, <1>2, <2>1, <2>3, <2>4, FreeRingStays
<1>9. CASE ~AllocPos(w) /\ ~AllocClear(w) /\ ~AllocClaim(w) /\ ~AllocFails(w)
  <2>1. UNCHANGED <<allocpos, freelist, free_blocks>>
    BY <1>9 DEF WriterStep, AllocTake, Fill, WritePos, WriteSpin, WriteStore, WriteCount, WritePeek,
                WriteLower, WritePost, allocVars
  <2>2. PICK t \in Places : Goto(w, t) /\ t \notin {"full", "allocpos"}
                            /\ (t \in Taking <=> wpc[w] \in Taking)
    BY <1>9 DEF WriterStep, AllocTake, Fill, WritePos, WriteSpin, WriteStore, WriteCount, WritePeek,
                WriteLower, WritePost, At, Taking, Places
  <2>3. wpc[w] \notin {"full", "allocpos"} /\ (wpc[w] \in Taking => wpos' = wpos)
    BY <1>9 DEF WriterStep, AllocTake, Fill, WritePos, WriteSpin, WriteStore, WriteCount, WritePeek,
                WriteLower, WritePost, At, Taking
  <2>4. Free' = Free
    BY <1>1, <1>4, <2>1, <2>2, <2>3, Moves DEF One, Free
  <2>5. wpc'[w] = t
    BY <1>1, <2>2 DEF Goto
  <2> QED
    BY <1>1, <1>2, <2>1, <2>2, <2>3, <2>4, <2>5, FreeRingStays
<1> QED
  BY <1>5, <1>6, <1>7, <1>8, <1>9


LEMMA ReaderFree ==
  ASSUME IInv, ReaderStep
  PROVE  FreeRing'
<1>1. /\ TypeOK /\ FreeRing /\ wpc \in [Writer -> Places] /\ wpos \in [Writer -> Slot]
      /\ freelist \in [Slot -> Block \cup {NULL}] /\ rpos \in Slot
      /\ allocpos \in Int /\ freepos \in Int /\ free_blocks \in Int
  BY DEF IInv, TypeOK, Places
<1>2. UNCHANGED <<wpc, wpos, allocpos>>
  BY DEF ReaderStep, ReadClaim, ReadFails, ReadPos, ReadTake, ReadClear, ReadRaise, ReadLower,
         ReadSleep, Use, FreePos, FreeSpin, FreeStore, FreeCount, writerVars, allocVars
<1>3. Free \in Nat /\ \A s \in Slot : s \in Int /\ Dist(s) \in 0 .. Depth - 1 /\ Dist(s)' = Dist(s)
  <2>1. \A s \in Slot : s \in Int
    BY DepthIs DEF Slot
  <2>2. \A s \in Slot : (s - allocpos) % Depth \in 0 .. Depth - 1
    BY <1>1, <2>1, GapRange
  <2> QED
    BY <1>2, <2>1, <2>2, FreeRange DEF Dist
<1>4. Count({"full", "allocpos"}) \in Nat /\ Count({"full", "allocpos"})' = Count({"full", "allocpos"})
  BY <1>2, CountsAreNat, CountStays
<1>5. CASE FreePos
  <2>1. /\ rpc = "freepos" /\ rpc' = "spin" /\ rpos' = freepos % Depth /\ freepos' = Succ(freepos)
        /\ UNCHANGED <<freelist, free_blocks>>
    BY <1>5 DEF FreePos
  <2>2. Free' = Free
    BY <1>4, <2>1 DEF Free
  <2>3. PICK z \in Slot : z = Free
    BY <1>3, <2>1, FreeRange, DepthIs DEF Slot, Freeing
  <2>4. freepos % Depth = (allocpos + z) % Depth /\ z \in Int /\ allocpos + z \in Int
    BY <1>1, <1>3, <2>1, <2>3 DEF FreeRing
  <2>5. PICK s \in Slot : s = freepos % Depth
    BY <1>1, ModRange
  <2>6. (s - allocpos) % Depth = z
    <3>1. s \in Int /\ s % Depth = (allocpos + z) % Depth
      BY <2>4, <2>5, SmallMod
    <3> QED
      BY <1>1, <3>1, GapOf
  <2>7. rpos' = s /\ Dist(rpos)' = Free
    BY <1>2, <2>1, <2>3, <2>5, <2>6 DEF Dist
  <2>8. freepos' % Depth = (allocpos + Free + 1) % Depth
    <3>1. Succ(freepos) % Depth = ((allocpos + z) + 1) % Depth
      BY <1>1, <2>4, SuccMod
    <3> QED
      BY <2>1, <2>3, <3>1
  <2>9. /\ \A t \in Slot : Dist(t) < Free =>
             freelist[t] # NULL /\ \A w \in Writer : wpc[w] \in Taking => wpos[w] # t
        /\ \A w \in Writer : wpc[w] \in Taking => freelist[wpos[w]] # NULL
        /\ \A v, w \in Writer : wpc[v] \in Taking /\ wpc[w] \in Taking /\ wpos[v] = wpos[w] => v = w
        /\ \A t \in Slot : freelist[t] # NULL =>
             Dist(t) < Free \/ \E w \in Writer : wpc[w] \in Taking /\ wpos[w] = t
    BY <1>1, <2>1 DEF FreeRing
  <2> QED
    BY <1>2, <1>3, <2>1, <2>2, <2>7, <2>8, <2>9 DEF FreeRing
<1>6. CASE FreeSpin
  <2>1. /\ rpc = "spin" /\ rpc' = "store" /\ rpos' = rpos /\ freelist[rpos] = NULL
        /\ UNCHANGED <<freelist, free_blocks, freepos>>
    BY <1>6 DEF FreeSpin, allocVars
  <2>2. Free' = Free /\ Dist(rpos)' = Dist(rpos)
    BY <1>2, <1>4, <2>1 DEF Free, Dist
  <2> QED
    BY <1>1, <1>2, <1>3, <2>1, <2>2 DEF FreeRing
<1>7. CASE FreeStore
  <2>1. /\ rpc = "store" /\ rpc' = "count" /\ rpos' = rpos /\ freelist' = [freelist EXCEPT ![rpos] = rblock]
        /\ UNCHANGED <<free_blocks, freepos>>
    BY <1>7 DEF FreeStore
  <2>2. Free' = Free /\ Dist(rpos)' = Dist(rpos)
    BY <1>2, <1>4, <2>1 DEF Free, Dist
  <2>3. rblock # NULL /\ freelist'[rpos] = rblock /\ \A s \in Slot \ {rpos} : freelist'[s] = freelist[s]
    BY <1>1, <2>1 DEF IInv, Hands, ReaderHand
  <2>4. /\ freelist[rpos] = NULL /\ Dist(rpos) = Free /\ freepos % Depth = (allocpos + Free + 1) % Depth
        /\ \A w \in Writer : wpc[w] \in Taking => wpos[w] \in Slot \ {rpos}
    BY <1>1, <2>1 DEF FreeRing
  <2>5. \A s \in Slot : Dist(s) < Free =>
          freelist'[s] # NULL /\ \A w \in Writer : wpc[w] \in Taking => wpos[w] # s
    BY <1>1, <2>3, <2>4 DEF FreeRing
  <2>6. /\ \A w \in Writer : wpc[w] \in Taking => freelist'[wpos[w]] # NULL
        /\ \A v, w \in Writer : wpc[v] \in Taking /\ wpc[w] \in Taking /\ wpos[v] = wpos[w] => v = w
    BY <1>1, <2>3, <2>4 DEF FreeRing
  <2>7. \A s \in Slot : freelist'[s] # NULL =>
          Dist(s) < Free \/ (\E w \in Writer : wpc[w] \in Taking /\ wpos[w] = s) \/ rpos = s
    BY <1>1, <2>1, <2>3 DEF FreeRing
  <2> QED
    BY <1>2, <1>3, <2>1, <2>2, <2>3, <2>4, <2>5, <2>6, <2>7 DEF FreeRing
<1>8. CASE FreeCount
  <2>1. /\ rpc = "count" /\ rpc' = "try" /\ rpos' = rpos /\ free_blocks' = free_blocks + 1
        /\ UNCHANGED <<freelist, freepos>>
    BY <1>8 DEF FreeCount
  <2>2. Free' = Free + 1
    BY <1>1, <1>4, <2>1 DEF Free
  <2>3. /\ Dist(rpos) = Free /\ freepos % Depth = (allocpos + Free + 1) % Depth
        /\ freelist[rpos] # NULL /\ \A w \in Writer : wpc[w] \in Taking => wpos[w] # rpos
    BY <1>1, <2>1 DEF FreeRing
  <2>4. \A s \in Slot : Dist(s) = Free => s = rpos
    <3>1. \A s \in Slot, z \in Int : z = Dist(s) => s = (allocpos + z) % Depth
      BY <1>1, GapIs DEF Dist
    <3> QED
      BY <1>1, <1>3, <2>3, <3>1
  <2>5. \A s \in Slot : Dist(s) < Free + 1 <=> Dist(s) < Free \/ s = rpos
    BY <1>3, <2>3, <2>4
  <2>6. \A s \in Slot : Dist(s) < Free + 1 =>
          freelist[s] # NULL /\ \A w \in Writer : wpc[w] \in Taking => wpos[w] # s
    BY <1>1, <2>3, <2>5 DEF FreeRing
  <2>7. /\ \A w \in Writer : wpc[w] \in Taking => freelist[wpos[w]] # NULL
        /\ \A v, w \in Writer : wpc[v] \in Taking /\ wpc[w] \in Taking /\ wpos[v] = wpos[w] => v = w
    BY <1>1 DEF FreeRing
  <2>8. \A s \in Slot : freelist[s] # NULL =>
          Dist(s) < Free + 1 \/ \E w \in Writer : wpc[w] \in Taking /\ wpos[w] = s
    BY <1>1, <2>5 DEF FreeRing
  <2>9. allocpos + (Free + 1) = allocpos + Free + 1
    BY <1>1, <1>3
  <2> QED
    BY <1>2, <1>3, <2>1, <2>2, <2>3, <2>6, <2>7, <2>8, <2>9 DEF FreeRing
<1>9. CASE ~FreePos /\ ~FreeSpin /\ ~FreeStore /\ ~FreeCount
  <2>1. UNCHANGED <<freelist, freepos, free_blocks>>
    BY <1>9 DEF ReaderStep, ReadClaim, ReadFails, ReadPos, ReadTake, ReadClear, ReadRaise,
                ReadLower, ReadSleep, Use, allocVars
  <2>2. rpc \notin {"spin", "store", "count"} /\ rpc' \notin {"spin", "store", "count"}
    BY <1>9 DEF ReaderStep, ReadClaim, ReadFails, ReadPos, ReadTake, ReadClear, ReadRaise,
                ReadLower, ReadSleep, Use
  <2>3. Free' = Free
    BY <1>4, <2>1 DEF Free
  <2> QED
    BY <1>1, <1>2, <2>1, <2>2, <2>3, FreeRingStays
<1> QED
  BY <1>5, <1>6, <1>7, <1>8, <1>9


-----------------------------------------------------------------------------
(* Blocks *)

LEMMA NullIsNoBlock == NULL \notin Block
  BY DepthIs DEF NULL, Block

LEMMA BlocksStay ==
  ASSUME Apart, Somewhere, UNCHANGED <<freelist, queue_data, rblock>>,
         \A w \in Writer : /\ wblock'[w] = wblock[w]
                           /\ wpc'[w] = "clear" <=> wpc[w] = "clear",
         rpc' = "clear" <=> rpc = "clear"
  PROVE  Apart' /\ Somewhere'
<1>1. Apart'
  BY DEF Apart
<1>2. Somewhere'
  BY DEF Somewhere, Holds, ReaderHolds, At
<1> QED
  BY <1>1, <1>2

LEMMA WriterBlocks ==
  ASSUME IInv, NEW w \in Writer, WriterStep(w)
  PROVE  Apart' /\ Somewhere'
<1>1. /\ TypeOK /\ Apart /\ Somewhere /\ wpc \in [Writer -> Places] /\ wpos \in [Writer -> Slot]
      /\ wblock \in [Writer -> Block \cup {NULL}] /\ rpos \in Slot
      /\ freelist \in [Slot -> Block \cup {NULL}] /\ queue_data \in [Slot -> Block \cup {NULL}]
  BY DEF IInv, TypeOK, Places
<1>2. /\ \A v \in Writer \ {w} : wpc'[v] = wpc[v] /\ wpos'[v] = wpos[v] /\ wblock'[v] = wblock[v]
      /\ rpc' = rpc /\ rblock' = rblock
  BY <1>1, OthersStay DEF readerVars
<1>3. /\ \A v \in Writer : WriterHand(v)
      /\ ReaderHand
  BY DEF IInv, Hands
<1>4. CASE AllocTake(w)
  <2>1. /\ wpc[w] = "take" /\ wpc'[w] = "clear" /\ wblock'[w] = freelist[wpos[w]]
        /\ freelist[wpos[w]] # NULL /\ UNCHANGED <<freelist, queue_data>> /\ wpos[w] \in Slot
    BY <1>1, <1>4 DEF AllocTake, At, Goto, allocVars, queueVars
  <2>2. wblock[w] = NULL
    BY <1>3, <2>1 DEF WriterHand
  <2>3. \A v \in Writer : wblock'[v] # NULL /\ wpc'[v] # "clear" =>
          /\ v # w
          /\ \A s \in Slot : freelist[s] # wblock'[v] /\ queue_data[s] # wblock'[v]
          /\ \A u \in Writer : wblock'[u] = wblock'[v] => u = v
          /\ rblock # wblock'[v]
    BY <1>1, <1>2, <2>1 DEF Apart
  <2>4. Apart'
    BY <1>1, <1>2, <2>1, <2>3 DEF Apart
  <2>5. \A b \in Block, v \in Writer : Holds(v, b) => Holds(v, b)'
    BY <1>2, <2>2, NullIsNoBlock DEF Holds, At
  <2>6. \A b \in Block : ReaderHolds(b)' <=> ReaderHolds(b)
    BY <1>2 DEF ReaderHolds
  <2>7. Somewhere'
    BY <1>1, <2>1, <2>5, <2>6 DEF Somewhere
  <2> QED
    BY <2>4, <2>7
<1>5. CASE AllocClear(w)
  <2>1. /\ wpc[w] = "clear" /\ wpc'[w] = "fill" /\ wblock'[w] = wblock[w] /\ queue_data' = queue_data
        /\ freelist'[wpos[w]] = NULL /\ \A s \in Slot \ {wpos[w]} : freelist'[s] = freelist[s]
    BY <1>1, <1>5 DEF AllocClear, At, Goto, queueVars
  <2>2. wblock[w] = freelist[wpos[w]] /\ wblock[w] # NULL
    BY <1>3, <2>1 DEF WriterHand
  <2>3. \A s \in Slot : freelist'[s] # wblock[w] /\ queue_data[s] # wblock[w]
    BY <1>1, <2>1, <2>2 DEF Apart
  <2>4. \A v \in Writer \ {w} : wblock[v] # wblock[w]
    <3>1. SUFFICES ASSUME NEW v \in Writer \ {w} PROVE wblock[v] # wblock[w]
      OBVIOUS
    <3>2. CASE wpc[v] = "clear"
      <4>1. wpos[v] # wpos[w]
        BY <2>1, <3>2 DEF IInv, FreeRing, Taking
      <4>2. wblock[v] = freelist[wpos[v]]
        BY <1>3, <3>2 DEF WriterHand
      <4> QED
        BY <1>1, <2>2, <4>1, <4>2 DEF Apart
    <3>3. CASE wpc[v] # "clear"
      BY <1>1, <2>2, <3>3 DEF Apart
    <3> QED
      BY <3>2, <3>3
  <2>5. rblock # wblock[w]
    <3>1. CASE rpc = "clear"
      BY <1>1, <1>3, <2>2, <3>1 DEF Apart, ReaderHand
    <3>2. CASE rpc # "clear"
      BY <1>1, <2>2, <3>2 DEF Apart
    <3> QED
      BY <3>1, <3>2
  <2>6. \A s, t \in Slot : freelist'[s] # NULL /\ freelist'[s] = freelist'[t] => s = t
    BY <1>1, <2>1 DEF Apart
  <2>7. \A s, t \in Slot : freelist'[s] # NULL => freelist'[s] # queue_data[t]
    BY <1>1, <2>1 DEF Apart
  <2>8. \A v \in Writer : wblock[v] # NULL /\ wpc'[v] # "clear" =>
          /\ \A s \in Slot : freelist'[s] # wblock[v] /\ queue_data[s] # wblock[v]
          /\ \A u \in Writer : wblock[u] = wblock[v] => u = v
          /\ rblock # wblock[v]
    <3>1. SUFFICES ASSUME NEW v \in Writer, wblock[v] # NULL, wpc'[v] # "clear"
                   PROVE  /\ \A s \in Slot : freelist'[s] # wblock[v] /\ queue_data[s] # wblock[v]
                          /\ \A u \in Writer : wblock[u] = wblock[v] => u = v
                          /\ rblock # wblock[v]
      OBVIOUS
    <3>2. CASE v = w
      BY <2>3, <2>4, <2>5, <3>2
    <3>3. CASE v # w
      BY <1>1, <1>2, <2>1, <3>1, <3>3 DEF Apart
    <3> QED
      BY <3>2, <3>3
  <2>9. rblock # NULL /\ rpc # "clear" => \A s \in Slot : freelist'[s] # rblock /\ queue_data[s] # rblock
    BY <1>1, <2>1 DEF Apart
  <2>10. \A v \in Writer : wblock'[v] = wblock[v]
    BY <1>2, <2>1
  <2>11. Apart'
    BY <1>1, <1>2, <2>1, <2>6, <2>7, <2>8, <2>9, <2>10 DEF Apart
  <2>12. \A b \in Block, v \in Writer : Holds(v, b) => Holds(v, b)'
    BY <1>2, <2>1 DEF Holds, At
  <2>13. \A b \in Block : freelist[wpos[w]] = b => Holds(w, b)'
    BY <2>1, <2>2 DEF Holds, At
  <2>14. \A b \in Block : ReaderHolds(b)' <=> ReaderHolds(b)
    BY <1>2 DEF ReaderHolds
  <2>15. Somewhere'
    BY <1>1, <2>1, <2>12, <2>13, <2>14 DEF Somewhere
  <2> QED
    BY <2>11, <2>15
<1>6. CASE WriteStore(w)
  <2>1. /\ wpc[w] = "store" /\ wpc'[w] = "count" /\ wblock'[w] = NULL /\ freelist' = freelist
        /\ queue_data'[wpos[w]] = wblock[w] /\ \A s \in Slot \ {wpos[w]} : queue_data'[s] = queue_data[s]
    BY <1>1, <1>6 DEF WriteStore, At, Goto, allocVars
  <2>2. wblock[w] # NULL /\ queue_data[wpos[w]] = NULL
    BY <1>3, <2>1, PendingSlotEmpty DEF WriterHand, Storing
  <2>3. /\ \A s \in Slot : freelist[s] # wblock[w] /\ queue_data[s] # wblock[w]
        /\ \A v \in Writer \ {w} : wblock[v] # wblock[w]
        /\ rblock # wblock[w]
    BY <1>1, <2>1, <2>2 DEF Apart
  <2>4. \A s, t \in Slot : queue_data'[s] # NULL /\ queue_data'[s] = queue_data'[t] => s = t
    BY <1>1, <2>1, <2>3 DEF Apart
  <2>5. \A s, t \in Slot : freelist[s] # NULL => freelist[s] # queue_data'[t]
    BY <1>1, <2>1, <2>3 DEF Apart
  <2>6. \A v \in Writer : wblock'[v] # NULL /\ wpc'[v] # "clear" =>
          /\ \A s \in Slot : freelist[s] # wblock'[v] /\ queue_data'[s] # wblock'[v]
          /\ \A u \in Writer : wblock'[u] = wblock'[v] => u = v
          /\ rblock # wblock'[v]
    BY <1>1, <1>2, <2>1, <2>3 DEF Apart
  <2>7. rblock # NULL /\ rpc # "clear" => \A s \in Slot : freelist[s] # rblock /\ queue_data'[s] # rblock
    BY <1>1, <2>1, <2>3 DEF Apart
  <2>8. Apart'
    BY <1>1, <1>2, <2>1, <2>4, <2>5, <2>6, <2>7 DEF Apart
  <2>9. \A b \in Block, v \in Writer \ {w} : Holds(v, b) => Holds(v, b)'
    BY <1>2 DEF Holds, At
  <2>10. \A b \in Block : Holds(w, b) => queue_data'[wpos[w]] = b
    BY <2>1 DEF Holds
  <2>11. \A b \in Block : ReaderHolds(b)' <=> ReaderHolds(b)
    BY <1>2 DEF ReaderHolds
  <2>12. \A b \in Block, s \in Slot : queue_data[s] = b => queue_data'[s] = b
    BY <2>1, <2>2, NullIsNoBlock
  <2>13. Somewhere'
    BY <1>1, <2>1, <2>9, <2>10, <2>11, <2>12 DEF Somewhere
  <2> QED
    BY <2>8, <2>13
<1>7. CASE ~AllocTake(w) /\ ~AllocClear(w) /\ ~WriteStore(w)
  <2>1. UNCHANGED <<freelist, queue_data, wblock>>
    BY <1>7 DEF WriterStep, AllocClaim, AllocFails, AllocPos, Fill, WritePos, WriteSpin, WriteCount,
                WritePeek, WriteLower, WritePost, allocVars, queueVars
  <2>2. wpc'[w] # "clear" /\ wpc[w] # "clear"
    BY <1>1, <1>7 DEF WriterStep, AllocClaim, AllocFails, AllocPos, Fill, WritePos, WriteSpin,
                      WriteCount, WritePeek, WriteLower, WritePost, At, Goto
  <2> QED
    BY <1>1, <1>2, <2>1, <2>2, BlocksStay
<1> QED
  BY <1>4, <1>5, <1>6, <1>7

LEMMA ReaderBlocks ==
  ASSUME IInv, ReaderStep
  PROVE  Apart' /\ Somewhere'
<1>1. /\ TypeOK /\ Apart /\ Somewhere /\ rpos \in Slot /\ rblock \in Block \cup {NULL}
      /\ freelist \in [Slot -> Block \cup {NULL}] /\ queue_data \in [Slot -> Block \cup {NULL}]
  BY DEF IInv, TypeOK
<1>2. UNCHANGED <<wpc, wblock>>
  BY DEF ReaderStep, ReadClaim, ReadFails, ReadPos, ReadTake, ReadClear, ReadRaise, ReadLower,
         ReadSleep, Use, FreePos, FreeSpin, FreeStore, FreeCount, writerVars
<1>3. ReaderHand /\ \A b, v : Holds(v, b)' <=> Holds(v, b)
  BY <1>2 DEF IInv, Hands, Holds, At
<1>4. CASE ReadTake
  <2>1. /\ rpc = "take" /\ rpc' = "clear" /\ rblock' = queue_data[rpos] /\ rblock' # NULL
        /\ UNCHANGED <<freelist, queue_data>>
    BY <1>4 DEF ReadTake, allocVars, queueVars
  <2>2. rblock = NULL
    BY <1>3, <2>1 DEF ReaderHand
  <2>3. Apart'
    BY <1>1, <1>2, <2>1 DEF Apart
  <2>4. \A b \in Block : ~ReaderHolds(b)
    BY <2>2, NullIsNoBlock DEF ReaderHolds
  <2>5. Somewhere'
    BY <1>1, <1>3, <2>1, <2>4 DEF Somewhere
  <2> QED
    BY <2>3, <2>5
<1>5. CASE ReadClear
  <2>1. /\ rpc = "clear" /\ rpc' # "clear" /\ rblock' = rblock /\ freelist' = freelist
        /\ queue_data'[rpos] = NULL /\ \A s \in Slot \ {rpos} : queue_data'[s] = queue_data[s]
    BY <1>1, <1>5 DEF ReadClear, allocVars
  <2>2. rblock = queue_data[rpos] /\ rblock # NULL
    BY <1>3, <2>1 DEF ReaderHand
  <2>3. \A s \in Slot : freelist[s] # rblock /\ queue_data'[s] # rblock
    BY <1>1, <2>1, <2>2 DEF Apart
  <2>4. \A s, t \in Slot : queue_data'[s] # NULL /\ queue_data'[s] = queue_data'[t] => s = t
    BY <1>1, <2>1 DEF Apart
  <2>5. \A s, t \in Slot : freelist[s] # NULL => freelist[s] # queue_data'[t]
    BY <1>1, <2>1 DEF Apart
  <2>6. \A w \in Writer : wblock[w] # NULL /\ wpc[w] # "clear" =>
          /\ \A s \in Slot : freelist[s] # wblock[w] /\ queue_data'[s] # wblock[w]
          /\ \A v \in Writer : wblock[v] = wblock[w] => v = w
          /\ rblock # wblock[w]
    BY <1>1, <2>1 DEF Apart
  <2>7. Apart'
    BY <1>1, <1>2, <2>1, <2>3, <2>4, <2>5, <2>6 DEF Apart
  <2>8. \A b \in Block : ReaderHolds(b)' <=> rblock = b
    BY <2>1 DEF ReaderHolds
  <2>9. \A b \in Block, s \in Slot : queue_data[s] = b => queue_data'[s] = b \/ rblock = b
    BY <2>1, <2>2
  <2>10. \A b \in Block : ~ReaderHolds(b)
    BY <2>1 DEF ReaderHolds
  <2>11. Somewhere'
    BY <1>1, <1>3, <2>1, <2>8, <2>9, <2>10 DEF Somewhere
  <2> QED
    BY <2>7, <2>11
<1>6. CASE FreeStore
  <2>1. /\ rpc = "store" /\ rpc' # "clear" /\ rblock' = NULL /\ queue_data' = queue_data
        /\ freelist'[rpos] = rblock /\ \A s \in Slot \ {rpos} : freelist'[s] = freelist[s]
    BY <1>1, <1>6 DEF FreeStore, queueVars
  <2>2. rblock # NULL /\ freelist[rpos] = NULL
    BY <1>3, <2>1 DEF ReaderHand, IInv, FreeRing
  <2>3. \A s \in Slot : freelist[s] # rblock /\ queue_data[s] # rblock
    BY <1>1, <2>1, <2>2 DEF Apart
  <2>4. \A s, t \in Slot : freelist'[s] # NULL /\ freelist'[s] = freelist'[t] => s = t
    BY <1>1, <2>1, <2>3 DEF Apart
  <2>5. \A s, t \in Slot : freelist'[s] # NULL => freelist'[s] # queue_data[t]
    BY <1>1, <2>1, <2>3 DEF Apart
  <2>6. \A w \in Writer : wblock[w] # NULL /\ wpc[w] # "clear" =>
          /\ \A s \in Slot : freelist'[s] # wblock[w] /\ queue_data[s] # wblock[w]
          /\ \A v \in Writer : wblock[v] = wblock[w] => v = w
          /\ rblock' # wblock[w]
    BY <1>1, <2>1 DEF Apart
  <2>7. Apart'
    BY <1>1, <1>2, <2>1, <2>4, <2>5, <2>6 DEF Apart
  <2>8. \A b \in Block : ReaderHolds(b) => freelist'[rpos] = b
    BY <2>1 DEF ReaderHolds
  <2>9. \A b \in Block, s \in Slot : freelist[s] = b => freelist'[s] = b
    BY <2>1, <2>2, NullIsNoBlock
  <2>10. Somewhere'
    BY <1>1, <1>3, <2>1, <2>8, <2>9 DEF Somewhere
  <2> QED
    BY <2>7, <2>10
<1>7. CASE ~ReadTake /\ ~ReadClear /\ ~FreeStore
  <2>1. UNCHANGED <<freelist, queue_data, rblock>>
    BY <1>7 DEF ReaderStep, ReadClaim, ReadFails, ReadPos, ReadRaise, ReadLower, ReadSleep, Use,
                FreePos, FreeSpin, FreeCount, allocVars, queueVars
  <2>2. rpc # "clear" /\ rpc' # "clear"
    BY <1>7 DEF ReaderStep, ReadClaim, ReadFails, ReadPos, ReadRaise, ReadLower, ReadSleep, Use,
                FreePos, FreeSpin, FreeCount
  <2> QED
    BY <1>1, <1>2, <2>1, <2>2, BlocksStay
<1> QED
  BY <1>4, <1>5, <1>6, <1>7


-----------------------------------------------------------------------------
(* Wakeups *)

\* A step down or up of an unsigned counter is one modulo Wrap.
LEMMA CounterSteps ==
  ASSUME NEW x \in Int
  PROVE  /\ \E k \in Int : Succ(x) = x + 1 - k * Wrap
         /\ \E k \in Int : Pred(x) = x - 1 - k * Wrap
<1>1. PICK y \in Int : y = x + 1
  OBVIOUS
<1>2. PICK z \in Int : z = x - 1
  OBVIOUS
<1>3. PICK r \in Int : r = y % Wrap
  BY DepthIs
<1>4. PICK s \in Int : s = z % Wrap
  BY DepthIs
<1>5. PICK k \in Int : y = k * Wrap + r
  BY <1>3, DepthIs, Quotient, ZenonT(60)
<1>6. PICK j \in Int : z = j * Wrap + s
  BY <1>4, DepthIs, Quotient, ZenonT(60)
<1>7. r = x + 1 - k * Wrap /\ s = x - 1 - j * Wrap
  BY <1>1, <1>2, <1>5, <1>6, DepthIs
<1> QED
  BY <1>1, <1>2, <1>3, <1>4, <1>7 DEF Succ, Pred

\* When nobody is announced and nothing has been posted, the reader's
\* announcement has been taken back by a writer that is about to post.
LEMMA SomebodyPosts ==
  ASSUME TypeOK, Wakeups, raised, blocked_readers = 0, sem = 0
  PROVE  \E w \in Writer : wpc[w] = "post"
<1>1. PICK q \in Int : Due = q * Wrap
  BY DEF Wakeups
<1>2. Count({"post"}) \in Nat
  BY CountsAreNat
<1>3. Due = Count({"post"}) - 1
  BY <1>2 DEF Due, One
<1>4. Count({"post"}) # 0
  <2>1. SUFFICES ASSUME Count({"post"}) = 0 PROVE FALSE
    OBVIOUS
  <2>2. q * Wrap = -1
    BY <1>1, <1>3, <2>1
  <2> QED
    BY <2>2, DepthIs
<1> QED
  BY <1>4, CountIsNat

LEMMA WriterWakeups ==
  ASSUME IInv, NEW w \in Writer, WriterStep(w)
  PROVE  Wakeups'
<1> DEFINE Awake == {"peek", "lower", "post"}
<1>1. /\ TypeOK /\ Wakeups /\ wpc \in [Writer -> Places] /\ blocked_readers \in Int /\ sem \in Nat
      /\ entries \in Int
  BY DEF IInv, TypeOK, Places
<1>2. /\ \A v \in Writer \ {w} : wpc'[v] = wpc[v]
      /\ rpc' = rpc /\ raised' = raised
  BY <1>1, OthersStay DEF readerVars
<1>3. Count({"post"}) \in Nat /\ One(raised) \in Int /\ One(raised)' = One(raised)
  BY <1>2, CountsAreNat DEF One
<1>4. PICK q \in Int : Due = q * Wrap
  BY <1>1 DEF Wakeups
<1>5. One(rpc = "empty") \in Int /\ One(rpc = "empty")' = One(rpc = "empty")
  BY <1>2 DEF One
<1>6. SUFFICES /\ \E p \in Int : Due' = p * Wrap
               /\ raised /\ rpc \in {"empty", "sleep"} /\ entries' + One(rpc = "empty") > 0 /\ sem' = 0 =>
                    \E v \in Writer : wpc'[v] \in Awake
  BY <1>1, <1>2, <1>5 DEF Wakeups
<1>7. CASE WriteCount(w)
  <2>1. UNCHANGED <<blocked_readers, sem>> /\ Goto(w, "peek") /\ wpc[w] = "count" /\ wpc'[w] = "peek"
    BY <1>1, <1>7 DEF WriteCount, wakeVars, At, Goto
  <2>2. Due' = Due
    BY <1>1, <1>3, <2>1, Moves DEF Due, One
  <2> QED
    BY <1>4, <2>1, <2>2
<1>8. CASE WritePeek(w)
  <2>1. /\ UNCHANGED <<blocked_readers, sem, entries>> /\ wpc[w] = "peek"
        /\ blocked_readers # 0 => Goto(w, "lower") /\ wpc'[w] = "lower"
        /\ blocked_readers = 0 => Goto(w, "alloc")
    BY <1>1, <1>8 DEF WritePeek, wakeVars, queueVars, At, Goto
  <2>2. Count({"post"})' = Count({"post"})
    BY <1>1, <1>3, <2>1, Moves DEF One
  <2>3. Due' = Due
    BY <1>1, <1>3, <2>1, <2>2 DEF Due
  <2>4. raised /\ blocked_readers = 0 /\ sem = 0 => \E v \in Writer : wpc'[v] \in Awake
    BY <1>1, <1>2, <2>1, SomebodyPosts
  <2> QED
    BY <1>4, <2>1, <2>3, <2>4
<1>9. CASE WriteLower(w)
  <2>1. /\ sem' = sem /\ entries' = entries /\ Goto(w, "post") /\ wpc[w] = "lower" /\ wpc'[w] = "post"
        /\ blocked_readers' = Pred(blocked_readers)
    BY <1>1, <1>9 DEF WriteLower, queueVars, At, Goto
  <2>2. Count({"post"})' = Count({"post"}) + 1
    BY <1>1, <1>3, <2>1, Moves DEF One
  <2>3. PICK k \in Int : blocked_readers' = blocked_readers - 1 - k * Wrap
    BY <1>1, <2>1, CounterSteps
  <2>4. q - k \in Int /\ Due' = (q - k) * Wrap
    <3>1. Due' = Due - k * Wrap
      BY <1>1, <1>3, <2>1, <2>2, <2>3, DepthIs DEF Due
    <3> QED
      BY <1>4, <3>1, DepthIs
  <2> QED
    BY <2>1, <2>4
<1>10. CASE WritePost(w)
  <2>1. sem' = sem + 1 /\ blocked_readers' = blocked_readers /\ Goto(w, "alloc") /\ wpc[w] = "post"
    BY <1>10 DEF WritePost, At
  <2>2. Count({"post"})' = Count({"post"}) - 1
    BY <1>1, <1>3, <2>1, Moves DEF One
  <2>3. Due' = Due
    BY <1>1, <1>3, <2>1, <2>2 DEF Due
  <2> QED
    BY <1>1, <1>4, <2>1, <2>3
<1>11. CASE ~WriteCount(w) /\ ~WritePeek(w) /\ ~WriteLower(w) /\ ~WritePost(w)
  <2>1. UNCHANGED <<blocked_readers, sem, entries>>
    BY <1>11 DEF WriterStep, AllocClaim, AllocFails, AllocPos, AllocTake, AllocClear, Fill, WritePos,
                 WriteSpin, WriteStore, queueVars, wakeVars
  <2>2. PICK t \in Places : Goto(w, t) /\ t \notin Awake
    BY <1>11 DEF WriterStep, AllocClaim, AllocFails, AllocPos, AllocTake, AllocClear, Fill, WritePos,
                 WriteSpin, WriteStore, At, Places
  <2>3. wpc[w] \notin Awake
    BY <1>11 DEF WriterStep, AllocClaim, AllocFails, AllocPos, AllocTake, AllocClear, Fill, WritePos,
                 WriteSpin, WriteStore, At
  <2>4. Count({"post"})' = Count({"post"})
    BY <1>1, <1>3, <2>2, <2>3, Moves DEF One
  <2>5. Due' = Due
    BY <1>1, <1>3, <2>1, <2>4 DEF Due
  <2>6. \A v \in Writer : wpc[v] \in Awake => wpc'[v] \in Awake
    BY <1>2, <2>3
  <2> QED
    BY <1>1, <1>4, <2>1, <2>5, <2>6 DEF Wakeups
<1> QED
  BY <1>7, <1>8, <1>9, <1>10, <1>11

LEMMA ReaderWakeups ==
  ASSUME IInv, ReaderStep
  PROVE  Wakeups'
<1>1. /\ TypeOK /\ Wakeups /\ blocked_readers \in Int /\ sem \in Nat /\ entries \in Int /\ raised \in BOOLEAN
  BY DEF IInv, TypeOK
<1>2. UNCHANGED wpc
  BY DEF ReaderStep, ReadClaim, ReadFails, ReadPos, ReadTake, ReadClear, ReadRaise, ReadLower,
         ReadSleep, Use, FreePos, FreeSpin, FreeStore, FreeCount, writerVars
<1>3. Count({"post"}) \in Nat /\ Count({"post"})' = Count({"post"})
  BY <1>2, CountsAreNat, CountStays
<1>4. PICK q \in Int : Due = q * Wrap
  BY <1>1 DEF Wakeups
<1>5. CASE ReadRaise
  <2>1. /\ rpc = "raise" /\ rpc' = "try" /\ ~raised /\ raised' = TRUE /\ sem' = sem
        /\ blocked_readers' = Succ(blocked_readers)
    BY <1>1, <1>5 DEF ReadRaise, Wakeups
  <2>2. PICK k \in Int : blocked_readers' = blocked_readers + 1 - k * Wrap
    BY <1>1, <2>1, CounterSteps
  <2>3. q - k \in Int /\ Due' = (q - k) * Wrap
    <3>1. Due' = Due - k * Wrap
      BY <1>1, <1>3, <2>1, <2>2, DepthIs DEF Due, One
    <3> QED
      BY <1>4, <3>1, DepthIs
  <2> QED
    BY <2>1, <2>3 DEF Wakeups, Freeing
<1>6. CASE ReadLower
  <2>1. /\ rpc = "lower" /\ rpc' = "use" /\ raised /\ raised' = FALSE /\ sem' = sem
        /\ blocked_readers' = Pred(blocked_readers)
    BY <1>1, <1>6 DEF ReadLower, Wakeups
  <2>2. PICK k \in Int : blocked_readers' = blocked_readers - 1 - k * Wrap
    BY <1>1, <2>1, CounterSteps
  <2>3. q - k \in Int /\ Due' = (q - k) * Wrap
    <3>1. Due' = Due - k * Wrap
      BY <1>1, <1>3, <2>1, <2>2, DepthIs DEF Due, One
    <3> QED
      BY <1>4, <3>1, DepthIs
  <2> QED
    BY <2>1, <2>3 DEF Wakeups, Freeing
<1>7. CASE ReadSleep
  <2>1. /\ rpc = "sleep" /\ rpc' = "try" /\ raised /\ raised' = FALSE /\ sem' = sem - 1
        /\ blocked_readers' = blocked_readers
    BY <1>1, <1>7 DEF ReadSleep, Wakeups
  <2>2. Due' = Due
    BY <1>1, <1>3, <2>1 DEF Due, One
  <2> QED
    BY <1>4, <2>1, <2>2 DEF Wakeups, Freeing
<1>8. CASE ~ReadRaise /\ ~ReadLower /\ ~ReadSleep
  <2>1. UNCHANGED <<blocked_readers, sem, raised>>
    BY <1>8 DEF ReaderStep, ReadClaim, ReadFails, ReadPos, ReadTake, ReadClear, Use, FreePos,
                FreeSpin, FreeStore, FreeCount, wakeVars
  <2>2. Due' = Due
    BY <1>3, <2>1 DEF Due
  <2>3. /\ rpc' \in {"sleep", "lower"} => raised
        /\ rpc' = "raise" => ~raised
        /\ rpc' \in {"use"} \cup Freeing => ~raised
    BY <1>1, <1>8 DEF Wakeups, Freeing, ReaderStep, ReadClaim, ReadFails, ReadPos, ReadTake,
                      ReadClear, Use, FreePos, FreeSpin, FreeStore, FreeCount
  <2>4. rpc' \in {"empty", "sleep"} =>
          \/ rpc' = "empty" /\ entries' + 1 <= 0
          \/ rpc = "empty" /\ rpc' = "sleep" /\ entries' = entries + 1
    BY <1>1, <1>8 DEF ReaderStep, ReadClaim, ReadFails, ReadPos, ReadTake, ReadClear, Use, FreePos,
                      FreeSpin, FreeStore, FreeCount
  <2>5. raised /\ rpc' \in {"empty", "sleep"} /\ entries' + One(rpc = "empty")' > 0 /\ sem = 0 =>
          \E w \in Writer : wpc[w] \in {"peek", "lower", "post"}
    <3>1. SUFFICES ASSUME raised, rpc' \in {"empty", "sleep"}, entries' + One(rpc = "empty")' > 0, sem = 0
                   PROVE  \E w \in Writer : wpc[w] \in {"peek", "lower", "post"}
      OBVIOUS
    <3>2. rpc = "empty" /\ entries' = entries + 1 /\ entries' > 0
      <4>1. entries' \in Int
        BY <1>1, <1>8 DEF ReaderStep, ReadClaim, ReadFails, ReadPos, ReadTake, ReadClear, Use,
                          FreePos, FreeSpin, FreeStore, FreeCount, queueVars
      <4>0. (rpc' = "empty" => One(rpc = "empty")' = 1) /\ (rpc' # "empty" => One(rpc = "empty")' = 0)
        BY DEF One
      <4>2. rpc' # "empty"
        <5>1. SUFFICES ASSUME rpc' = "empty" PROVE FALSE
          OBVIOUS
        <5>2. One(rpc = "empty")' = 1
          BY <4>0, <5>1
        <5>3. entries' + 1 > 0
          BY <3>1, <5>2
        <5>4. entries' + 1 <= 0
          BY <2>4, <5>1
        <5>5. PICK e \in Int : e = entries'
          BY <4>1
        <5>6. e + 1 > 0 /\ e + 1 <= 0
          BY <5>3, <5>4, <5>5
        <5> QED
          BY <5>6
      <4>3. rpc = "empty" /\ entries' = entries + 1
        BY <2>4, <3>1, <4>2
      <4>4. entries' > 0
        BY <3>1, <4>0, <4>1, <4>2
      <4> QED
        BY <4>3, <4>4
    <3>3. entries + One(rpc = "empty") > 0
      BY <1>1, <3>2 DEF One
    <3> QED
      BY <1>1, <3>1, <3>2, <3>3 DEF Wakeups
  <2> QED
    BY <1>2, <1>4, <2>1, <2>2, <2>3, <2>5 DEF Wakeups
<1> QED
  BY <1>5, <1>6, <1>7, <1>8


-----------------------------------------------------------------------------
(* Theorems *)

LEMMA Start ==
  ASSUME Init
  PROVE  IInv
<1> USE DEF Init
<1>1. Len(written) = 0 /\ Len(received) = 0 /\ Cleared = 0 /\ \A m \in 1 .. 0 : FALSE
  BY DEF Cleared, One
<1>2. \A S : "alloc" \notin S => Count(S) = 0
  BY CountIsNat
<1>3. /\ Count({"full"}) = 0 /\ Count(Owning) = 0 /\ Count(Storing \cup {"count"}) = 0
      /\ Count({"full", "allocpos"}) = 0 /\ Count({"post"}) = 0
  BY <1>2 DEF Owning, Storing
<1>4. \A s \in Slot : s \in Int /\ s + 1 \in Block /\ s + 1 # NULL
  BY DepthIs DEF Slot, Block, NULL
<1>5. TypeOK
  <2>1. written \in Seq(Message) /\ received \in Seq(Message)
    BY EmptySeq
  <2>2. 0 \in Slot /\ 0 \in 0 .. Wrap - 1 /\ 0 \in 0 .. MaxMessages /\ Depth \in Int /\ NULL = 0
    BY QueueAssumption, DepthIs DEF Slot, NULL
  <2> QED
    BY <1>4, <2>1, <2>2 DEF TypeOK
<1>6. Hands
  BY DEF Hands, WriterHand, ReaderHand, Owning, Storing
<1>7. BlockCount /\ EntryCount
  BY <1>1, <1>3, DepthIs DEF BlockCount, EntryCount, One, Freeing, Reading
<1>8. Positions
  BY <1>1 DEF Positions, SlotOf, One
<1>9. Ring
  <2>1. DOMAIN written = 1 .. 0
    OBVIOUS
  <2> QED
    BY <1>1, <2>1 DEF Ring, Storing
<1>10. FreeRing
  <2>1. Free = Depth
    BY <1>3, DepthIs DEF Free
  <2>2. \A s \in Slot : Dist(s) \in 0 .. Depth - 1
    <3>1. PICK a \in Int : a = allocpos
      OBVIOUS
    <3>2. \A s \in Slot : (s - a) % Depth \in 0 .. Depth - 1
      BY <1>4, GapRange
    <3> QED
      BY <3>1, <3>2 DEF Dist
  <2>3. \A s \in Slot : Dist(s) < Free
    BY <2>1, <2>2, DepthIs
  <2>4. freepos % Depth = (allocpos + Free) % Depth
    <3>1. PICK d \in Int : d = 0 + Depth
      BY DepthIs
    <3>2. d = 0 + 1 * Depth
      BY <3>1, DepthIs
    <3>3. d % Depth = 0 % Depth
      BY <3>2, MultipleGone
    <3> QED
      BY <2>1, <3>1, <3>3
  <2>5. \A w \in Writer : wpc[w] \notin Taking
    BY DEF Taking
  <2> QED
    BY <1>4, <2>3, <2>4, <2>5 DEF FreeRing
<1>11. Apart
  <2>1. \A s, t \in Slot : s + 1 = t + 1 => s = t
    BY <1>4
  <2> QED
    BY <1>4, <2>1 DEF Apart
<1>12. Somewhere
  <2>1. \A b \in Block : b - 1 \in Slot /\ freelist[b - 1] = b
    BY DepthIs DEF Block, Slot
  <2> QED
    BY <2>1 DEF Somewhere
<1>13. Wakeups
  <2>1. Due = 0 * Wrap
    BY <1>3, DepthIs DEF Due, One
  <2> QED
    BY <2>1 DEF Wakeups, Freeing
<1> QED
  BY <1>5, <1>6, <1>7, <1>8, <1>9, <1>10, <1>11, <1>12, <1>13 DEF IInv

LEMMA Step ==
  ASSUME IInv, Next
  PROVE  IInv'
<1>1. CASE \E w \in Writer : WriterStep(w)
  <2>1. PICK w \in Writer : WriterStep(w)
    BY <1>1
  <2>2. TypeOK' /\ Hands' /\ BlockCount' /\ EntryCount' /\ Positions'
    BY <2>1, WriterTypes, WriterHands, WriterCounts DEF IInv
  <2>3. Ring' /\ FreeRing' /\ Apart' /\ Somewhere' /\ Wakeups'
    BY <2>1, WriterRing, WriterFree, WriterBlocks, WriterWakeups
  <2> QED
    BY <2>2, <2>3 DEF IInv
<1>2. CASE ReaderStep
  <2>1. TypeOK' /\ Hands' /\ BlockCount' /\ EntryCount' /\ Positions'
    BY <1>2, ReaderTypes, ReaderHands, ReaderCounts DEF IInv
  <2>2. Ring' /\ FreeRing' /\ Apart' /\ Somewhere' /\ Wakeups'
    BY <1>2, ReaderRing, ReaderFree, ReaderBlocks, ReaderWakeups
  <2> QED
    BY <2>1, <2>2 DEF IInv
<1> QED
  BY <1>1, <1>2 DEF Next

LEMMA Stutter ==
  ASSUME IInv, UNCHANGED vars
  PROVE  IInv'
<1>1. /\ UNCHANGED <<freelist, free_blocks, allocpos, freepos, queue_data, entries, readpos, writepos>>
      /\ UNCHANGED <<blocked_readers, sem, content, wpc, wpos, wblock, sent>>
      /\ UNCHANGED <<rpc, rpos, rblock, raised, written, received>>
  BY DEF vars, allocVars, queueVars, wakeVars, writerVars, readerVars, ghostVars
<1>2. TypeOK' /\ Hands' /\ Apart' /\ Somewhere'
  BY <1>1 DEF IInv, TypeOK, Hands, WriterHand, ReaderHand, Apart, Somewhere, Holds, ReaderHolds, At
<1>3. Free' = Free /\ Due' = Due /\ Cleared' = Cleared
  BY <1>1, CountStays DEF Free, Due, Cleared
<1>4. BlockCount' /\ EntryCount' /\ Positions'
  BY <1>1, CountStays DEF IInv, BlockCount, EntryCount, Positions
<1>5. Ring' /\ FreeRing'
  BY <1>1, <1>3, RingStays, FreeRingStays DEF IInv
<1>6. Wakeups'
  BY <1>1, <1>3 DEF IInv, Wakeups
<1> QED
  BY <1>2, <1>4, <1>5, <1>6 DEF IInv

LEMMA Always == Spec => []IInv
<1>1. Init => IInv
  BY Start
<1>2. IInv /\ [Next]_vars => IInv'
  BY Step, Stutter
<1> QED
  BY <1>1, <1>2, PTL DEF Spec

\* Every counter, position and block of the queue keeps its range, whatever the
\* threads of message_queue.c do: no slot and no block is ever out of bounds.
THEOREM QueueTypes == Spec => []TypeOK
<1>1. IInv => TypeOK
  BY DEF IInv
<1> QED
  BY <1>1, Always, PTL

\* A reader of message_queue_read that goes to sleep on a message that is counted
\* is woken, although blocked_readers is read, lowered and raised in separate steps
\* and wraps around below zero.
THEOREM NoWakeupLost == Spec => []NoLostWakeup
<1>1. IInv => NoLostWakeup
  <2>1. SUFFICES ASSUME IInv, rpc = "sleep", sem = 0, entries > 0
                 PROVE  \E w \in Writer :
                          wpc[w] \in {"lower", "post"} \/ (At(w, "peek") /\ blocked_readers # 0)
    BY DEF NoLostWakeup
  <2>2. TypeOK /\ Wakeups /\ raised /\ entries \in Int
    BY <2>1 DEF IInv, TypeOK, Wakeups
  <2>3. PICK w \in Writer : wpc[w] \in {"peek", "lower", "post"}
    BY <2>1, <2>2 DEF Wakeups, One
  <2>4. CASE blocked_readers = 0
    BY <2>1, <2>2, <2>4, SomebodyPosts
  <2>5. CASE blocked_readers # 0
    BY <2>3, <2>5 DEF At
  <2> QED
    BY <2>4, <2>5
<1> QED
  BY <1>1, Always, PTL


\* Every block of the queue is in exactly one place, however alloc, write, read and
\* message_free of message_queue.c interleave: none is lost, none is given out twice.
THEOREM BlocksInOnePlace == Spec => []OnePlacePerBlock
<1>1. IInv => OnePlacePerBlock
  <2>1. SUFFICES ASSUME IInv, NEW b \in Block
                 PROVE  Cardinality({<<"free", s>> : s \in {t \in Slot : freelist[t] = b}}
                              \cup {<<"queue", s>> : s \in {t \in Slot : queue_data[t] = b}}
                              \cup {<<"writer", w>> : w \in {v \in Writer : Holds(v, b)}}
                              \cup (IF ReaderHolds(b) THEN {<<"reader", NULL>>} ELSE {})) = 1
    BY DEF OnePlacePerBlock
  <2> DEFINE F == {t \in Slot : freelist[t] = b}
             Q == {t \in Slot : queue_data[t] = b}
             W == {v \in Writer : Holds(v, b)}
             R == IF ReaderHolds(b) THEN {<<"reader", NULL>>} ELSE {}
             P == {<<"free", s>> : s \in F} \cup {<<"queue", s>> : s \in Q}
                  \cup {<<"writer", w>> : w \in W} \cup R
  <2>2. b # NULL /\ Apart /\ Somewhere
    BY <2>1, NullIsNoBlock DEF IInv
  <2>3. /\ \A s, t \in F : s = t
        /\ \A s, t \in Q : s = t
        /\ F = {} \/ Q = {}
    BY <2>2 DEF Apart
  <2>4. W # {} => F = {} /\ Q = {} /\ ~ReaderHolds(b) /\ \A v, w \in W : v = w
    BY <2>2 DEF Apart, Holds, At, ReaderHolds
  <2>5. ReaderHolds(b) => F = {} /\ Q = {}
    BY <2>2 DEF Apart, ReaderHolds
  <2>6. F # {} \/ Q # {} \/ W # {} \/ ReaderHolds(b)
    BY <2>2 DEF Somewhere
  <2> HIDE DEF F, Q, W
  <2>7. \E x : P = {x}
    <3>1. CASE F # {}
      <4>1. PICK s \in F : TRUE
        BY <3>1
      <4>2. F = {s} /\ Q = {} /\ W = {} /\ R = {}
        BY <2>3, <2>4, <2>5, <3>1, <4>1
      <4>3. P = {<<"free", s>>}
        BY <4>2
      <4> QED
        BY <4>3
    <3>2. CASE Q # {}
      <4>1. PICK s \in Q : TRUE
        BY <3>2
      <4>2. Q = {s} /\ F = {} /\ W = {} /\ R = {}
        BY <2>3, <2>4, <2>5, <3>2, <4>1
      <4>3. P = {<<"queue", s>>}
        BY <4>2
      <4> QED
        BY <4>3
    <3>3. CASE W # {}
      <4>1. PICK w \in W : TRUE
        BY <3>3
      <4>2. W = {w} /\ F = {} /\ Q = {} /\ R = {}
        BY <2>4, <3>3, <4>1
      <4>3. P = {<<"writer", w>>}
        BY <4>2
      <4> QED
        BY <4>3
    <3>4. CASE ReaderHolds(b)
      <4>1. W = {} /\ F = {} /\ Q = {} /\ R = {<<"reader", NULL>>}
        BY <2>4, <2>5, <3>4
      <4>2. P = {<<"reader", NULL>>}
        BY <4>1
      <4> QED
        BY <4>2
    <3> QED
      BY <2>6, <3>1, <3>2, <3>3, <3>4
  <2>8. Cardinality(P) = 1
    <3> HIDE DEF P
    <3> QED
      BY <2>7, FS_Singleton
  <2> QED
    BY <2>8 DEF F, Q, W
<1> QED
  BY <1>1, Always, PTL


-----------------------------------------------------------------------------
(* Refinement *)

LEMMA SuffixIs ==
  ASSUME NEW S, NEW s \in Seq(S), NEW k \in Nat, k <= Len(s)
  PROVE  /\ SubSeq(s, k + 1, Len(s)) \in Seq(S)
         /\ Len(SubSeq(s, k + 1, Len(s))) = Len(s) - k
         /\ \A i \in 1 .. Len(s) - k : SubSeq(s, k + 1, Len(s))[i] = s[k + i]
<1>1. Len(s) \in Nat /\ \A i \in k + 1 .. Len(s) : s[i] \in S
  BY LenProperties, ElementOfSeq
<1>2. PICK m \in Int : m = k + 1
  OBVIOUS
<1>3. PICK n \in Int : n = Len(s)
  BY <1>1
<1>4. \A i \in m .. n : s[i] \in S
  BY <1>1, <1>2, <1>3
<1>5. /\ SubSeq(s, m, n) \in Seq(S)
      /\ Len(SubSeq(s, m, n)) = IF m <= n THEN n - m + 1 ELSE 0
      /\ \A i \in 1 .. n - m + 1 : SubSeq(s, m, n)[i] = s[m + i - 1]
  BY <1>4, SubSeqProperties
<1>6. (IF m <= n THEN n - m + 1 ELSE 0) = n - k /\ n - m + 1 = n - k
  BY <1>1, <1>2, <1>3
<1>7. \A i \in 1 .. n - k : m + i - 1 = k + i
  BY <1>2
<1> QED
  BY <1>2, <1>3, <1>5, <1>6, <1>7

LEMMA SuffixGrows ==
  ASSUME NEW S, NEW s \in Seq(S), NEW x \in S, NEW k \in Nat, k <= Len(s)
  PROVE  SubSeq(Append(s, x), k + 1, Len(s) + 1) = Append(SubSeq(s, k + 1, Len(s)), x)
<1>1. PICK t \in Seq(S) : t = SubSeq(s, k + 1, Len(s))
  BY SuffixIs
<1>2. Len(t) = Len(s) - k /\ \A i \in 1 .. Len(s) - k : t[i] = s[k + i]
  BY <1>1, SuffixIs
<1>3. PICK a \in Seq(S) : a = Append(s, x)
  BY AppendProperties
<1>4. Len(s) \in Nat /\ Len(a) = Len(s) + 1 /\ a[Len(s) + 1] = x /\ \A i \in 1 .. Len(s) : a[i] = s[i]
  BY <1>3, AppendProperties, LenProperties
<1>12. k <= Len(a)
  BY <1>4
<1>5. PICK b \in Seq(S) : b = SubSeq(a, k + 1, Len(a))
  BY <1>12, SuffixIs
<1>6. Len(b) = Len(a) - k /\ \A i \in 1 .. Len(a) - k : b[i] = a[k + i]
  BY <1>5, <1>12, SuffixIs
<1>7. PICK c \in Seq(S) : c = Append(t, x)
  BY AppendProperties
<1>8. Len(c) = Len(t) + 1 /\ c[Len(t) + 1] = x /\ \A i \in 1 .. Len(t) : c[i] = t[i]
  BY <1>7, AppendProperties
<1>9. Len(b) = Len(c)
  BY <1>2, <1>4, <1>6, <1>8
<1>10. \A i \in 1 .. Len(b) : b[i] = c[i]
  <2>1. SUFFICES ASSUME NEW i \in 1 .. Len(b) PROVE b[i] = c[i]
    OBVIOUS
  <2>2. i \in 1 .. Len(a) - k /\ b[i] = a[k + i]
    BY <1>4, <1>6, <2>1
  <2>3. CASE i = Len(t) + 1
    BY <1>2, <1>4, <1>8, <2>2, <2>3
  <2>4. CASE i \in 1 .. Len(t)
    <3>1. k + i \in 1 .. Len(s)
      BY <1>2, <1>4, <2>4
    <3> QED
      BY <1>2, <1>4, <1>8, <2>2, <2>4, <3>1
  <2> QED
    BY <1>2, <1>4, <1>8, <1>9, <2>3, <2>4
<1>11. b = c
  BY <1>9, <1>10, SeqEqual
<1> QED
  BY <1>1, <1>3, <1>4, <1>5, <1>7, <1>11

LEMMA FifoStart ==
  ASSUME Init
  PROVE  Fifo!Init
<1>1. Len(received) = 0 /\ Len(written) = 0 /\ received = <<>>
  BY DEF Init
<1>2. SubSeq(written, 1, 0) = <<>>
  BY SubSeqEmpty
<1> QED
  BY <1>1, <1>2 DEF Fifo!Init

LEMMA FifoStep ==
  ASSUME IInv, Next
  PROVE  Fifo!Next \/ UNCHANGED Fifo!vars
<1> DEFINE f == SubSeq(written, Len(received) + 1, Len(written))
<1>1. /\ TypeOK /\ written \in Seq(Message) /\ received \in Seq(Message)
      /\ Len(written) \in Nat /\ Len(received) \in Nat /\ Len(received) <= Len(written)
  BY Spread, ClearedWritten DEF IInv, TypeOK
<1>2. CASE UNCHANGED <<written, received>>
  BY <1>2 DEF Fifo!vars
<1>3. ASSUME NEW w \in Writer, WritePos(w)
      PROVE  Fifo!Put
  <2>1. /\ written' = Append(written, <<w, sent[w] + 1>>) /\ received' = received
        /\ wpc[w] = "writepos"
    BY <1>3 DEF WritePos, At
  <2>2. <<w, sent[w] + 1>> \in Message
    BY <1>1, <2>1, QueueAssumption DEF IInv, Hands, WriterHand, Owning, TypeOK, Message
  <2>3. Len(f) < Depth
    <3>1. Len(f) = Len(written) - Len(received)
      BY <1>1, SuffixIs
    <3> QED
      BY <2>1, <3>1, Spread DEF Owning
  <2>4. f' = Append(f, <<w, sent[w] + 1>>)
    <3>1. Len(written') = Len(written) + 1
      BY <1>1, <2>1, <2>2, AppendProperties
    <3>2. SubSeq(Append(written, <<w, sent[w] + 1>>), Len(received) + 1, Len(written) + 1)
            = Append(f, <<w, sent[w] + 1>>)
      BY <1>1, <2>2, SuffixGrows
    <3> QED
      BY <2>1, <3>1, <3>2
  <2> QED
    BY <2>1, <2>2, <2>3, <2>4 DEF Fifo!Put
<1>4. CASE Use
  <2>1. /\ written' = written /\ received' = Append(received, content[rblock])
        /\ content[rblock] = written[Len(received) + 1]
    BY <1>4 DEF Use, IInv, Hands, ReaderHand
  <2>2. Len(received) + 1 \in DOMAIN written /\ Len(received) + 1 <= Len(written)
    BY <1>1, <1>4, NextMessage DEF Use, Reading, IInv
  <2>3. PICK m \in 1 .. Len(written) : m = Len(received) + 1
    BY <1>1, <2>2
  <2>4. PICK n \in m .. Len(written) : n = Len(written)
    BY <1>1, <2>3
  <2>5. Head(SubSeq(written, m, n)) = written[m] /\ Tail(SubSeq(written, m, n)) = SubSeq(written, m + 1, n)
    BY <1>1, HeadTailOfSubSeq
  <2>6. f # <<>>
    <3>1. Len(f) = Len(written) - Len(received)
      BY <1>1, SuffixIs
    <3>2. Len(<<>>) = 0 /\ Len(written) - Len(received) # 0
      BY <1>1, <2>2
    <3> HIDE DEF f
    <3> QED
      BY <3>1, <3>2, Zenon
  <2>7. Len(received') = Len(received) + 1
    <3>1. written[Len(received) + 1] \in Message
      BY <1>1, <2>2 DEF TypeOK
    <3> QED
      BY <1>1, <2>1, <3>1, AppendProperties
  <2>8. f' = Tail(f)
    BY <1>1, <2>1, <2>3, <2>4, <2>5, <2>7
  <2>9. Head(f) = content[rblock]
    BY <2>1, <2>3, <2>4, <2>5
  <2> QED
    BY <2>1, <2>6, <2>8, <2>9 DEF Fifo!Next, Fifo!Get
<1>5. CASE ~Use /\ ~\E w \in Writer : WritePos(w)
  <2>1. UNCHANGED <<written, received>>
    BY <1>5 DEF Next, WriterStep, AllocClaim, AllocFails, AllocPos, AllocTake, AllocClear, Fill,
                WriteSpin, WriteStore, WriteCount, WritePeek, WriteLower, WritePost,
                ReaderStep, ReadClaim, ReadFails, ReadPos, ReadTake, ReadClear, ReadRaise,
                ReadLower, ReadSleep, FreePos, FreeSpin, FreeStore, FreeCount, ghostVars
  <2> QED
    BY <1>2, <2>1
<1> QED
  BY <1>3, <1>4, <1>5 DEF Fifo!Next

\* The lock-free queue of message_queue.c implements a bounded FIFO, for any number
\* of writers, messages and slots and across the wrap-around of its counters: a
\* message is delivered whole, once, and in the order its writer took its slot.
THEOREM QueueIsFifo == Spec => ImplementsFifo
<1>1. Init => Fifo!Init
  BY FifoStart
<1>2. IInv /\ [Next]_vars => [Fifo!Next]_(Fifo!vars)
  <2>1. UNCHANGED vars => UNCHANGED Fifo!vars
    BY DEF vars, ghostVars, Fifo!vars
  <2> QED
    BY <2>1, FifoStep
<1> QED
  BY <1>1, <1>2, Always, PTL DEF Spec, ImplementsFifo, Fifo!Spec

=============================================================================
