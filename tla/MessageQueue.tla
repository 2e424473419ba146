---------------------------- MODULE MessageQueue ----------------------------
(***************************************************************************)
(* The lock-free queue of external/itc/message_queue.c as the fragment     *)
(* uses it: several threads alloc and write, one thread (worker_pcap)      *)
(* reads and frees.  Every access to shared memory is a step of its own;   *)
(* __sync_fetch_and_add orders the plain ones around it.                   *)
(*                                                                         *)
(* Two rings of max_depth slots: freelist holds the blocks that may be     *)
(* allocated, queue_data the blocks that have been written.  A NULL slot   *)
(* is one whose owner has not stored to it yet: the next owner spins.      *)
(***************************************************************************)
EXTENDS Integers, Sequences, FiniteSets

CONSTANTS
  Writer,      \* threads that write
  Depth,       \* max_depth, a power of two
  Wrap,        \* 2^32, the range of an unsigned int: a multiple of Depth
  MaxMessages  \* bound on the messages of one writer

ASSUME QueueAssumption ==
  /\ Depth \in Nat \ {0}
  /\ Wrap \in Nat \ {0, 1}
  /\ Wrap % Depth = 0
  /\ MaxMessages \in Nat
  /\ IsFiniteSet(Writer)

NULL == 0
Block == 1 .. Depth
Slot == 0 .. Depth - 1

Message == Writer \X (1 .. MaxMessages)

VARIABLES
  freelist, free_blocks, allocpos, freepos,        \* queue->allocator
  queue_data, entries, readpos, writepos,          \* queue->queue
  blocked_readers, sem,
  content,  \* content[b]: what the writer stored in block b
  wpc,      \* where each writer is
  wpos,     \* its local pos
  wblock,   \* its block
  sent,     \* messages it has written
  rpc,      \* where the reader is
  rpos,
  rblock,
  raised,   \* the reader has raised blocked_readers in the call under way
  written,  \* messages in the order of their slots, a ghost
  received  \* messages the reader got, in order

allocVars  == <<freelist, free_blocks, allocpos, freepos>>
queueVars  == <<queue_data, entries, readpos, writepos>>
wakeVars   == <<blocked_readers, sem>>
writerVars == <<wpc, wpos, wblock, sent>>
readerVars == <<rpc, rpos, rblock, raised>>
ghostVars  == <<written, received>>
vars == <<allocVars, queueVars, wakeVars, content, writerVars, readerVars, ghostVars>>

\* Unsigned arithmetic: blocked_readers does drop below zero.
Succ(x) == (x + 1) % Wrap

\* Mutant: a signed counter.
PredSigned(x) == x - 1

Pred(x) == (x - 1) % Wrap

\* message_queue_init
Init ==
  /\ freelist = [s \in Slot |-> s + 1]
  /\ free_blocks = Depth
  /\ allocpos = 0 /\ freepos = 0
  /\ queue_data = [s \in Slot |-> NULL]
  /\ entries = 0
  /\ readpos = 0 /\ writepos = 0
  /\ blocked_readers = 0
  /\ sem = 0
  /\ content = [b \in Block |-> <<>>]
  /\ wpc = [w \in Writer |-> "alloc"]
  /\ wpos = [w \in Writer |-> 0]
  /\ wblock = [w \in Writer |-> NULL]
  /\ sent = [w \in Writer |-> 0]
  /\ rpc = "try"
  /\ rpos = 0
  /\ rblock = NULL
  /\ raised = FALSE
  /\ written = <<>>
  /\ received = <<>>

-----------------------------------------------------------------------------
(* Writers *)

At(w, here) == wpc[w] = here
Goto(w, there) == wpc' = [wpc EXCEPT ![w] = there]

\* message_queue_message_alloc
AllocClaim(w) ==
  /\ At(w, "alloc")
  /\ sent[w] < MaxMessages
  /\ free_blocks' = free_blocks - 1
  /\ Goto(w, IF free_blocks > 0 THEN "allocpos" ELSE "full")
  /\ UNCHANGED <<freelist, allocpos, freepos, queueVars, wakeVars, content, wpos, wblock, sent,
                 readerVars, ghostVars>>

\* Returns NULL; the caller may try again.
AllocFails(w) ==
  /\ At(w, "full")
  /\ free_blocks' = free_blocks + 1
  /\ Goto(w, "alloc")
  /\ UNCHANGED <<freelist, allocpos, freepos, queueVars, wakeVars, content, wpos, wblock, sent,
                 readerVars, ghostVars>>

\* Mutant: allocpos is read and not advanced.
AllocPosStuck(w) ==
  /\ At(w, "allocpos")
  /\ wpos' = [wpos EXCEPT ![w] = allocpos % Depth]
  /\ Goto(w, "take")
  /\ UNCHANGED <<allocVars, queueVars, wakeVars, content, wblock, sent, readerVars, ghostVars>>

AllocPos(w) ==
  /\ At(w, "allocpos")
  /\ wpos' = [wpos EXCEPT ![w] = allocpos % Depth]
  /\ allocpos' = Succ(allocpos)
  /\ Goto(w, "take")
  /\ UNCHANGED <<freelist, free_blocks, freepos, queueVars, wakeVars, content, wblock, sent,
                 readerVars, ghostVars>>

\* Spins until the slot holds a block.
AllocTake(w) ==
  /\ At(w, "take")
  /\ freelist[wpos[w]] # NULL
  /\ wblock' = [wblock EXCEPT ![w] = freelist[wpos[w]]]
  /\ Goto(w, "clear")
  /\ UNCHANGED <<allocVars, queueVars, wakeVars, content, wpos, sent, readerVars, ghostVars>>

AllocClear(w) ==
  /\ At(w, "clear")
  /\ freelist' = [freelist EXCEPT ![wpos[w]] = NULL]
  /\ Goto(w, "fill")
  /\ UNCHANGED <<free_blocks, allocpos, freepos, queueVars, wakeVars, content, wpos, wblock, sent,
                 readerVars, ghostVars>>

\* The caller fills the block: *ptr = packet.
Fill(w) ==
  /\ At(w, "fill")
  /\ content' = [content EXCEPT ![wblock[w]] = <<w, sent[w] + 1>>]
  /\ Goto(w, "writepos")
  /\ UNCHANGED <<allocVars, queueVars, wakeVars, wpos, wblock, sent, readerVars, ghostVars>>

\* Mutant: the block is stored to the slot it was allocated from.
WritePosReused(w) ==
  /\ At(w, "writepos")
  /\ writepos' = Succ(writepos)
  /\ written' = Append(written, <<w, sent[w] + 1>>)
  /\ sent' = [sent EXCEPT ![w] = @ + 1]
  /\ Goto(w, "spin")
  /\ UNCHANGED <<allocVars, queue_data, entries, readpos, wakeVars, content, wpos, wblock,
                 readerVars, received>>

\* message_queue_write
WritePos(w) ==
  /\ At(w, "writepos")
  /\ wpos' = [wpos EXCEPT ![w] = writepos % Depth]
  /\ writepos' = Succ(writepos)
  /\ written' = Append(written, <<w, sent[w] + 1>>)
  /\ sent' = [sent EXCEPT ![w] = @ + 1]
  /\ Goto(w, "spin")
  /\ UNCHANGED <<allocVars, queue_data, entries, readpos, wakeVars, content, wblock, readerVars,
                 received>>

\* Spins until the slot is free.
WriteSpin(w) ==
  /\ At(w, "spin")
  /\ queue_data[wpos[w]] = NULL
  /\ Goto(w, "store")
  /\ UNCHANGED <<allocVars, queueVars, wakeVars, content, wpos, wblock, sent, readerVars,
                 ghostVars>>

WriteStore(w) ==
  /\ At(w, "store")
  /\ queue_data' = [queue_data EXCEPT ![wpos[w]] = wblock[w]]
  /\ wblock' = [wblock EXCEPT ![w] = NULL]
  /\ Goto(w, "count")
  /\ UNCHANGED <<allocVars, entries, readpos, writepos, wakeVars, content, wpos, sent, readerVars,
                 ghostVars>>

\* Mutant: the message is not counted.
WriteUncounted(w) ==
  /\ At(w, "count")
  /\ Goto(w, "peek")
  /\ UNCHANGED <<allocVars, queueVars, wakeVars, content, wpos, wblock, sent, readerVars,
                 ghostVars>>

WriteCount(w) ==
  /\ At(w, "count")
  /\ entries' = entries + 1
  /\ Goto(w, "peek")
  /\ UNCHANGED <<allocVars, queue_data, readpos, writepos, wakeVars, content, wpos, wblock, sent,
                 readerVars, ghostVars>>

\* Is a reader asleep, or about to be?
WritePeek(w) ==
  /\ At(w, "peek")
  /\ Goto(w, IF blocked_readers # 0 THEN "lower" ELSE "alloc")
  /\ UNCHANGED <<allocVars, queueVars, wakeVars, content, wpos, wblock, sent, readerVars,
                 ghostVars>>

WriteLower(w) ==
  /\ At(w, "lower")
  /\ blocked_readers' = Pred(blocked_readers)
  /\ Goto(w, "post")
  /\ UNCHANGED <<allocVars, queueVars, sem, content, wpos, wblock, sent, readerVars, ghostVars>>

WritePost(w) ==
  /\ At(w, "post")
  /\ sem' = sem + 1
  /\ Goto(w, "alloc")
  /\ UNCHANGED <<allocVars, queueVars, blocked_readers, content, wpos, wblock, sent, readerVars,
                 ghostVars>>

WriterStep(w) ==
  \/ AllocClaim(w)
  \/ AllocFails(w)
  \/ AllocPos(w)
  \/ AllocTake(w)
  \/ AllocClear(w)
  \/ Fill(w)
  \/ WritePos(w)
  \/ WriteSpin(w)
  \/ WriteStore(w)
  \/ WriteCount(w)
  \/ WritePeek(w)
  \/ WriteLower(w)
  \/ WritePost(w)

-----------------------------------------------------------------------------
(* The reader *)

\* message_queue_tryread
ReadClaim ==
  /\ rpc = "try"
  /\ entries' = entries - 1
  /\ rpc' = IF entries > 0 THEN "readpos" ELSE "empty"
  /\ UNCHANGED <<allocVars, queue_data, readpos, writepos, wakeVars, content, writerVars, rpos,
                 rblock, raised, ghostVars>>

\* Returns NULL.  message_queue_read announces itself and tries again, and then
\* sleeps.
ReadFails ==
  /\ rpc = "empty"
  /\ entries' = entries + 1
  /\ rpc' = IF raised THEN "sleep" ELSE "raise"
  /\ UNCHANGED <<allocVars, queue_data, readpos, writepos, wakeVars, content, writerVars, rpos,
                 rblock, raised, ghostVars>>

ReadPos ==
  /\ rpc = "readpos"
  /\ rpos' = readpos % Depth
  /\ readpos' = Succ(readpos)
  /\ rpc' = "take"
  /\ UNCHANGED <<allocVars, queue_data, entries, writepos, wakeVars, content, writerVars, rblock,
                 raised, ghostVars>>

\* Spins until the writer of the slot has stored its block.
ReadTake ==
  /\ rpc = "take"
  /\ queue_data[rpos] # NULL
  /\ rblock' = queue_data[rpos]
  /\ rpc' = "clear"
  /\ UNCHANGED <<allocVars, queueVars, wakeVars, content, writerVars, rpos, raised, ghostVars>>

ReadClear ==
  /\ rpc = "clear"
  /\ queue_data' = [queue_data EXCEPT ![rpos] = NULL]
  /\ rpc' = IF raised THEN "lower" ELSE "use"
  /\ UNCHANGED <<allocVars, entries, readpos, writepos, wakeVars, content, writerVars, rpos,
                 rblock, raised, ghostVars>>

\* Mutant: the reader sleeps without trying again.
ReadRaiseSleep ==
  /\ rpc = "raise"
  /\ blocked_readers' = Succ(blocked_readers)
  /\ raised' = TRUE
  /\ rpc' = "sleep"
  /\ UNCHANGED <<allocVars, queueVars, sem, content, writerVars, rpos, rblock, ghostVars>>

\* message_queue_read
ReadRaise ==
  /\ rpc = "raise"
  /\ blocked_readers' = Succ(blocked_readers)
  /\ raised' = TRUE
  /\ rpc' = "try"
  /\ UNCHANGED <<allocVars, queueVars, sem, content, writerVars, rpos, rblock, ghostVars>>

ReadLower ==
  /\ rpc = "lower"
  /\ blocked_readers' = Pred(blocked_readers)
  /\ raised' = FALSE
  /\ rpc' = "use"
  /\ UNCHANGED <<allocVars, queueVars, sem, content, writerVars, rpos, rblock, ghostVars>>

ReadSleep ==
  /\ rpc = "sleep"
  /\ sem > 0
  /\ sem' = sem - 1
  /\ raised' = FALSE
  /\ rpc' = "try"
  /\ UNCHANGED <<allocVars, queueVars, blocked_readers, content, writerVars, rpos, rblock,
                 ghostVars>>

\* The caller reads the block: packet = *ptr.
Use ==
  /\ rpc = "use"
  /\ received' = Append(received, content[rblock])
  /\ rpc' = "freepos"
  /\ UNCHANGED <<allocVars, queueVars, wakeVars, content, writerVars, rpos, rblock, raised,
                 written>>

\* message_queue_message_free
FreePos ==
  /\ rpc = "freepos"
  /\ rpos' = freepos % Depth
  /\ freepos' = Succ(freepos)
  /\ rpc' = "spin"
  /\ UNCHANGED <<freelist, free_blocks, allocpos, queueVars, wakeVars, content, writerVars,
                 rblock, raised, ghostVars>>

\* Spins until the slot's block has been taken.
FreeSpin ==
  /\ rpc = "spin"
  /\ freelist[rpos] = NULL
  /\ rpc' = "store"
  /\ UNCHANGED <<allocVars, queueVars, wakeVars, content, writerVars, rpos, rblock, raised,
                 ghostVars>>

FreeStore ==
  /\ rpc = "store"
  /\ freelist' = [freelist EXCEPT ![rpos] = rblock]
  /\ rblock' = NULL
  /\ rpc' = "count"
  /\ UNCHANGED <<free_blocks, allocpos, freepos, queueVars, wakeVars, content, writerVars, rpos,
                 raised, ghostVars>>

\* allocator.blocked_readers is always zero: nobody calls the blocking alloc.
FreeCount ==
  /\ rpc = "count"
  /\ free_blocks' = free_blocks + 1
  /\ rpc' = "try"
  /\ UNCHANGED <<freelist, allocpos, freepos, queueVars, wakeVars, content, writerVars, rpos,
                 rblock, raised, ghostVars>>

ReaderStep ==
  \/ ReadClaim
  \/ ReadFails
  \/ ReadPos
  \/ ReadTake
  \/ ReadClear
  \/ ReadRaise
  \/ ReadLower
  \/ ReadSleep
  \/ Use
  \/ FreePos
  \/ FreeSpin
  \/ FreeStore
  \/ FreeCount

-----------------------------------------------------------------------------
Next == (\E w \in Writer : WriterStep(w)) \/ ReaderStep

Spec == Init /\ [][Next]_vars

\* Every thread is scheduled.
FairSpec == Spec /\ (\A w \in Writer : WF_vars(WriterStep(w))) /\ WF_vars(ReaderStep)

-----------------------------------------------------------------------------
(* Properties *)

TypeOK ==
  /\ freelist \in [Slot -> Block \cup {NULL}]
  /\ queue_data \in [Slot -> Block \cup {NULL}]
  /\ free_blocks \in Int /\ entries \in Int
  /\ {allocpos, freepos, readpos, writepos, blocked_readers} \subseteq 0 .. Wrap - 1
  /\ sem \in Nat
  /\ content \in [Block -> Message \cup {<<>>}]
  /\ wpc \in [Writer -> {"alloc", "full", "allocpos", "take", "clear", "fill", "writepos", "spin",
                         "store", "count", "peek", "lower", "post"}]
  /\ wpos \in [Writer -> Slot]
  /\ wblock \in [Writer -> Block \cup {NULL}]
  /\ sent \in [Writer -> 0 .. MaxMessages]
  /\ rpc \in {"try", "empty", "readpos", "take", "clear", "raise", "lower", "sleep", "use",
              "freepos", "spin", "store", "count"}
  /\ rpos \in Slot
  /\ rblock \in Block \cup {NULL}
  /\ raised \in BOOLEAN
  /\ written \in Seq(Message) /\ received \in Seq(Message)

\* The bounded FIFO the queue stands for: its messages are those that have a
\* slot and have not been handed to the reader.
Fifo == INSTANCE BoundedFifo WITH fifo <- SubSeq(written, Len(received) + 1, Len(written))

\* The queue is a bounded FIFO: the contents of a block are never overwritten
\* before they are read, no slot is stored to twice, and threads that overtake
\* each other between taking a slot and storing to it do not change the order.
ImplementsFifo == Fifo!Spec

\* A block in a thread's hand: taken off its slot, or stored to no slot yet.
Holds(w, b) == wblock[w] = b /\ ~At(w, "clear")

ReaderHolds(b) == rblock = b /\ rpc # "clear"

\* Every block is in exactly one place: a slot of the free list, a slot of the
\* queue, the hand of one writer or the reader's.  None is lost, none is given
\* out twice.
OnePlacePerBlock ==
  \A b \in Block :
    Cardinality({<<"free", s>> : s \in {t \in Slot : freelist[t] = b}}
          \cup {<<"queue", s>> : s \in {t \in Slot : queue_data[t] = b}}
          \cup {<<"writer", w>> : w \in {v \in Writer : Holds(v, b)}}
          \cup (IF ReaderHolds(b) THEN {<<"reader", NULL>>} ELSE {})) = 1

\* A reader that is going to sleep although a message is counted will be woken:
\* some writer has still to look at blocked_readers, and will find it raised, or
\* is about to post.
NoLostWakeup ==
  rpc = "sleep" /\ sem = 0 /\ entries > 0 =>
    \E w \in Writer : wpc[w] \in {"lower", "post"} \/ (At(w, "peek") /\ blocked_readers # 0)

\* Every message written is read in the end, however the reader's decisions to
\* sleep and the writers' to wake it interleave.
AllRead ==
  \A k \in 1 .. MaxMessages * Cardinality(Writer) : Len(written) >= k ~> Len(received) >= k
=============================================================================
