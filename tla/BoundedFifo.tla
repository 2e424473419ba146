---------------------------- MODULE BoundedFifo ----------------------------
(***************************************************************************)
(* What the message queue of external/itc promises to the threads of a     *)
(* fragment: messages come out whole, once, in the order they went in, and *)
(* never more than Depth are in the queue.                                 *)
(***************************************************************************)
EXTENDS Integers, Sequences

CONSTANTS Message, Depth

VARIABLES
  fifo,     \* messages put and not yet got
  received  \* messages got, in order

vars == <<fifo, received>>

Init == fifo = <<>> /\ received = <<>>

Put ==
  /\ Len(fifo) < Depth
  /\ \E m \in Message : fifo' = Append(fifo, m)
  /\ UNCHANGED received

Get ==
  /\ fifo # <<>>
  /\ received' = Append(received, Head(fifo))
  /\ fifo' = Tail(fifo)

Next == Put \/ Get

Spec == Init /\ [][Next]_vars
=============================================================================
