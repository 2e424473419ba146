--------------------------- MODULE MessageChannel ---------------------------
(***************************************************************************)
(* What send_generic and recv_generic (framework/networking.cpp) promise   *)
(* to their callers: a connection carries whole messages, once and in      *)
(* order.  A send that gives up half-way tears the channel: the messages   *)
(* before it are still received, nothing is promised of what comes after.  *)
(***************************************************************************)
EXTENDS Integers, Sequences

CONSTANT Message

VARIABLES
  sent,      \* messages sent whole before the channel was torn
  received,  \* messages received, as far as they were sent whole before
  torn

vars == <<sent, received, torn>>

Init == sent = <<>> /\ received = <<>> /\ torn = FALSE

Send ==
  /\ ~torn
  /\ \E m \in Message : sent' = Append(sent, m)
  /\ UNCHANGED <<received, torn>>

Tear ==
  /\ torn' = TRUE
  /\ UNCHANGED <<sent, received>>

Receive ==
  /\ Len(received) < Len(sent)
  /\ received' = Append(received, sent[Len(received) + 1])
  /\ UNCHANGED <<sent, torn>>

Next == Send \/ Tear \/ Receive

Spec == Init /\ [][Next]_vars
=============================================================================
