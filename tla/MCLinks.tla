------------------------------ MODULE MCLinks ------------------------------
(***************************************************************************)
(* Two ports: one whose neighbour sends more than its socket holds while   *)
(* the node sends to it, and one that competes with it and with the user.  *)
(***************************************************************************)
EXTENDS Links

Uneven == <<3, 1>>
ToFirst == <<2, 0>>
=============================================================================
