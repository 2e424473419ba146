-------------------------- MODULE MCMessageQueue --------------------------
(***************************************************************************)
(* The pcap queue of a fragment: the node thread mirrors packets to it,    *)
(* the ctrl thread ends it with a sentinel.                                *)
(***************************************************************************)
EXTENDS MessageQueue

CONSTANTS node, ctrl
=============================================================================
