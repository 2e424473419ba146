----------------------------- MODULE MCFraming -----------------------------
(***************************************************************************)
(* The connections of the program: requests to the fragments, responses    *)
(* and captured packets to the orchestrator, Mixnet links.                 *)
(***************************************************************************)
EXTENDS Framing

Modes == {
  <<"timeout", "block", "fragment">>,
  <<"block", "timeout", "main">>,
  <<"block", "timeout", "pcap">>,
  <<"block", "once", "node">>}
=============================================================================
