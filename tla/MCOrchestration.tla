-------------------------- MODULE MCOrchestration --------------------------
(***************************************************************************)
(* Small instances of the test runs: the fragments are 1 .. N, so a        *)
(* topology is the tuple of the fragments' neighbour sets.                 *)
(***************************************************************************)
EXTENDS Orchestration

Pair == <<{2}, {1}>>

Line3 == <<{2}, {1, 3}, {2}>>
=============================================================================
