------------------------------- MODULE MCStp -------------------------------
(***************************************************************************)
(* Small instances of the topologies the test cases build.  The nodes are  *)
(* 1 .. N, so a graph is the tuple of the nodes' neighbour sets.           *)
(***************************************************************************)
EXTENDS Stp

\* 1 - 2 - 3
Line3 == <<{2}, {1, 3}, {2}>>

\* 1 - 2 - 3 - 1
Ring3 == <<{2, 3}, {1, 3}, {1, 2}>>

\* 1 - 2 - 4 - 3 - 1: node 4 has two shortest paths to the root
Ring4 == <<{2, 3}, {1, 4}, {1, 4}, {2, 3}>>

\* The distance in hops on a graph of diameter at most 3.
HopDistance ==
  [n \in Node |-> [m \in Node |->
     IF n = m THEN 0
     ELSE IF m \in Neighbor[n] THEN 1
     ELSE IF Neighbor[n] \cap Neighbor[m] # {} THEN 2
     ELSE 3]]
=============================================================================
