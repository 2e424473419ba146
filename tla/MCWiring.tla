----------------------------- MODULE MCWiring -----------------------------
(***************************************************************************)
(* The topologies of testing/common/graph.cpp, on the nodes 1 .. N.        *)
(***************************************************************************)
EXTENDS Wiring, SequencesExt

\* graph::add_edge
AddEdge(t, e) == [t EXCEPT ![e[1]] = Append(@, e[2]), ![e[2]] = Append(@, e[1])]

\* The edges of graph::generate_topology, in order.
Line(idxs) == [i \in 1 .. Len(idxs) - 1 |-> <<idxs[i], idxs[i + 1]>>]
Ring(idxs) == [i \in 1 .. Len(idxs) |-> <<idxs[i], idxs[1 + (i % Len(idxs))]>>]
Star(idxs) == [i \in 1 .. Len(idxs) - 1 |-> <<idxs[1], idxs[i + 1]>>]
FullMesh(idxs) ==
  LET pairs == SetToSortSeq({e \in (1 .. Len(idxs)) \X (1 .. Len(idxs)) : e[1] < e[2]},
                            LAMBDA d, e : d[1] < e[1] \/ (d[1] = e[1] /\ d[2] < e[2]))
  IN [i \in DOMAIN pairs |-> <<idxs[pairs[i][1]], idxs[pairs[i][2]]>>]

Generate(edges) == FoldLeft(AddEdge, [f \in Fragment |-> <<>>], edges)

Idxs == [i \in 1 .. N |-> i]

\* The fourth comes out of a list of nodes in another order.
Generated == {Generate(Line(Idxs)), Generate(Star(Idxs)), Generate(FullMesh(Idxs)),
              Generate(Ring(Reverse(Idxs)))}
=============================================================================
