------------------------------- MODULE MCPaths -------------------------------
(* Releases of one top-level entry each, or of two. *)
EXTENDS Paths, TLC

MCTops == [h \in Releases |-> {h}]

MCSeveral == [h \in Releases |-> {<<h, 1>>, <<h, 2>>}]

Interchangeable == Permutations(Releases) \cup Permutations(Categories) \cup Permutations(Roots)
=============================================================================
