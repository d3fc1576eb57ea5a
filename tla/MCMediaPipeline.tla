--------------------------- MODULE MCMediaPipeline ---------------------------
(***************************************************************************)
(* MediaPipeline on the orders that MediaGraph computes.                   *)
(***************************************************************************)
EXTENDS MediaPipeline

ThreeNodes == 1..3

Graph == INSTANCE MediaGraph WITH Node <- Node, graph <- graph

KahnOrder == [g \in Graphs |-> Graph!TopologicalOrder(g)]

\* A bound: a hook throws only in pipelines of at most two nodes
ThrowBound == threw => Len(graph.nodes) <= 2

SoundGraphs == {g \in Graphs : Graph!OrderSound(g) /\ Graph!RefusesOnlyCycles(g)}

\* The pipeline's graph, in whatever state the pipeline is, takes only MediaGraph's
\* steps, and each graph a client builds is ordered and refuses the next edge
\* exactly when that edge would close a cycle.
GraphSound ==
  Graph!Init /\ [][graph' # graph => Graph!Next /\ graph' \in SoundGraphs]_graph
==============================================================================
