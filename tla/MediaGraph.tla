------------------------------ MODULE MediaGraph ------------------------------
(***************************************************************************)
(* MediaGraph: the connection graph of a pipeline.  It refuses duplicates, *)
(* self edges and cycles, and orders its nodes with Kahn's algorithm.      *)
(* Node ids are numbers, ordered as std::map orders the strings.           *)
(***************************************************************************)
EXTENDS Naturals, Sequences, FiniteSets, SequencesExt, Relation

CONSTANT Node    \* node ids, a finite set of numbers

VARIABLE graph   \* nodes_ in insertion order, and the pairs in edges_

Edges == {e \in Node \X Node : e[1] # e[2]}
EmptyGraph == [nodes |-> <<>>, edges |-> {}]
Members(g) == ToSet(g.nodes)

------------------------------------------------------------------------------
Sinks(g, n)   == {e[2] : e \in {d \in g.edges : d[1] = n}}
InDegree(g, n) == Cardinality({e \in g.edges : e[2] = n})

Sources(g) == SelectSeq(g.nodes, LAMBDA n : InDegree(g, n) = 0)

\* After the decrement, the sinks with no source left join the ready queue
Released(degree, n) == degree[n] = 1

\* One turn of the algorithm's loop: output the front of the ready queue
Settle(g, s) ==
  LET current == Head(s.ready)
      freed   == {n \in Sinks(g, current) : Released(s.degree, n)}
  IN  [order  |-> Append(s.order, current),
       ready  |-> Tail(s.ready) \o SetToSortSeq(freed, <),
       degree |-> [n \in DOMAIN s.degree |->
                     IF n \in Sinks(g, current) THEN s.degree[n] - 1
                     ELSE s.degree[n]]]

\* topological_order, before the size of its result is compared with the graph
TopologicalOrder(g) ==
  LET Turn[k \in 0..Len(g.nodes)] ==
        IF k = 0
        THEN [order |-> <<>>, ready |-> Sources(g),
              degree |-> [n \in Members(g) |-> InDegree(g, n)]]
        ELSE IF Turn[k - 1].ready = <<>> THEN Turn[k - 1]
             ELSE Settle(g, Turn[k - 1])
  IN  Turn[Len(g.nodes)].order

\* Mutant: a cycle is noticed only when no node at all is free
Ordered_Partly(g) == TopologicalOrder(g) # <<>>
\* Every node was output, so there is no cycle
Ordered(g) == Len(TopologicalOrder(g)) = Len(g.nodes)

------------------------------------------------------------------------------
Init == graph = EmptyGraph

\* A call that is refused changes nothing
AddNode(n) ==
  /\ n \notin Members(graph)
  /\ graph' = [graph EXCEPT !.nodes = Append(@, n)]

\* The edge is inserted, and erased again when the order then fails
Connect(source, sink) ==
  /\ {source, sink} \subseteq Members(graph)
  /\ source # sink
  /\ <<source, sink>> \notin graph.edges
  /\ LET joined == [graph EXCEPT !.edges = @ \cup {<<source, sink>>}]
     IN  Ordered(joined) /\ graph' = joined

Next == \E n \in Node : AddNode(n) \/ \E m \in Node : Connect(n, m)

Spec == Init /\ [][Next]_graph

------------------------------------------------------------------------------
(***************************************************************************)
(* Properties.                                                             *)
(***************************************************************************)

\* A sequence lists the nodes of g once each, every source before its sinks.
IsTopologicalOrder(order, g) ==
  /\ Len(order) = Cardinality(Members(g)) /\ ToSet(order) = Members(g)
  /\ \A i, j \in DOMAIN order : <<order[i], order[j]>> \in g.edges => i < j

\* Whatever was added and connected, in any order, the nodes are listed once
\* and in topological order: a start never meets a graph it cannot order.
OrderSound(g) == IsTopologicalOrder(TopologicalOrder(g), g)

\* connect refuses an edge for its cycle exactly when the sink already reaches
\* the source: no order of connects talks it into a cycle or out of a DAG.
RefusesOnlyCycles(g) ==
  LET linked == [x, y \in Members(g) |-> <<x, y>> \in g.edges]
      reach  == TransitiveClosure(linked, Members(g))
  IN  \A x, y \in Members(g) :
        x # y => LET joined == [g EXCEPT !.edges = @ \cup {<<x, y>>}]
                 IN  Ordered(joined) <=> ~reach[y, x]
==============================================================================
