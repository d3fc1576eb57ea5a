------------------------ MODULE MediaPipelineProofs ------------------------
(***************************************************************************)
(* Proofs about MediaPipeline, for any finite set of nodes, any graphs     *)
(* over them and any topological orders that MediaGraph may return.        *)
(***************************************************************************)
EXTENDS MediaPipeline, FiniteSetTheorems, SequenceTheorems, TLAPS

------------------------------------------------------------------------------
(***************************************************************************)
(* The graph: orders, and what AddNode and Connect leave of it.            *)
(***************************************************************************)

\* What the assumption says of a graph's order.
LEMMA OrderFacts ==
  ASSUME NEW g \in Graphs, Ordered(g)
  PROVE  /\ OrderOf[g] \in Seq(Node) /\ Len(OrderOf[g]) = Len(g.nodes)
         /\ Range(OrderOf[g]) = Range(g.nodes)
         /\ \A a, b \in 1..Len(OrderOf[g]) : OrderOf[g][a] = OrderOf[g][b] => a = b
  <1>1. OrderOf[g] \in Seq(Node)
    BY OrderAssumption
  <1>2. Range(OrderOf[g]) = Range(g.nodes) /\ IsInjective(OrderOf[g])
    BY OrderAssumption, Zenon
  <1> QED
    BY <1>1, <1>2 DEF Ordered, IsInjective

\* A list of nodes names each once.
LEMMA NodeListFacts ==
  ASSUME NEW s \in NodeLists
  PROVE  /\ s \in Seq(Node) /\ Range(s) \subseteq Node
         /\ \A a, b \in 1..Len(s) : s[a] = s[b] => a = b
  <1>1. PICK k \in 0..Cardinality(Node) : s \in Injection(1..k, Node)
    BY DEF NodeLists
  <1>2. k \in Nat
    BY FS_CardinalityType, NodeAssumption
  <1>3. s \in [1..k -> Node] /\ IsInjective(s)
    BY <1>1 DEF Injection
  <1>4. s \in Seq(Node) /\ Len(s) = k
    BY <1>2, <1>3
  <1> QED
    BY <1>3, <1>4 DEF IsInjective, Range

\* A list without repetitions is at most as long as there are nodes.
LEMMA LongerList ==
  ASSUME NEW s \in NodeLists, NEW n \in Node \ Range(s)
  PROVE  Append(s, n) \in NodeLists
  <1> DEFINE t == Append(s, n)
             m == Len(s) + 1
  <1>1. s \in Seq(Node) /\ \A a, b \in 1..Len(s) : s[a] = s[b] => a = b
    BY NodeListFacts
  <1>2. /\ m \in Nat /\ t \in [1..m -> Node]
        /\ \A k \in 1..Len(s) : t[k] = s[k]
        /\ t[m] = n
    <2>1. t \in Seq(Node) /\ Len(t) = m
      BY <1>1, AppendProperties
    <2>2. m \in Nat
      BY <1>1, LenProperties
    <2>3. t \in [1..m -> Node]
      <3>1. t \in [1..Len(t) -> Node]
        BY <2>1, LenProperties
      <3> QED
        BY <2>1, <3>1
    <2>4. (\A k \in 1..Len(s) : t[k] = s[k]) /\ t[m] = n
      BY <1>1, AppendProperties
    <2> QED
      BY <2>2, <2>3, <2>4
  <1>3. \A a, b \in 1..m : t[a] = t[b] => a = b
    <2>1. \A a \in 1..Len(s) : t[a] = s[a] /\ t[a] # n
      BY <1>1, <1>2 DEF Range
    <2>2. \A a, b \in 1..Len(s) : t[a] = t[b] => a = b
      BY <1>1, <2>1
    <2>3. \A a \in 1..m : a \in 1..Len(s) \/ a = m
      BY <1>1
    <2> SUFFICES ASSUME NEW a \in 1..m, NEW b \in 1..m, t[a] = t[b] PROVE a = b
      OBVIOUS
    <2>4. CASE a = m \/ b = m
      BY <1>2, <2>1, <2>3, <2>4, Zenon
    <2>5. CASE a \in 1..Len(s) /\ b \in 1..Len(s)
      BY <2>2, <2>5, Zenon
    <2> QED
      BY <2>3, <2>4, <2>5, Zenon
  <1>4. t \in Injection(1..m, Node)
    <2> HIDE DEF t, m
    <2> QED
      BY <1>2, <1>3, Zenon DEF Injection, IsInjective
  <1>5. Cardinality(1..m) <= Cardinality(Node)
    BY <1>4, FS_Injection, NodeAssumption
  <1>6. Cardinality(1..m) = m
    BY <1>2, FS_Interval
  <1>7. Cardinality(Node) \in Nat
    BY FS_CardinalityType, NodeAssumption
  <1>8. m \in 0..Cardinality(Node)
    BY <1>2, <1>5, <1>6, <1>7
  <1> QED
    BY <1>4, <1>8 DEF NodeLists

\* A node that is added leaves the graph ordered.
LEMMA AddedNode ==
  ASSUME graph \in Graphs, Ordered(graph), NEW n \in Node, AddNode(n)
  PROVE  /\ graph' \in Graphs /\ Ordered(graph')
         /\ Range(graph'.nodes) = Range(graph.nodes) \cup {n}
  <1>1. graph' = [graph EXCEPT !.nodes = Append(@, n)] /\ n \notin Range(graph.nodes)
    BY DEF AddNode
  <1>2. graph.nodes \in NodeLists
    BY DEF Graphs
  <1> graph.nodes \in Seq(Node)
    BY <1>2, NodeListFacts
  <1>3. graph'.nodes = Append(graph.nodes, n) /\ graph'.edges = graph.edges
    BY <1>1 DEF Graphs
  <1>4. graph'.nodes \in NodeLists
    BY <1>1, <1>2, <1>3, LongerList
  <1>5. Range(graph'.nodes) = Range(graph.nodes) \cup {n}
    <2>1. \A k \in 1..Len(graph.nodes) : graph'.nodes[k] = graph.nodes[k]
      BY <1>2, <1>3
    <2>2. graph'.nodes[Len(graph.nodes) + 1] = n
      BY <1>2, <1>3
    <2>3. DOMAIN graph'.nodes = 1..(Len(graph.nodes) + 1)
      BY <1>2, <1>3
    <2> QED
      BY <1>2, <2>1, <2>2, <2>3, SMTT(60) DEF Range
  <1>6. graph' \in Graphs
    BY <1>1, <1>3, <1>4, <1>5, ZenonT(60) DEF Graphs
  <1>7. Ordered(graph')
    BY <1>3, <1>6, OrderAssumption
  <1> QED
    BY <1>5, <1>6, <1>7

\* A connection that is accepted leaves the graph ordered.
LEMMA Connected ==
  ASSUME graph \in Graphs, NEW s \in Node, NEW t \in Node, Connect(s, t)
  PROVE  graph' \in Graphs /\ Ordered(graph') /\ graph'.nodes = graph.nodes
  <1>1. /\ graph' = [graph EXCEPT !.edges = @ \cup {<<s, t>>}] /\ Ordered(graph')
        /\ {s, t} \subseteq Range(graph.nodes) /\ s # t
    BY DEF Connect, Accepted
  <1>2. <<s, t>> \in Edges
    BY <1>1 DEF Edges
  <1>3. graph'.nodes = graph.nodes /\ graph'.edges = graph.edges \cup {<<s, t>>}
    BY <1>1 DEF Graphs
  <1>4. graph' \in Graphs
    BY <1>1, <1>2, <1>3 DEF Graphs
  <1> QED
    BY <1>1, <1>3, <1>4

------------------------------------------------------------------------------
(***************************************************************************)
(* Type correctness, with the positions of the loops.                      *)
(***************************************************************************)

\* Where each loop can run: a start in a pipeline at rest, a drain in one that
\* drains, a tick in one that runs; and a running, draining or starting pipeline
\* has a drain order, the graph's.
Control ==
  /\ state \in {"Running", "Draining"} \/ pc \in {"prepare", "start"} =>
        drain_order = OrderOf[graph] /\ Size > 0
  /\ pc \in {"prepare", "start", "rollback"} => state \in {"Created", "Stopped"}
  /\ pc \in {"drain", "downstream"} => state = "Draining"
  /\ pc = "tick" => state = "Running"

\* At the beginning, types and control are right.
LEMMA ControlInit ==
  ASSUME Init PROVE TypeOK /\ Control
  <1>1. graph \in Graphs /\ Ordered(graph)
    <2>1. <<>> \in NodeLists
      <3>1. <<>> \in Injection(1..0, Node)
        BY DEF Injection, IsInjective
      <3>2. 0 \in 0..Cardinality(Node)
        BY FS_CardinalityType, NodeAssumption
      <3> QED
        BY <3>1, <3>2 DEF NodeLists
    <2>2. graph \in Graphs /\ graph.edges = {}
      BY <2>1 DEF Init, Graphs
    <2> QED
      BY <2>2, OrderAssumption
  <1>2. failure \in BOOLEAN /\ dying \in BOOLEAN /\ threw \in BOOLEAN
    BY Zenon DEF Init
  <1> QED
    BY <1>1, <1>2 DEF Init, TypeOK, Control, Size, ResetList, NodeState, PipelineState,
       Phase, ResetPhase, Calls, Results

\* Whatever a hook does, the node is in one of its states.
LEMMA OutcomeTypes ==
  ASSUME NEW s \in NodeState
  PROVE  /\ \A o \in Prepare(s) \cup Start(s) \cup Stop(s) \cup Reset(s)
                      \cup CaughtReset(s) \cup Tick(s) : 
              o.state \in NodeState /\ o.status \in {"ok", "blocked", "failed"}
         /\ \A p \in Phase : Thrown(p, s) \subseteq NodeState
  BY DEF Prepare, Start, Stop, Reset, CaughtReset, Tick, Thrown, Done, Blocked,
     Failed, NodeState

\* The flags, apart from the rest: the provers take Booleans badly.
LEMMA FlagsTyped ==
  ASSUME TypeOK, Next
  PROVE  failure' \in BOOLEAN /\ dying' \in BOOLEAN /\ threw' \in BOOLEAN
<1> USE DEF TypeOK, Returns, Enters, graphVars, callVars
<1>1. CASE Client
  <2>1. CASE \E n \in Node : AddNode(n)
    BY <2>1, Zenon DEF AddNode
  <2>2. CASE \E n, m \in Node : Connect(n, m)
    BY <2>2, Zenon DEF Connect
  <2>3. CASE StartCalled
    BY <2>3, Zenon DEF StartCalled
  <2>4. CASE StopCalled
    BY <2>4, Zenon DEF StopCalled, StopBegins
  <2>5. CASE CancelCalled
    BY <2>5, Zenon DEF CancelCalled, CancelBegins
  <2>6. CASE TickCalled
    BY <2>6, Zenon DEF TickCalled
  <2>7. CASE DestroyCalled
    BY <2>7, Zenon DEF DestroyCalled, StopBegins
  <2> QED
    BY <1>1, <2>1, <2>2, <2>3, <2>4, <2>5, <2>6, <2>7, Zenon DEF Client
<1>2. CASE Inside
  <2>1. CASE PrepareNode
    BY <2>1, Zenon DEF PrepareNode, FailStart
  <2>2. CASE StartNode
    BY <2>2, Zenon DEF StartNode, FailStart
  <2>3. CASE RollbackNode \/ RolledBack
    BY <2>3, Zenon DEF RollbackNode, RolledBack
  <2>4. CASE StopNode
    <3>1. PICK o \in Stop(node[drain_order[drain_index + 1]]) :
             CASE o.status = "ok" -> Enters("drain", 0)
               [] o.status = "blocked" -> Enters("downstream", drain_index + 2)
               [] o.status = "failed" -> Enters("fail", Size)
      BY <2>4, Zenon DEF StopNode
    <3>2. o.status \in {"ok", "blocked", "failed"}
      BY DEF Stop, Done, Blocked, Failed
    <3> QED
      BY <2>4, <3>1, <3>2, Zenon DEF StopNode
  <2>5. CASE Drained \/ TickDownstream \/ StopBlocked
    BY <2>5, Zenon DEF Drained, TickDownstream, StopBlocked
  <2>6. CASE ResetNode
    BY <2>6, Zenon DEF ResetNode, Recorded
  <2>7. CASE ResetEnds
    BY <2>7, Zenon DEF ResetEnds
  <2>8. CASE DestroyCancels
    BY <2>8, Zenon DEF DestroyCancels, CancelBegins
  <2>9. CASE TickNode
    BY <2>9, Zenon DEF TickNode
  <2>10. CASE HookThrows
    BY <2>10, Zenon DEF HookThrows
  <2> QED
    BY <1>2, <2>1, <2>2, <2>3, <2>4, <2>5, <2>6, <2>7, <2>8, <2>9, <2>10, Zenon DEF Inside
<1> QED
  BY <1>1, <1>2, Zenon DEF Next

\* A call that begins keeps types and control.
LEMMA ControlClient ==
  ASSUME TypeOK, Control, Client
  PROVE  TypeOK' /\ Control'
<1> USE DEF TypeOK, Control, graphVars, pipeVars, callVars, Size, ResetList
<1>0. failure' \in BOOLEAN /\ dying' \in BOOLEAN /\ threw' \in BOOLEAN
  BY FlagsTyped DEF Next
<1>1. CASE \E n \in Node : AddNode(n)
  BY <1>0, <1>1, AddedNode DEF AddNode, Idle, Modifiable, ResetPhase
<1>2. CASE \E n, m \in Node : Connect(n, m)
  BY <1>0, <1>2, Connected DEF Connect, Idle, Modifiable, ResetPhase
<1>3. OrderOf[graph] \in Seq(Node) /\ Len(OrderOf[graph]) = Len(graph.nodes)
  BY OrderFacts
<1>4. graph.nodes \in Seq(Node)
  BY NodeListFacts DEF Graphs
<1>5. CASE StartCalled
  BY <1>0, <1>3, <1>4, <1>5 DEF StartCalled, Idle, Enters, Returns, Calls, Results, Phase,
     ResetPhase, PipelineState
<1>6. CASE StopCalled
  BY <1>0, <1>3, <1>4, <1>6 DEF StopCalled, StopBegins, Idle, Enters, Returns, Calls, Results,
     Phase, ResetPhase, PipelineState
<1>7. CASE CancelCalled
  BY <1>0, <1>3, <1>4, <1>7 DEF CancelCalled, CancelBegins, Idle, Enters, Returns, Calls,
     Results, Phase, ResetPhase, PipelineState
<1>8. CASE TickCalled
  BY <1>0, <1>3, <1>4, <1>8 DEF TickCalled, Idle, Enters, Returns, Calls, Results, Phase,
     ResetPhase, PipelineState
<1>9. CASE DestroyCalled
  BY <1>0, <1>3, <1>4, <1>9 DEF DestroyCalled, StopBegins, Idle, Enters, Returns, Calls,
     Results, Phase, ResetPhase, PipelineState
<1> QED
  BY <1>1, <1>2, <1>5, <1>6, <1>7, <1>8, <1>9 DEF Client

\* A step of a call keeps types and control.
LEMMA ControlInside ==
  ASSUME TypeOK, Control, Inside
  PROVE  TypeOK' /\ Control'
<1> USE DEF TypeOK, Control, graphVars, pipeVars, callVars, Size, ResetList, Enters,
        Returns, Calls, Results, Phase, ResetPhase, PipelineState
<1>0. failure' \in BOOLEAN /\ dying' \in BOOLEAN /\ threw' \in BOOLEAN
  BY FlagsTyped DEF Next
<1>1. OrderOf[graph] \in Seq(Node) /\ Len(OrderOf[graph]) = Len(graph.nodes)
  BY OrderFacts
<1>2. graph.nodes \in Seq(Node)
  BY NodeListFacts DEF Graphs
<1>3. CASE PrepareNode
  BY <1>0, <1>1, <1>2, <1>3, OutcomeTypes DEF PrepareNode, FailStart
<1>4. CASE StartNode
  BY <1>0, <1>1, <1>2, <1>4, OutcomeTypes DEF StartNode, FailStart
<1>5. CASE RollbackNode
  BY <1>0, <1>1, <1>2, <1>5, OutcomeTypes DEF RollbackNode
<1>6. CASE RolledBack
  BY <1>0, <1>1, <1>2, <1>6 DEF RolledBack, Refusal
<1>7. CASE StopNode
  <2> DEFINE n == drain_order[drain_index + 1]
  <2>1. drain_index < Size /\ n \in Node /\ state = "Draining"
    BY <1>7 DEF StopNode
  <2>2. PICK o \in Stop(node[n]) :
          /\ node' = [node EXCEPT ![n] = o.state]
          /\ drain_index' = Advance(o)
          /\ CASE o.status = "ok" -> Enters("drain", 0)
               [] o.status = "blocked" -> Enters("downstream", drain_index + 2)
               [] o.status = "failed" -> Enters("fail", Size)
    BY <1>7, Zenon DEF StopNode
  <2>3. o.state \in NodeState /\ o.status \in {"ok", "blocked", "failed"}
    BY <2>1, <2>2, OutcomeTypes
  <2>4. node' \in [Node -> NodeState] /\ drain_index' \in 0..Size
    BY <2>1, <2>2, <2>3 DEF Advance
  <2>5. \/ pc' = "drain" /\ i' = 0 /\ result' = "none"
        \/ pc' = "downstream" /\ i' = drain_index + 2 /\ result' = "none"
        \/ pc' = "fail" /\ i' = Size /\ result' = "none"
    BY <2>2, <2>3, Zenon
  <2> QED
    BY <1>0, <1>7, <2>1, <2>4, <2>5 DEF StopNode
<1>8. CASE Drained
  BY <1>0, <1>1, <1>2, <1>8 DEF Drained
<1>9. CASE TickDownstream
  BY <1>0, <1>1, <1>2, <1>9, OutcomeTypes DEF TickDownstream
<1>10. CASE StopBlocked
  BY <1>0, <1>1, <1>2, <1>10 DEF StopBlocked
<1>11. CASE ResetNode
  <2>1. ResetTarget \in Node
    BY <1>2, <1>11 DEF ResetNode, ResetTarget
  <2>2. node' \in [Node -> NodeState]
    BY <1>11, <2>1, OutcomeTypes DEF ResetNode
  <2> QED
    BY <1>0, <1>2, <1>11, <2>2 DEF ResetNode
<1>12. CASE ResetEnds
  <2>1. state' \in {"Error", "Stopped"} /\ result' \in {"ok", "failed", "blocked"}
    BY <1>12, Zenon DEF ResetEnds, ResetState, Refusal
  <2>2. /\ pc' = "idle" /\ i' = 0
        /\ graph' = graph /\ node' = node /\ call' = call
        /\ \/ drain_order' = <<>> /\ drain_index' = 0
           \/ drain_order' = drain_order /\ drain_index' = drain_index
    BY <1>12, Zenon DEF ResetEnds
  <2>3. drain_order' \in Seq(Node) /\ drain_index' \in 0..Size'
    <3>1. CASE drain_order' = <<>> /\ drain_index' = 0
      BY <3>1
    <3>2. CASE drain_order' = drain_order /\ drain_index' = drain_index
      BY <3>2
    <3> QED
      BY <2>2, <3>1, <3>2
  <2> HIDE DEF Returns
  <2> QED
    BY <1>0, <2>1, <2>2, <2>3
<1>13. CASE DestroyCancels
  BY <1>0, <1>1, <1>2, <1>13 DEF DestroyCancels, CancelBegins
<1>14. CASE TickNode
  BY <1>0, <1>1, <1>2, <1>14, OutcomeTypes DEF TickNode, TickState
<1>15. CASE HookThrows
  <2>1. Current \in Node
    BY <1>1, <1>15 DEF HookThrows, Current
  <2>2. node' \in [Node -> NodeState]
    BY <1>15, <2>1, OutcomeTypes DEF HookThrows
  <2> QED
    BY <1>0, <1>1, <1>2, <1>15, <2>2 DEF HookThrows
<1> QED
  BY <1>3, <1>4, <1>5, <1>6, <1>7, <1>8, <1>9, <1>10, <1>11, <1>12, <1>13, <1>14, <1>15
  DEF Inside

------------------------------------------------------------------------------
(***************************************************************************)
(* What start establishes and the drain's frontier.                        *)
(***************************************************************************)

\* Along the drain order: a running pipeline's nodes run, and so do the ones a
\* start has reached.
Together ==
  /\ state = "Running" /\ pc \in {"idle", "tick"} =>
        \A k \in 1..Size : node[drain_order[k]] = "Running"
  /\ pc = "start" => \A k \in 1..(i - 1) : node[drain_order[k]] = "Running"

Inv == TypeOK /\ Control /\ Together /\ DrainFrontier

\* A drain order that is in use lists the graph's nodes, each at one place.
LEMMA DrainOrderFacts ==
  ASSUME TypeOK, Control, state \in {"Running", "Draining"} \/ pc \in {"prepare", "start"}
  PROVE  /\ Range(drain_order) = Range(graph.nodes)
         /\ \A a, b \in 1..Size : drain_order[a] = drain_order[b] => a = b
         /\ \A k \in 1..Size : drain_order[k] \in Node
         /\ drain_order = OrderOf[graph] /\ Size \in Nat /\ drain_order # <<>>
  BY OrderFacts DEF TypeOK, Control, Size

\* At the beginning, no drain is under way.
LEMMA FrontierInit ==
  ASSUME Init PROVE Together /\ DrainFrontier
  BY DEF Init, Together, DrainFrontier

\* A call that begins keeps the frontier of the drain.
LEMMA FrontierClient ==
  ASSUME Inv, Client
  PROVE  Together' /\ DrainFrontier'
<1> USE DEF Inv, Together, DrainFrontier, Idle, Size, pipeVars, graphVars, callVars
<1>1. CASE \E n \in Node : AddNode(n) \/ \E m \in Node : Connect(n, m)
  BY <1>1 DEF AddNode, Connect, Modifiable
<1>2. CASE StartCalled
  BY <1>2 DEF StartCalled, Enters, Returns
<1>3. CASE StopCalled \/ DestroyCalled
  <2>1. CASE state = "Running"
    <3>1. /\ state' = "Draining" /\ pc' = "drain" /\ drain_index' = 0
          /\ drain_order' = drain_order /\ node' = node /\ pc = "idle"
      BY <1>3, <2>1, DrainOrderFacts DEF StopCalled, DestroyCalled, StopBegins, Enters
    <3> QED
      BY <2>1, <3>1
  <2>2. CASE state # "Running"
    BY <1>3, <2>2 DEF StopCalled, DestroyCalled, StopBegins, Enters, Returns
  <2> QED
    BY <2>1, <2>2
<1>4. CASE CancelCalled
  BY <1>4 DEF CancelCalled, CancelBegins, Enters, Returns
<1>5. CASE TickCalled
  BY <1>5 DEF TickCalled, Enters, Returns
<1> QED
  BY <1>1, <1>2, <1>3, <1>4, <1>5 DEF Client

\* Preparing, starting and rolling back keep the frontier.
LEMMA FrontierStart ==
  ASSUME Inv, PrepareNode \/ StartNode \/ RollbackNode \/ RolledBack
  PROVE  Together' /\ DrainFrontier'
<1> USE DEF Inv, Together, DrainFrontier, Size, pipeVars, graphVars
<1>1. state \in {"Created", "Stopped"}
  BY DEF Control, PrepareNode, StartNode, RollbackNode, RolledBack
<1>2. CASE PrepareNode
  BY <1>1, <1>2 DEF PrepareNode, FailStart, Enters
<1>3. CASE StartNode
  <2> DEFINE n == drain_order[i]
  <2>1. PICK o \in Start(node[n]) :
          /\ node' = [node EXCEPT ![n] = o.state]
          /\ IF o.status # "ok" THEN FailStart(Size) /\ UNCHANGED state
             ELSE IF i < Size THEN Enters("start", i + 1) /\ UNCHANGED state
             ELSE state' = "Running" /\ Returns("ok")
    BY <1>3 DEF StartNode
  <2>2. /\ pc = "start" /\ drain_order' = drain_order /\ i \in 1..Size /\ n \in Node
        /\ node \in [Node -> NodeState]
    BY <1>3, DrainOrderFacts DEF StartNode, TypeOK
  <2>3. CASE o.status # "ok"
    BY <1>1, <2>1, <2>2, <2>3 DEF FailStart, Enters
  <2>4. CASE o.status = "ok"
    <3>1. o.state = "Running"
      BY <2>1, <2>4 DEF Start, Done, Failed
    <3>2. \A k \in 1..i : drain_order[k] \in Node /\ node'[drain_order[k]] = "Running"
      BY <2>1, <2>2, <3>1, DrainOrderFacts
    <3>3. Size \in Nat
      BY <2>2, DrainOrderFacts
    <3> QED
      BY <1>1, <2>1, <2>2, <2>4, <3>2, <3>3 DEF Enters, Returns
  <2> QED
    BY <2>3, <2>4
<1>4. CASE RollbackNode \/ RolledBack
  BY <1>1, <1>4 DEF RollbackNode, RolledBack, Enters, Returns
<1> QED
  BY <1>2, <1>3, <1>4

\* A step of the drain moves the frontier as it should.
LEMMA FrontierStop ==
  ASSUME Inv, StopNode \/ Drained \/ TickDownstream \/ StopBlocked
  PROVE  Together' /\ DrainFrontier'
<1> USE DEF Inv, Together, DrainFrontier, Size, pipeVars, graphVars
<1>1. state = "Draining" /\ state' = state /\ drain_order' = drain_order
  BY DEF Control, StopNode, Drained, TickDownstream, StopBlocked
<1>2. /\ \A k \in 1..Size : drain_order[k] \in Node
      /\ \A a, b \in 1..Size : drain_order[a] = drain_order[b] => a = b
      /\ Size \in Nat /\ drain_index \in 0..Size /\ node \in [Node -> NodeState]
  BY <1>1, DrainOrderFacts DEF TypeOK
<1>3. CASE StopNode
  <2> DEFINE n == drain_order[drain_index + 1]
  <2>1. PICK o \in Stop(node[n]) :
          /\ node' = [node EXCEPT ![n] = o.state]
          /\ drain_index' = Advance(o)
          /\ CASE o.status = "ok" -> Enters("drain", 0)
               [] o.status = "blocked" -> Enters("downstream", drain_index + 2)
               [] o.status = "failed" -> Enters("fail", Size)
    BY <1>3, Zenon DEF StopNode
  <2>2. pc = "drain" /\ drain_index < Size
    BY <1>3 DEF StopNode
  <2>3. \/ o = Done("Stopped") \/ o = Blocked("Draining") \/ o = Failed("Error")
    BY <2>1 DEF Stop
  <2>4. \A k \in 1..Size : k # drain_index + 1 =>
          node'[drain_order[k]] = node[drain_order[k]]
    BY <1>2, <2>1, <2>2
  <2>5. node'[n] = o.state
    BY <1>2, <2>1, <2>2
  <2>6. CASE o = Done("Stopped")
    <3>1. o.status = "ok" /\ o.state = "Stopped"
      BY <2>6 DEF Done
    <3>2. pc' = "drain" /\ drain_index' = drain_index + 1
      BY <2>1, <3>1 DEF Advance, Enters
    <3> QED
      BY <1>1, <1>2, <2>2, <2>4, <2>5, <3>1, <3>2
  <2>7. CASE o = Blocked("Draining")
    <3>1. o.status = "blocked" /\ o.state = "Draining"
      BY <2>7 DEF Blocked
    <3>2. pc' = "downstream" /\ drain_index' = drain_index
      BY <2>1, <3>1 DEF Advance, Enters
    <3> QED
      BY <1>1, <1>2, <2>2, <2>4, <2>5, <3>1, <3>2
  <2>8. CASE o = Failed("Error")
    <3>1. o.status = "failed"
      BY <2>8 DEF Failed
    <3>2. pc' = "fail"
      BY <2>1, <3>1 DEF Enters
    <3> QED
      BY <1>1, <3>2
  <2> QED
    BY <2>3, <2>6, <2>7, <2>8
<1>4. CASE Drained
  BY <1>1, <1>4 DEF Drained, Enters
<1>5. CASE TickDownstream
  <2>1. pc = "downstream" /\ i \in 1..Size /\ drain_index' = drain_index
    BY <1>2, <1>5 DEF TickDownstream, TypeOK
  <2>2. CASE node' = node /\ pc' = "downstream"
    BY <1>1, <2>1, <2>2
  <2>3. CASE pc' = "fail"
    BY <1>1, <2>3
  <2>4. CASE \E o \in Tick(node[drain_order[i]]) :
                /\ node[drain_order[i]] = "Running" /\ o.status = "ok"
                /\ node' = [node EXCEPT ![drain_order[i]] = o.state]
    <3>1. node' = node
      BY <1>2, <2>1, <2>4 DEF Tick, Done, Failed
    <3> QED
      BY <1>1, <1>5, <2>1, <3>1 DEF TickDownstream, Enters
  <2> QED
    BY <1>5, <2>2, <2>3, <2>4 DEF TickDownstream, Enters
<1>6. CASE StopBlocked
  BY <1>1, <1>6 DEF StopBlocked, Returns
<1> QED
  BY <1>3, <1>4, <1>5, <1>6

\* Resetting, ticking and throwing keep the frontier.
LEMMA FrontierOthers ==
  ASSUME Inv, ResetNode \/ ResetEnds \/ DestroyCancels \/ TickNode \/ HookThrows
  PROVE  Together' /\ DrainFrontier'
<1> USE DEF Inv, Together, DrainFrontier, Size, pipeVars, graphVars
<1>1. CASE ResetNode
  BY <1>1 DEF ResetNode, ResetPhase
<1>2. CASE ResetEnds
  <2>1. state' \in {"Error", "Stopped"} /\ pc' = "idle"
    BY <1>2, Zenon DEF ResetEnds, ResetState, Returns
  <2> QED
    BY <2>1
<1>3. CASE DestroyCancels
  BY <1>3 DEF DestroyCancels, CancelBegins, Enters, Returns
<1>4. CASE TickNode
  <2> DEFINE n == OrderOf[graph][i]
  <2>1. /\ pc = "tick" /\ state = "Running" /\ drain_order' = drain_order
        /\ \A k \in 1..Size : drain_order[k] \in Node
        /\ n \in Node /\ node[n] = "Running" /\ node \in [Node -> NodeState]
    BY <1>4, DrainOrderFacts DEF TickNode, Control, TypeOK
  <2>2. PICK o \in Tick(node[n]) :
          node' = [node EXCEPT ![n] = o.state] /\ state' = TickState(o)
    BY <1>4 DEF TickNode
  <2>3. CASE o.status = "ok"
    <3>1. node' = node
      BY <2>1, <2>2, <2>3 DEF Tick, Done, Failed
    <3> QED
      BY <1>4, <2>1, <2>2, <2>3, <3>1 DEF TickNode, TickState, Enters, Returns
  <2>4. CASE o.status # "ok"
    <3>1. state' = "Error" /\ pc' # "start"
      BY <1>4, <2>2, <2>4 DEF TickNode, TickState, Enters, Returns
    <3> QED
      BY <3>1
  <2> QED
    BY <2>3, <2>4
<1>5. CASE HookThrows
  <2>1. pc' = "idle" /\ state' = state /\ drain_order' = drain_order
        /\ drain_index' = drain_index
    BY <1>5 DEF HookThrows, Returns
  <2>2. PICK s \in Thrown(pc, node[Current]) : node' = [node EXCEPT ![Current] = s]
    BY <1>5 DEF HookThrows
  <2>3. CASE state = "Running"
    <3>1. pc = "tick" /\ s = node[Current]
      BY <1>5, <2>2, <2>3 DEF HookThrows, Control, Thrown
    <3>2. node' = node
      BY <2>2, <3>1 DEF TypeOK
    <3> QED
      BY <2>1, <2>3, <3>1, <3>2
  <2>4. CASE state = "Draining"
    <3>1. /\ \A k \in 1..Size : drain_order[k] \in Node
          /\ \A a, b \in 1..Size : drain_order[a] = drain_order[b] => a = b
          /\ Size \in Nat /\ drain_index \in 0..Size /\ node \in [Node -> NodeState]
      BY <2>4, DrainOrderFacts DEF TypeOK
    <3>2. CASE pc = "drain"
      <4>1. Current = drain_order[drain_index + 1] /\ drain_index < Size
        BY <1>5, <3>2 DEF HookThrows, Current
      <4>2. node[Current] \in {"Running", "Draining"}
        BY <2>4, <3>1, <3>2, <4>1
      <4>3. s \in {"Running", "Draining"}
        BY <2>2, <3>2, <4>2 DEF Thrown
      <4>4. node'[Current] = s /\ \A k \in 1..Size : k # drain_index + 1 =>
               node'[drain_order[k]] = node[drain_order[k]]
        BY <2>2, <3>1, <4>1
      <4> QED
        BY <2>1, <2>4, <3>1, <3>2, <4>1, <4>3, <4>4
    <3>3. CASE pc = "downstream"
      <4>1. node' = node
        BY <2>2, <3>1, <3>3 DEF Thrown
      <4> QED
        BY <2>1, <2>4, <3>3, <4>1
    <3> QED
      BY <1>5, <2>4, <3>2, <3>3 DEF HookThrows, Control
  <2>5. CASE state \notin {"Running", "Draining"}
    BY <2>1, <2>5
  <2> QED
    BY <2>3, <2>4, <2>5
<1> QED
  BY <1>1, <1>2, <1>3, <1>4, <1>5

\* Inv is inductive.
THEOREM Invariance == Spec => []Inv
<1>1. Init => Inv
  BY ControlInit, FrontierInit DEF Inv
<1>2. Inv /\ [Next]_vars => Inv'
  <2> SUFFICES ASSUME Inv, [Next]_vars PROVE Inv'
    OBVIOUS
  <2>1. CASE Client
    BY <2>1, ControlClient, FrontierClient DEF Inv
  <2>2. CASE Inside
    <3>1. TypeOK' /\ Control'
      BY <2>2, ControlInside DEF Inv
    <3>2. Together' /\ DrainFrontier'
      BY <2>2, FrontierStart, FrontierStop, FrontierOthers DEF Inside
    <3> QED
      BY <3>1, <3>2 DEF Inv
  <2>3. CASE UNCHANGED vars
    <3>1. TypeOK'
      BY <2>3 DEF vars, graphVars, pipeVars, callVars, Inv, TypeOK, Size, ResetList
    <3>2. Control' /\ Together' /\ DrainFrontier'
      BY <2>3 DEF vars, graphVars, pipeVars, callVars, Inv, Control, Together,
         DrainFrontier, Size
    <3> QED
      BY <3>1, <3>2 DEF Inv
  <2> QED
    BY <2>1, <2>2, <2>3 DEF Next
<1> QED
  BY <1>1, <1>2, PTL DEF Spec

\* Every variable keeps its type, and every loop its position within the list it
\* runs over: no call indexes past the nodes.
THEOREM TypeCorrect == Spec => []TypeOK
  BY Invariance, PTL DEF Inv

\* Along the drain order is along the graph.
LEMMA InvTogether == Inv => RunningTogether
<1> SUFFICES ASSUME Inv, state = "Running", pc = "idle", NEW n \in Range(graph.nodes)
             PROVE  node[n] = "Running"
  BY DEF RunningTogether
<1>1. n \in Range(drain_order)
  BY DrainOrderFacts DEF Inv
<1>2. DOMAIN drain_order = 1..Size
  BY DEF Inv, TypeOK, Size
<1>3. PICK k \in 1..Size : n = drain_order[k]
  BY <1>1, <1>2 DEF Range
<1> QED
  BY <1>3 DEF Inv, Together

\* A pipeline that says it is running has all of its nodes running, whatever
\* failed, was thrown or was added before: start publishes kRunning only after
\* the last node started, and nothing changes the graph until it stops.
THEOREM RunningSafety == Spec => []RunningTogether
  BY InvTogether, Invariance, PTL

\* Between any two calls of stop, drain_index_ separates the stopped nodes from
\* those still running, exceptions included: the next call resumes where the
\* last one left off and skips nothing.
THEOREM DrainSafety == Spec => []DrainFrontier
  BY Invariance, PTL DEF Inv

------------------------------------------------------------------------------
(***************************************************************************)
(* What the reset loops reach, whatever threw.                             *)
(***************************************************************************)

\* Only nodes of the drain order are ever in use, and it only lists nodes of the
\* graph; a reset loop that has met no failure leaves those behind it created.
Reach ==
  /\ Range(drain_order) \subseteq Range(graph.nodes)
  /\ \A n \in Node : n \notin Range(drain_order) => node[n] = "Created"
  /\ pc \in ResetPhase /\ ~failure =>
        \A k \in (i + 1)..Len(ResetList) : node[ResetList[k]] = "Created"

\* At the beginning, no reset is under way.
LEMMA ReachInit ==
  ASSUME Init PROVE Reach
  BY DEF Init, Reach, ResetPhase, Range

\* What a call that begins a reset loop sets up.
LEMMA ResetBegins ==
  ASSUME Inv, Reach,
         \/ (StopCalled \/ DestroyCalled) /\ state \in {"Running", "Error"}
         \/ CancelCalled \/ DestroyCancels
  PROVE  /\ node' = node /\ graph' = graph
         /\ pc' \in ResetPhase => i' = Len(ResetList') /\ Len(ResetList') \in Nat
         /\ Range(drain_order') \subseteq Range(graph.nodes)
         /\ \A n \in Node : n \notin Range(drain_order') => node[n] = "Created"
<1> USE DEF pipeVars, graphVars, Enters, Returns, ResetPhase
<1>1. /\ OrderOf[graph] \in Seq(Node) /\ Range(OrderOf[graph]) = Range(graph.nodes)
      /\ graph.nodes \in Seq(Node) /\ drain_order \in Seq(Node)
  BY OrderFacts, NodeListFacts DEF Inv, TypeOK, Graphs
<1>2. CASE (StopCalled \/ DestroyCalled) /\ state \in {"Running", "Error"}
  <2>1. /\ node' = node /\ graph' = graph
        /\ drain_order' = IF drain_order = <<>> THEN OrderOf[graph] ELSE drain_order
        /\ pc' \in ResetPhase => i' = Len(drain_order')
    BY <1>2 DEF StopCalled, DestroyCalled, StopBegins
  <2>2. state = "Running" => drain_order # <<>>
    BY DrainOrderFacts DEF Inv
  <2>3. CASE drain_order = <<>>
    <3>1. \A n \in Node : node[n] = "Created"
      BY <2>3 DEF Reach, Range
    <3>2. CASE OrderOf[graph] = <<>>
      <4>1. drain_order' = <<>> /\ Len(graph.nodes) = 0 /\ Range(graph.nodes) = {}
        BY <1>1, <2>1, <2>3, <3>2, OrderFacts DEF Inv, TypeOK, Range
      <4> QED
        BY <1>1, <2>1, <3>1, <4>1 DEF ResetList, Range
    <3>3. CASE OrderOf[graph] # <<>>
      BY <1>1, <2>1, <2>3, <3>1, <3>3 DEF ResetList
    <3> QED
      BY <3>2, <3>3
  <2>4. CASE drain_order # <<>>
    <3>1. drain_order' = drain_order /\ ResetList' = drain_order
      BY <2>1, <2>4 DEF ResetList
    <3> QED
      BY <1>1, <2>1, <3>1 DEF Reach
  <2> QED
    BY <2>3, <2>4
<1>3. CASE CancelCalled \/ DestroyCancels
  <2>1. /\ node' = node /\ drain_order' = drain_order /\ graph' = graph
        /\ pc' \in ResetPhase => i' = Len(ResetList)
    BY <1>3 DEF CancelCalled, DestroyCancels, CancelBegins
  <2>2. ResetList' = ResetList /\ Len(ResetList) \in Nat
    BY <1>1, <2>1 DEF ResetList
  <2> QED
    BY <2>1, <2>2 DEF Reach
<1> QED
  BY <1>2, <1>3

\* A call that begins sets up a reset of every node, or none.
LEMMA ReachClient ==
  ASSUME Inv, Reach, Client
  PROVE  Reach'
<1> USE DEF Reach, Idle, ResetPhase, pipeVars, graphVars, callVars
<1>1. ASSUME NEW n \in Node, AddNode(n) PROVE Reach'
  <2>1. Range(graph'.nodes) = Range(graph.nodes) \cup {n}
    BY <1>1, AddedNode DEF Inv, TypeOK
  <2> QED
    BY <1>1, <2>1 DEF AddNode
<1>2. ASSUME NEW n \in Node, NEW m \in Node, Connect(n, m) PROVE Reach'
  <2>1. graph'.nodes = graph.nodes
    BY <1>2, Connected DEF Inv, TypeOK
  <2> QED
    BY <1>2, <2>1 DEF Connect
<1>3. CASE StartCalled
  <2>1. node' = node /\ graph' = graph /\ pc' \in {"idle", "prepare"}
    BY <1>3 DEF StartCalled, Enters, Returns
  <2>2. CASE drain_order' = OrderOf[graph]
    <3>1. Range(drain_order') = Range(graph.nodes)
      BY <2>2, OrderFacts DEF Inv, TypeOK
    <3> QED
      BY <2>1, <3>1
  <2>3. CASE drain_order' = <<>> /\ graph.nodes = <<>>
    BY <2>1, <2>3 DEF Range
  <2>4. CASE drain_order' = drain_order
    BY <2>1, <2>4
  <2> QED
    BY <1>3, <2>2, <2>3, <2>4 DEF StartCalled, Inv, TypeOK
<1>4. CASE StopCalled \/ DestroyCalled
  <2>1. CASE state \in {"Running", "Error"}
    BY <1>4, <2>1, ResetBegins
  <2>2. CASE state \notin {"Running", "Error"}
    BY <1>4, <2>2 DEF StopCalled, DestroyCalled, StopBegins, Enters, Returns
  <2> QED
    BY <2>1, <2>2
<1>5. CASE CancelCalled
  BY <1>5, ResetBegins
<1>6. CASE TickCalled
  BY <1>6 DEF TickCalled, Enters, Returns
<1> QED
  BY <1>1, <1>2, <1>3, <1>4, <1>5, <1>6 DEF Client

Looping == \/ PrepareNode \/ StartNode \/ RollbackNode \/ RolledBack \/ StopNode \/ Drained
           \/ TickDownstream \/ StopBlocked \/ TickNode

\* The loops of start, stop and tick, and an exception out of them, leave the
\* nodes outside the drain order alone.
LEMMA OnlyOrdered ==
  ASSUME Inv, Looping \/ HookThrows
  PROVE  /\ drain_order' = drain_order /\ graph' = graph
         /\ \A n \in Node : n \notin Range(drain_order) => node'[n] = node[n]
<1> USE DEF Inv, pipeVars, graphVars
<1> TypeOK /\ Control
  OBVIOUS
<1>1. drain_order' = drain_order /\ graph' = graph
  BY DEF Looping, PrepareNode, StartNode, RollbackNode, RolledBack, StopNode, Drained,
     TickDownstream, StopBlocked, TickNode, HookThrows
<1>2. \A k \in 1..Size : drain_order[k] \in Range(drain_order)
  BY DEF TypeOK, Size, Range
<1>3. ASSUME NEW k \in 1..Size, NEW s, node' = [node EXCEPT ![drain_order[k]] = s]
      PROVE  \A n \in Node : n \notin Range(drain_order) => node'[n] = node[n]
  BY <1>2, <1>3 DEF TypeOK
<1>4. CASE PrepareNode
  <2>1. i \in 1..Size /\ \E o \in Prepare(node[drain_order[i]]) :
                            node' = [node EXCEPT ![drain_order[i]] = o.state]
    BY <1>4 DEF PrepareNode, TypeOK
  <2> QED
    BY <1>1, <1>3, <2>1
<1>5. CASE StartNode
  <2>1. i \in 1..Size /\ \E o \in Start(node[drain_order[i]]) :
                            node' = [node EXCEPT ![drain_order[i]] = o.state]
    BY <1>5 DEF StartNode, TypeOK
  <2> QED
    BY <1>1, <1>3, <2>1
<1>6. CASE RollbackNode
  <2>1. i \in 1..Size
    BY <1>6 DEF RollbackNode, TypeOK
  <2>2. \E s : node' = [node EXCEPT ![drain_order[i]] = s]
    BY <1>6, Zenon DEF RollbackNode
  <2> QED
    BY <1>1, <1>3, <2>1, <2>2
<1>7. CASE StopNode
  <2>1. drain_index + 1 \in 1..Size
    BY <1>7 DEF StopNode, TypeOK, Size
  <2>2. \E o \in Stop(node[drain_order[drain_index + 1]]) :
          node' = [node EXCEPT ![drain_order[drain_index + 1]] = o.state]
    BY <1>7, Zenon DEF StopNode
  <2> QED
    BY <1>1, <1>3, <2>1, <2>2
<1>8. CASE TickDownstream
  <2>1. i \in 1..Size
    BY <1>8 DEF TickDownstream, TypeOK
  <2>2. \/ node' = node
        \/ \E o \in Tick(node[drain_order[i]]) : node' = [node EXCEPT ![drain_order[i]] = o.state]
    BY <1>8, Zenon DEF TickDownstream
  <2> QED
    BY <1>1, <1>3, <2>1, <2>2
<1>9. CASE TickNode
  <2>1. drain_order = OrderOf[graph] /\ i \in 1..Size
    BY <1>9 DEF TickNode, Control, TypeOK, Size
  <2>2. \E o \in Tick(node[drain_order[i]]) : node' = [node EXCEPT ![drain_order[i]] = o.state]
    BY <1>9, <2>1 DEF TickNode
  <2> QED
    BY <1>1, <1>3, <2>1, <2>2
<1>10. CASE HookThrows
  <2>1. \E k \in 1..Size : Current = drain_order[k]
    <3>1. CASE pc = "drain"
      BY <1>10, <3>1 DEF HookThrows, Current, TypeOK, Size
    <3>2. CASE pc = "tick"
      BY <1>10, <3>2 DEF HookThrows, Current, TypeOK, Control, Size
    <3>3. CASE pc \in {"prepare", "start", "rollback", "downstream"}
      BY <1>10, <3>3 DEF HookThrows, Current, TypeOK, Size
    <3> QED
      BY <1>10, <3>1, <3>2, <3>3 DEF HookThrows
  <2>2. \E s \in Thrown(pc, node[Current]) : node' = [node EXCEPT ![Current] = s]
    BY <1>10, Zenon DEF HookThrows
  <2> QED
    BY <1>1, <1>3, <2>1, <2>2
<1>11. CASE RolledBack \/ Drained \/ StopBlocked
  BY <1>1, <1>11 DEF RolledBack, Drained, StopBlocked
<1> QED
  BY <1>1, <1>4, <1>5, <1>6, <1>7, <1>8, <1>9, <1>10, <1>11 DEF Looping

\* Where the loops of start, stop and tick go: only a drain enters a reset loop,
\* at the end of its list, and only start and a drain change the state on return.
LEMMA LoopingEnds ==
  ASSUME Inv, Looping
  PROVE  /\ pc' \in ResetPhase => i' = Len(ResetList') /\ Len(ResetList') \in Nat
         /\ pc' = "idle" => state' \notin {"Created", "Stopped"}
         /\ call' = call /\ dying' = dying
<1> USE DEF Inv, pipeVars, graphVars
<1> TypeOK /\ Control
  OBVIOUS
<1>1. pc' \in ResetPhase => i' = Len(drain_order) /\ drain_order # <<>>
  <2>1. CASE PrepareNode \/ StartNode \/ RollbackNode \/ RolledBack \/ StopBlocked \/ TickNode
    BY <2>1 DEF PrepareNode, StartNode, RollbackNode, RolledBack, StopBlocked, TickNode,
       FailStart, Enters, Returns, ResetPhase
  <2>2. CASE StopNode
    <3>1. state = "Draining" /\ drain_index < Size
      BY <2>2 DEF StopNode, Control
    <3>2. PICK o \in Stop(node[drain_order[drain_index + 1]]) :
            CASE o.status = "ok" -> Enters("drain", 0)
              [] o.status = "blocked" -> Enters("downstream", drain_index + 2)
              [] o.status = "failed" -> Enters("fail", Size)
      BY <2>2, Zenon DEF StopNode
    <3>3. o.status \in {"ok", "blocked", "failed"}
      BY <3>1, <3>2, OutcomeTypes DEF TypeOK, Size
    <3>4. pc' \in {"drain", "downstream"} \/ i' = Size
      BY <3>2, <3>3, Zenon DEF Enters
    <3> QED
      BY <3>1, <3>4, DrainOrderFacts DEF Size, ResetPhase
  <2>3. CASE Drained \/ TickDownstream
    BY <2>3, DrainOrderFacts DEF Drained, TickDownstream, Control, Enters, ResetPhase, Size
  <2> QED
    BY <2>1, <2>2, <2>3 DEF Looping
<1>2. pc' \in ResetPhase => i' = Len(ResetList') /\ Len(ResetList') \in Nat
  BY <1>1, OnlyOrdered DEF ResetList, TypeOK
<1>3. ~(pc' = "idle" /\ state' \in {"Created", "Stopped"})
  <2>1. CASE PrepareNode
    BY <2>1 DEF PrepareNode, FailStart, Enters
  <2>2. CASE StartNode
    BY <2>2 DEF StartNode, FailStart, Enters, Returns
  <2>3. CASE RollbackNode \/ RolledBack
    BY <2>3 DEF RollbackNode, RolledBack, Enters, Returns
  <2>4. CASE StopNode \/ Drained \/ TickDownstream \/ StopBlocked
    <3>1. state' = "Draining"
      BY <2>4 DEF StopNode, Drained, TickDownstream, StopBlocked, Control
    <3> QED
      BY <3>1
  <2>5. CASE TickNode
    BY <2>5 DEF TickNode, TickState, Control
  <2> QED
    BY <2>1, <2>2, <2>3, <2>4, <2>5 DEF Looping
<1>4. call' = call /\ dying' = dying
  BY DEF Looping, PrepareNode, StartNode, RollbackNode, RolledBack, StopNode, Drained,
     TickDownstream, StopBlocked, TickNode
<1> QED
  BY <1>2, <1>3, <1>4

\* One reset: the node it calls and how that may end.
LEMMA OneReset ==
  ASSUME Inv, ResetNode
  PROVE  /\ drain_order' = drain_order /\ graph' = graph /\ pc' = pc /\ i' = i - 1
         /\ ResetList' = ResetList /\ pc \in ResetPhase /\ i \in 1..Len(ResetList)
         /\ ResetList \in Seq(Node) /\ ResetTarget = ResetList[i]
         /\ \E o \in CaughtReset(node[ResetTarget]) :
               /\ node' = [node EXCEPT ![ResetTarget] = o.state]
               /\ ~failure' => ~failure /\ o.status # "failed"
               /\ ~threw' => o \in Reset(node[ResetTarget])
<1>1. /\ drain_order' = drain_order /\ graph' = graph /\ pc' = pc /\ i' = i - 1
      /\ ResetList' = ResetList /\ pc \in ResetPhase /\ i \in 1..Len(ResetList)
  BY DEF ResetNode, ResetList, pipeVars, graphVars, Inv, TypeOK
<1>2. ResetList \in Seq(Node) /\ ResetTarget = ResetList[i]
  BY <1>1, NodeListFacts DEF ResetList, ResetTarget, Inv, TypeOK, Graphs
<1>3. \E o \in CaughtReset(node[ResetTarget]) :
         /\ node' = [node EXCEPT ![ResetTarget] = o.state]
         /\ ~failure' => ~failure /\ o.status # "failed"
         /\ ~threw' => o \in Reset(node[ResetTarget])
  BY Zenon DEF ResetNode, Recorded
<1> QED
  BY <1>1, <1>2, <1>3

\* A step of the reset loop covers one more node.
LEMMA ReachReset ==
  ASSUME Inv, Reach, ResetNode
  PROVE  Reach'
<1> DEFINE n == ResetTarget
<1>1. /\ drain_order' = drain_order /\ graph' = graph /\ pc' = pc /\ i' = i - 1
      /\ ResetList' = ResetList /\ pc \in ResetPhase /\ i \in 1..Len(ResetList)
      /\ ResetList \in Seq(Node) /\ n = ResetList[i] /\ n \in Node
  BY OneReset
<1>2. PICK o \in CaughtReset(node[n]) : /\ node' = [node EXCEPT ![n] = o.state]
                                        /\ ~failure' => ~failure /\ o.status # "failed"
  BY OneReset
<1>3. o.status = "failed" \/ o.state = "Created"
  BY <1>2 DEF CaughtReset, Reset, Done, Failed
<1>4. \A m \in Node : m \notin Range(drain_order') => node'[m] = "Created"
  <2>1. CASE drain_order = <<>>
    <3>1. node[n] = "Created"
      BY <1>1, <2>1 DEF Reach, Range
    <3>2. o.state = "Created"
      BY <1>2, <3>1 DEF CaughtReset, Reset, Done
    <3> QED
      BY <1>1, <1>2, <3>2 DEF Reach, Inv, TypeOK
  <2>2. CASE drain_order # <<>>
    <3>1. n \in Range(drain_order)
      BY <1>1, <2>2 DEF ResetList, Range, Inv, TypeOK
    <3> QED
      BY <1>1, <1>2, <3>1 DEF Reach, Inv, TypeOK
  <2> QED
    BY <2>1, <2>2
<1>5. ~failure' => \A k \in (i' + 1)..Len(ResetList') : node'[ResetList'[k]] = "Created"
  <2> SUFFICES ASSUME ~failure', NEW k \in i..Len(ResetList)
               PROVE  node'[ResetList[k]] = "Created"
    BY <1>1
  <2>1. o.state = "Created" /\ ~failure
    BY <1>2, <1>3
  <2>2. ResetList[k] \in Node
    BY <1>1
  <2>3. CASE k = i
    BY <1>1, <1>2, <2>1, <2>3 DEF Inv, TypeOK
  <2>4. CASE k # i
    <3>1. k \in (i + 1)..Len(ResetList)
      BY <1>1, <2>4
    <3>2. node[ResetList[k]] = "Created"
      BY <1>1, <2>1, <3>1 DEF Reach
    <3> QED
      BY <1>1, <1>2, <2>1, <2>2, <3>2 DEF Inv, TypeOK
  <2> QED
    BY <2>3, <2>4
<1> QED
  BY <1>1, <1>4, <1>5 DEF Reach

\* The list of the resets, as far as it goes, together with what is out of it,
\* is every node.
LEMMA ResetsAll ==
  ASSUME Inv, Reach, NEW S, "Created" \in S,
         \A k \in 1..Len(ResetList) : node[ResetList[k]] \in S
  PROVE  \A n \in Node : node[n] \in S
<1> SUFFICES ASSUME NEW n \in Node PROVE node[n] \in S
  OBVIOUS
<1>1. CASE n \in Range(drain_order)
  <2>1. ResetList = drain_order /\ drain_order \in Seq(Node)
    BY <1>1 DEF ResetList, Range, Inv, TypeOK
  <2>2. PICK k \in 1..Len(drain_order) : n = drain_order[k]
    BY <1>1, <2>1 DEF Range
  <2> QED
    BY <2>1, <2>2
<1>2. CASE n \notin Range(drain_order)
  BY <1>2 DEF Reach
<1> QED
  BY <1>1, <1>2

\* A reset loop that ends with success has reset every node.
LEMMA ResetLoopEnds ==
  ASSUME Inv, Reach, ResetEnds
  PROVE  /\ pc \in ResetPhase /\ i = 0 /\ pc' = "idle" /\ node' = node /\ graph' = graph
         /\ call' = call /\ dying' = dying
         /\ state' = "Stopped" => \A n \in Node : node[n] = "Created"
         /\ result' = "ok" => state' = "Stopped"
         /\ drain_order' = drain_order \/ \A n \in Node : node[n] = "Created"
<1>1. /\ pc \in ResetPhase /\ i = 0 /\ pc' = "idle" /\ node' = node /\ state' = ResetState
      /\ graph' = graph /\ call' = call /\ dying' = dying
      /\ result' \in IF pc = "fail" THEN {"failed"} ELSE IF failure THEN Refusal ELSE {"ok"}
  BY Zenon DEF ResetEnds, Returns, graphVars
<1>2. ~failure => \A n \in Node : node[n] = "Created"
  <2>1. ~failure => \A k \in 1..Len(ResetList) : node[ResetList[k]] \in {"Created"}
    BY <1>1 DEF Reach
  <2>2. ~failure => \A n \in Node : node[n] \in {"Created"}
    BY <2>1, ResetsAll
  <2> QED
    BY <2>2
<1>3. state' = "Stopped" => ~failure
  BY <1>1, Zenon DEF ResetState, ResetFails
<1>4. result' = "ok" => ~failure /\ pc # "fail"
  BY <1>1 DEF Refusal
<1>5. drain_order' = drain_order \/ ~failure
  BY Zenon DEF ResetEnds
<1>6. result' = "ok" => state' = "Stopped"
  BY <1>1, <1>4, Zenon DEF ResetState, ResetFails
<1> QED
  BY <1>1, <1>2, <1>3, <1>5, <1>6

\* Every step keeps the reach of the reset loop.
LEMMA ReachStep ==
  ASSUME Inv, Reach, [Next]_vars
  PROVE  Reach'
<1>1. CASE Client
  BY <1>1, ReachClient
<1>2. CASE Looping
  BY <1>2, OnlyOrdered, LoopingEnds DEF Reach
<1>3. CASE ResetNode
  BY <1>3, ReachReset
<1>4. CASE ResetEnds
  <2>1. \A n \in Node : n \notin Range(drain_order') => node'[n] = "Created"
    BY <1>4, ResetLoopEnds DEF Reach
  <2>2. Range(drain_order') \subseteq Range(graph'.nodes)
    <3>1. drain_order' = drain_order \/ drain_order' = <<>>
      BY <1>4, Zenon DEF ResetEnds
    <3> QED
      BY <1>4, <3>1, ResetLoopEnds DEF Reach, Range
  <2> QED
    BY <1>4, <2>1, <2>2, ResetLoopEnds DEF Reach, ResetPhase
<1>5. CASE DestroyCancels
  BY <1>5, ResetBegins DEF Reach
<1>6. CASE HookThrows
  <2>1. pc' = "idle"
    BY <1>6 DEF HookThrows, Returns
  <2> QED
    BY <1>6, <2>1, OnlyOrdered DEF Reach, ResetPhase
<1>7. CASE UNCHANGED vars
  BY <1>7 DEF vars, graphVars, pipeVars, callVars, Reach, ResetList
<1> QED
  BY <1>1, <1>2, <1>3, <1>4, <1>5, <1>6, <1>7 DEF Next, Inside, Looping

\* Whatever threw before, and whatever was added or connected since the drain
\* order was computed, a reset loop that ends in Stopped has reset every node.
THEOREM ResetComplete == Spec => ResetReachesAll
<1>1. Init => Reach
  BY ReachInit
<1>2. Inv /\ Reach /\ [Next]_vars => Reach'
  BY ReachStep
<1>3. Inv /\ Reach /\ [Next]_vars =>
        [(pc \in ResetPhase /\ state' = "Stopped" /\ pc' = "idle") =>
            \A n \in Node : node'[n] = "Created"]_vars
  <2> SUFFICES ASSUME Inv, Reach, Next, pc \in ResetPhase, state' = "Stopped", pc' = "idle"
               PROVE  \A n \in Node : node'[n] = "Created"
    OBVIOUS
  <2>1. ResetEnds
    <3>1. ~Client /\ ~DestroyCancels
      BY DEF Client, AddNode, Connect, StartCalled, StopCalled, CancelCalled, TickCalled,
         DestroyCalled, DestroyCancels, Idle, ResetPhase
    <3>2. ~Looping /\ ~HookThrows
      BY DEF Looping, PrepareNode, StartNode, RollbackNode, RolledBack, StopNode, Drained,
         TickDownstream, StopBlocked, TickNode, HookThrows, ResetPhase
    <3>3. ~ResetNode
      BY OneReset DEF ResetPhase
    <3> QED
      BY <3>1, <3>2, <3>3 DEF Next, Inside, Looping
  <2> QED
    BY <2>1, ResetLoopEnds
<1> QED
  BY <1>1, <1>2, <1>3, Invariance, PTL DEF Spec, ResetReachesAll

------------------------------------------------------------------------------
(***************************************************************************)
(* What the clients see: MediaPipeline implements PipelineService.         *)
(***************************************************************************)

\* Which call each loop belongs to, and in what state the pipeline is in it.
Serving ==
  /\ pc \in {"prepare", "start", "rollback"} => call = "start"
  /\ pc \in {"drain", "downstream", "keep", "fail"} => call \in {"stop", "destroy"}
  /\ pc = "keep" => state = "Error"
  /\ pc = "fail" => state = "Draining"
  /\ pc = "clear" => \/ call = "cancel" /\ state # "Stopped"
                     \/ call \in {"stop", "destroy"} /\ state = "Draining"
  /\ pc = "tick" => call = "tick"

\* A node call of stop, with the three ways on from it.
LEMMA StopNodeSteps ==
  ASSUME TypeOK, StopNode
  PROVE  /\ pc = "drain" /\ pc' \in {"drain", "downstream", "fail"}
         /\ state' = state /\ call' = call
  <1>1. drain_order[drain_index + 1] \in Node
    BY DEF StopNode, TypeOK, Size
  <1>2. PICK o \in Stop(node[drain_order[drain_index + 1]]) :
          CASE o.status = "ok" -> Enters("drain", 0)
            [] o.status = "blocked" -> Enters("downstream", drain_index + 2)
            [] o.status = "failed" -> Enters("fail", Size)
    BY Zenon DEF StopNode
  <1>3. o.status \in {"ok", "blocked", "failed"}
    BY <1>1, <1>2, OutcomeTypes DEF TypeOK
  <1>4. pc' \in {"drain", "downstream", "fail"}
    BY <1>2, <1>3, Zenon DEF Enters
  <1> QED
    BY <1>4, Zenon DEF StopNode

\* Every step keeps nodes serving where the pipeline runs.
LEMMA ServingStep ==
  ASSUME Inv, Serving, [Next]_vars
  PROVE  Serving'
<1> USE DEF Inv, Control, Serving, Enters, Returns, graphVars, pipeVars, callVars
<1>1. CASE \E n \in Node : AddNode(n) \/ \E m \in Node : Connect(n, m)
  BY <1>1 DEF AddNode, Connect
<1>2. CASE StartCalled
  BY <1>2 DEF StartCalled
<1>3. CASE StopCalled \/ DestroyCalled
  BY <1>3 DEF StopCalled, DestroyCalled, StopBegins
<1>4. CASE CancelCalled \/ DestroyCancels
  BY <1>4 DEF CancelCalled, DestroyCancels, CancelBegins
<1>5. CASE TickCalled
  BY <1>5 DEF TickCalled
<1>6. CASE PrepareNode \/ StartNode
  BY <1>6 DEF PrepareNode, StartNode, FailStart
<1>7. CASE RollbackNode \/ RolledBack
  BY <1>7 DEF RollbackNode, RolledBack
<1>8. CASE StopNode
  BY <1>8, StopNodeSteps
<1>9. CASE Drained \/ TickDownstream \/ StopBlocked
  BY <1>9 DEF Drained, TickDownstream, StopBlocked
<1>10. CASE ResetNode
  BY <1>10 DEF ResetNode
<1>11. CASE ResetEnds \/ HookThrows
  <2>1. pc' = "idle"
    BY <1>11, Zenon DEF ResetEnds, HookThrows
  <2> QED
    BY <2>1
<1>12. CASE TickNode
  BY <1>12 DEF TickNode
<1>13. CASE UNCHANGED vars
  BY <1>13 DEF vars
<1> QED
  BY <1>1, <1>2, <1>3, <1>4, <1>5, <1>6, <1>7, <1>8, <1>9, <1>10, <1>11, <1>12, <1>13
  DEF Next, Client, Inside

\* The call and the result as a client sees them.
seen == IF call = "destroy" THEN "stop" ELSE call
answer == IF pc = "idle" THEN result ELSE "pending"

\* Between two calls every client call of the pipeline is one of the service's:
\* it returns at once or it begins.
LEMMA ServiceClient ==
  ASSUME Inv, pc = "idle",
         StartCalled \/ StopCalled \/ CancelCalled \/ TickCalled \/ DestroyCalled \/ DestroyCancels
  PROVE  Service!Next
<1> USE DEF Inv
<1>1. answer # "pending" /\ state \in PipelineState
  BY DEF answer, TypeOK, Results
<1>2. ASSUME NEW c \in Service!Call, seen' = c, pc' # "idle",
             state' = IF c = "stop" /\ state = "Running" THEN "Draining" ELSE state
      PROVE  Service!Next
  BY <1>1, <1>2 DEF Service!Next, Service!Begin, seen, answer
<1>3. ASSUME NEW c \in Service!Call, seen' = c, pc' = "idle",
             NEW o \in Service!Outcomes(c, state), state' = o.state, result' = o.status
      PROVE  Service!Next
  BY <1>1, <1>3 DEF Service!Next, Service!Immediate, seen, answer
<1> USE DEF Service!Call, seen, Enters, Returns, pipeVars
<1>4. CASE StartCalled
  <2>1. seen' = "start" /\ "start" \in Service!Call
    BY <1>4 DEF StartCalled
  <2>2. CASE pc' # "idle"
    <3>1. state' = state
      BY <1>4, <2>2 DEF StartCalled
    <3> QED
      BY <1>2, <2>1, <2>2, <3>1
  <2>3. CASE pc' = "idle"
    <3>1. [status |-> result', state |-> state'] \in Service!Outcomes("start", state)
      BY <1>4, <2>3 DEF StartCalled, Service!Outcomes, Service!Rest, Service!Broken
    <3> QED
      BY <1>3, <2>1, <2>3, <3>1
  <2> QED
    BY <2>2, <2>3
<1>5. CASE StopCalled \/ DestroyCalled
  <2>1. seen' = "stop" /\ "stop" \in Service!Call /\ StopBegins
    BY <1>5 DEF StopCalled, DestroyCalled
  <2>2. CASE pc' # "idle"
    <3>1. state' = IF state = "Running" THEN "Draining" ELSE state
      BY <2>1, <2>2 DEF StopBegins
    <3> QED
      BY <1>2, <2>1, <2>2, <3>1
  <2>3. CASE pc' = "idle"
    <3>1. [status |-> result', state |-> state'] \in Service!Outcomes("stop", state)
      BY <2>1, <2>3 DEF StopBegins, Service!Outcomes, Service!Rest
    <3> QED
      BY <1>3, <2>1, <2>3, <3>1
  <2> QED
    BY <2>2, <2>3
<1>6. CASE CancelCalled \/ DestroyCancels
  <2>1. seen' = "cancel" /\ "cancel" \in Service!Call /\ CancelBegins
    BY <1>6 DEF CancelCalled, DestroyCancels, CancelBegins
  <2>2. CASE pc' # "idle"
    <3>1. state' = state
      BY <2>1 DEF CancelBegins
    <3> QED
      BY <1>2, <2>1, <2>2, <3>1
  <2>3. CASE pc' = "idle"
    <3>1. [status |-> result', state |-> state'] \in Service!Outcomes("cancel", state)
      BY <2>1, <2>3 DEF CancelBegins, Service!Outcomes, Service!Rest
    <3> QED
      BY <1>3, <2>1, <2>3, <3>1
  <2> QED
    BY <2>2, <2>3
<1>7. CASE TickCalled
  <2>1. seen' = "tick" /\ "tick" \in Service!Call /\ state' = state
    BY <1>7 DEF TickCalled
  <2>2. CASE pc' # "idle"
    BY <1>2, <2>1, <2>2
  <2>3. CASE pc' = "idle"
    <3>1. [status |-> result', state |-> state'] \in Service!Outcomes("tick", state)
      BY <1>7, <2>3 DEF TickCalled, Service!Outcomes, Service!Rest
    <3> QED
      BY <1>3, <2>1, <2>3, <3>1
  <2> QED
    BY <2>2, <2>3
<1> QED
  BY <1>4, <1>5, <1>6, <1>7

\* Within a call the pipeline keeps its state and goes on, or returns in one of
\* the states, and with one of the statuses, the service allows.
LEMMA ServiceInside ==
  ASSUME Inv, Serving, Inside, ~DestroyCancels
  PROVE  Service!Next \/ UNCHANGED Service!vars
<1> USE DEF Inv, Control, Serving
<1>1. ASSUME pc # "idle", pc' # "idle", state' = state, call' = call
      PROVE  UNCHANGED Service!vars
  BY <1>1 DEF Service!vars
<1>2. ASSUME pc # "idle", pc' = "idle", call' = call,
             [status |-> result', state |-> state'] \in Service!Outcomes(seen, state)
      PROVE  Service!Next
  BY <1>2 DEF Service!Next, Service!Return, seen
<1> USE DEF Enters, Returns, pipeVars, callVars, Service!Outcomes, Service!Rest, Service!Broken
<1>3. CASE PrepareNode
  BY <1>1, <1>3 DEF PrepareNode, FailStart
<1>4. CASE StartNode
  <2>1. pc = "start" /\ call' = call
    BY <1>4 DEF StartNode
  <2>2. CASE pc' = "idle"
    <3>1. result' = "ok" /\ state' = "Running"
      BY <1>4, <2>2 DEF StartNode, FailStart
    <3> QED
      BY <1>2, <2>1, <2>2, <3>1 DEF seen
  <2>3. CASE pc' # "idle"
    BY <1>1, <1>4, <2>1, <2>3 DEF StartNode
  <2> QED
    BY <2>2, <2>3
<1>5. CASE RollbackNode
  BY <1>1, <1>5 DEF RollbackNode
<1>6. CASE RolledBack
  <2>1. /\ pc = "rollback" /\ call' = call /\ state' = "Error" /\ pc' = "idle"
        /\ result' \in {"failed", "blocked"}
    BY <1>6 DEF RolledBack, Refusal
  <2>2. [status |-> result', state |-> state'] \in Service!Outcomes(seen, state)
    BY <2>1 DEF seen
  <2> QED
    BY <1>2, <2>1, <2>2
<1>7. CASE StopNode
  BY <1>1, <1>7, StopNodeSteps
<1>8. CASE Drained
  BY <1>1, <1>8 DEF Drained
<1>9. CASE TickDownstream
  BY <1>1, <1>9 DEF TickDownstream
<1>10. CASE StopBlocked
  <2>1. /\ pc = "downstream" /\ call' = call /\ state' = state /\ pc' = "idle"
        /\ result' = "blocked"
    BY <1>10 DEF StopBlocked
  <2>2. [status |-> result', state |-> state'] \in Service!Outcomes(seen, state)
    BY <2>1 DEF seen
  <2> QED
    BY <1>2, <2>1, <2>2
<1>11. CASE ResetNode
  BY <1>1, <1>11 DEF ResetNode, ResetPhase
<1>12. CASE ResetEnds
  <2>1. /\ pc \in ResetPhase /\ call' = call /\ pc' = "idle" /\ state' = ResetState
        /\ result' \in IF pc = "fail" THEN {"failed"} ELSE IF failure THEN Refusal ELSE {"ok"}
    BY <1>12, Zenon DEF ResetEnds
  <2>2. \/ result' = "ok" /\ state' = "Stopped" /\ pc # "fail"
        \/ result' \in {"failed", "blocked"} /\ state' = "Error"
    BY <2>1 DEF ResetState, ResetFails, Refusal
  <2>3. seen \in {"stop", "cancel"} /\ (seen = "stop" => state \in {"Draining", "Error"})
        /\ (seen = "cancel" => state # "Stopped")
    BY <2>1 DEF seen, ResetPhase
  <2>4. [status |-> result', state |-> state'] \in Service!Outcomes(seen, state)
    BY <2>2, <2>3
  <2> QED
    BY <1>2, <2>1, <2>4 DEF ResetPhase
<1>13. CASE TickNode
  <2>1. PICK o \in Tick(node[OrderOf[graph][i]]) :
          /\ state' = TickState(o)
          /\ IF o.status # "ok" THEN Returns("failed")
             ELSE IF i < Len(OrderOf[graph]) THEN Enters("tick", i + 1)
             ELSE Returns("ok")
    BY <1>13, Zenon DEF TickNode
  <2>2. pc = "tick" /\ call' = call /\ state = "Running" /\ call = "tick"
    BY <1>13 DEF TickNode
  <2>3. CASE pc' # "idle"
    BY <1>1, <2>1, <2>2, <2>3 DEF TickState
  <2>4. CASE pc' = "idle"
    <3>1. \/ result' = "ok" /\ state' = "Running"
          \/ result' = "failed" /\ state' = "Error"
      BY <2>1, <2>2, <2>4 DEF TickState
    <3>2. [status |-> result', state |-> state'] \in Service!Outcomes(seen, state)
      BY <2>2, <3>1 DEF seen
    <3> QED
      BY <1>2, <2>2, <2>4, <3>2
  <2> QED
    BY <2>3, <2>4
<1>14. CASE HookThrows
  <2>1. pc # "idle" /\ call # "cancel" /\ pc' = "idle" /\ result' = "threw"
        /\ state' = state /\ call' = call
    BY <1>14 DEF HookThrows
  <2> QED
    BY <2>1 DEF Service!Next, Service!Throw
<1> QED
  BY <1>3, <1>4, <1>5, <1>6, <1>7, <1>8, <1>9, <1>10, <1>11, <1>12, <1>13, <1>14 DEF Inside

\* A pipeline implements the service its clients rely on: for any graph, and
\* whatever its nodes answer or throw, each call returns a status, and leaves the
\* pipeline in a state, that PipelineService allows for the state it was made in.
THEOREM ServiceRefined == Spec => KeepsService
<1>1. Init => Service!Init /\ Serving
  BY DEF Init, Service!Init, Serving
<1>2. Inv /\ Serving /\ [Next]_vars => Serving'
  BY ServingStep
<1>3. Inv /\ Serving /\ [Next]_vars => [Service!Next]_(Service!vars)
  <2> SUFFICES ASSUME Inv, Serving, [Next]_vars
               PROVE  Service!Next \/ UNCHANGED Service!vars
    OBVIOUS
  <2>1. CASE \E n \in Node : AddNode(n) \/ \E m \in Node : Connect(n, m)
    BY <2>1 DEF AddNode, Connect, pipeVars, callVars, Service!vars
  <2>2. CASE StartCalled \/ StopCalled \/ CancelCalled \/ TickCalled \/ DestroyCalled
             \/ DestroyCancels
    <3>1. pc = "idle"
      BY <2>2 DEF StartCalled, StopCalled, CancelCalled, TickCalled, DestroyCalled,
         DestroyCancels, Idle
    <3> QED
      BY <2>2, <3>1, ServiceClient
  <2>3. CASE Inside /\ ~DestroyCancels
    BY <2>3, ServiceInside
  <2>4. CASE UNCHANGED vars
    BY <2>4 DEF vars, pipeVars, callVars, Service!vars
  <2> QED
    BY <2>1, <2>2, <2>3, <2>4 DEF Next, Client, Inside
<1> QED
  BY <1>1, <1>2, <1>3, Invariance, PTL DEF Spec, KeepsService, Service!Spec

------------------------------------------------------------------------------
(***************************************************************************)
(* What start, stop and the destructor let go of, while no hook has thrown.*)
(***************************************************************************)
LetGo == {"Created", "Error"}

\* At rest nothing is in use; the nodes a start has not reached, and those its
\* rollback or a reset loop has passed, are let go; and the destructor ends with
\* a stop that succeeded or with a cancel that has passed every node.
Settled ==
  /\ pc = "idle" /\ state \in {"Created", "Stopped"} => \A n \in Node : node[n] = "Created"
  /\ pc = "prepare" => \A k \in i..Size : node[drain_order[k]] = "Created"
  /\ pc = "rollback" => \A k \in (i + 1)..Size : node[drain_order[k]] \in LetGo
  /\ pc \in ResetPhase => \A k \in (i + 1)..Len(ResetList) : node[ResetList[k]] \in LetGo
  /\ dying => \/ call = "destroy" /\ (pc = "idle" /\ result = "ok" => state = "Stopped")
              \/ call = "cancel" /\ (pc = "idle" => \A n \in Node : node[n] \in LetGo)

\* Nothing forgets that a hook threw.
LEMMA ThrewStays ==
  ASSUME [Next]_vars, threw PROVE threw'
<1> USE DEF graphVars
<1>1. CASE Client
  BY <1>1, Zenon DEF Client, AddNode, Connect, StartCalled, StopCalled, CancelCalled,
     CancelBegins, TickCalled, DestroyCalled
<1>2. CASE Inside
  BY <1>2, Zenon DEF Inside, PrepareNode, StartNode, RollbackNode, RolledBack, StopNode,
     Drained, TickDownstream, StopBlocked, ResetNode, ResetEnds, DestroyCancels,
     CancelBegins, TickNode, HookThrows
<1>3. CASE UNCHANGED vars
  BY <1>3, Zenon DEF vars
<1> QED
  BY <1>1, <1>2, <1>3, Zenon DEF Next

\* A call that begins leaves the nodes settled.
LEMMA SettledClient ==
  ASSUME Inv, Reach, Settled, Client
  PROVE  Settled'
<1> USE DEF Idle, ResetPhase, graphVars, pipeVars, callVars, Enters, Returns
<1>1. pc = "idle" /\ ~dying
  <2>1. CASE \E n \in Node : AddNode(n) \/ \E m \in Node : Connect(n, m)
    BY <2>1, Zenon DEF AddNode, Connect
  <2>2. CASE StartCalled \/ StopCalled \/ CancelCalled \/ TickCalled \/ DestroyCalled
    BY <2>2, Zenon DEF StartCalled, StopCalled, CancelCalled, TickCalled, DestroyCalled
  <2> QED
    BY <2>1, <2>2, Zenon DEF Client
<1>2. CASE \E n \in Node : AddNode(n) \/ \E m \in Node : Connect(n, m)
  <2>1. /\ node' = node /\ pc' = pc /\ state' = state /\ dying' = dying
    BY <1>2, Zenon DEF AddNode, Connect
  <2> QED
    BY <1>1, <2>1 DEF Settled
<1>3. CASE StartCalled
  <2>1. node' = node /\ dying' = dying /\ pc' \in {"idle", "prepare"}
    BY <1>3 DEF StartCalled
  <2>2. CASE pc' = "prepare"
    <3>1. /\ drain_order' = OrderOf[graph] /\ i' = 1
          /\ \A n \in Node : node[n] = "Created"
      BY <1>1, <1>3, <2>2 DEF StartCalled, Settled
    <3>2. \A k \in i'..Size' : drain_order'[k] \in Node
      BY <3>1, OrderFacts DEF Inv, TypeOK, Size
    <3> QED
      BY <1>1, <2>1, <2>2, <3>1, <3>2 DEF Settled
  <2>3. CASE pc' = "idle"
    <3>1. state' \notin {"Created", "Stopped"}
      BY <1>3, <2>3 DEF StartCalled
    <3> QED
      BY <1>1, <2>1, <2>3, <3>1 DEF Settled
  <2> QED
    BY <2>1, <2>2, <2>3
<1>4. CASE StopCalled \/ DestroyCalled
  <2>1. /\ node' = node
        /\ dying' => call' = "destroy"
        /\ pc' \in {"idle", "drain", "keep"}
        /\ pc' = "idle" => state' = "Stopped" /\ state \in {"Created", "Stopped"}
    BY <1>1, <1>4 DEF StopCalled, DestroyCalled, StopBegins
  <2>2. pc' = "keep" => i' = Len(ResetList') /\ Len(ResetList') \in Nat
    <3>1. pc' = "keep" => state \in {"Running", "Error"}
      BY <1>4 DEF StopCalled, DestroyCalled, StopBegins
    <3> QED
      BY <1>4, <3>1, ResetBegins
  <2> QED
    BY <1>1, <2>1, <2>2 DEF Settled
<1>5. CASE CancelCalled
  <2>1. /\ node' = node /\ dying' = dying /\ state' = state
        /\ pc' = "idle" \/ pc' = "clear"
    BY <1>5 DEF CancelCalled, CancelBegins
  <2> QED
    BY <1>1, <1>5, <2>1, ResetBegins DEF Settled
<1>6. CASE TickCalled
  BY <1>1, <1>6 DEF TickCalled, Settled
<1> QED
  BY <1>2, <1>3, <1>4, <1>5, <1>6 DEF Client

\* The part of Settled about the destructor, which start and tick never meet.
LEMMA LoopingDying ==
  ASSUME Inv, Serving, Settled, Looping, dying
  PROVE  call' = "destroy" /\ ~(pc' = "idle" /\ result' = "ok")
<1> USE DEF Inv, Control, Serving, Enters, Returns
<1>1. call \in {"destroy", "cancel"}
  BY DEF Settled
<1>2. StopNode \/ Drained \/ TickDownstream \/ StopBlocked
  BY <1>1 DEF Looping, PrepareNode, StartNode, RollbackNode, RolledBack, TickNode
<1>3. call = "destroy"
  BY <1>1, <1>2 DEF StopNode, Drained, TickDownstream, StopBlocked
<1>4. CASE StopNode
  BY <1>3, <1>4, StopNodeSteps
<1>5. CASE Drained \/ TickDownstream \/ StopBlocked
  BY <1>3, <1>5 DEF Drained, TickDownstream, StopBlocked
<1> QED
  BY <1>2, <1>4, <1>5

\* A loop of prepare, start, stop or tick leaves the nodes settled.
LEMMA SettledLooping ==
  ASSUME Inv, Reach, Serving, Settled, Looping
  PROVE  Settled'
<1> USE DEF Inv
<1> TypeOK /\ Control
  OBVIOUS
<1>1. /\ drain_order' = drain_order
      /\ pc' \in ResetPhase => i' = Len(ResetList') /\ Len(ResetList') \in Nat
      /\ pc' = "idle" => state' \notin {"Created", "Stopped"}
      /\ dying' = dying
  BY OnlyOrdered, LoopingEnds
<1>2. dying => call' = "destroy" /\ ~(pc' = "idle" /\ result' = "ok")
  BY LoopingDying
<1>3. pc' = "prepare" => \A k \in i'..Size : node'[drain_order[k]] = "Created"
  <2> SUFFICES ASSUME pc' = "prepare", NEW k \in i'..Size
               PROVE  node'[drain_order[k]] = "Created"
    OBVIOUS
  <2>1. PrepareNode
    BY StopNodeSteps DEF Looping, StartNode, RollbackNode, RolledBack, Drained,
       TickDownstream, StopBlocked, TickNode, FailStart, Enters, Returns
  <2>2. /\ pc = "prepare" /\ i' = i + 1 /\ i \in 1..Size
        /\ \E s : node' = [node EXCEPT ![drain_order[i]] = s]
    <3>1. pc = "prepare" /\ i' = i + 1 /\ i \in 1..Size
      BY <2>1 DEF PrepareNode, FailStart, Enters, TypeOK
    <3>2. \E s : node' = [node EXCEPT ![drain_order[i]] = s]
      BY <2>1, Zenon DEF PrepareNode
    <3> QED
      BY <3>1, <3>2
  <2>3. k \in i..Size /\ k # i /\ k \in 1..Size
    BY <2>2
  <2>4. drain_order[k] # drain_order[i] /\ drain_order[k] \in Node
    BY <2>2, <2>3, DrainOrderFacts
  <2> QED
    BY <2>2, <2>3, <2>4 DEF Settled, TypeOK
<1>4. pc' = "rollback" => \A k \in (i' + 1)..Size : node'[drain_order[k]] \in LetGo
  <2> SUFFICES ASSUME pc' = "rollback", NEW k \in (i' + 1)..Size
               PROVE  node'[drain_order[k]] \in LetGo
    OBVIOUS
  <2>1. PrepareNode \/ StartNode \/ RollbackNode
    BY StopNodeSteps DEF Looping, RolledBack, Drained, TickDownstream, StopBlocked,
       TickNode, Enters, Returns
  <2>2. CASE PrepareNode
    <3>1. PICK o \in Prepare(node[drain_order[i]]) :
             /\ node' = [node EXCEPT ![drain_order[i]] = o.state]
             /\ IF o.status # "ok" THEN FailStart(i - 1)
                ELSE IF i < Size THEN Enters("prepare", i + 1)
                ELSE Enters("start", 1)
      BY <2>2 DEF PrepareNode
    <3>2. pc = "prepare" /\ i \in 1..Size /\ i' = i - 1 /\ o.status # "ok"
      BY <2>2, <3>1 DEF PrepareNode, FailStart, Enters, TypeOK
    <3>3. k \in i..Size /\ drain_order[i] \in Node /\ drain_order[k] \in Node
      BY <3>2, DrainOrderFacts
    <3>4. node[drain_order[i]] = "Created" /\ node[drain_order[k]] = "Created"
      BY <3>2, <3>3 DEF Settled
    <3>5. o.state = "Error"
      BY <3>1, <3>2, <3>4 DEF Prepare, Done, Failed
    <3> QED
      BY <3>1, <3>3, <3>4, <3>5 DEF LetGo, TypeOK
  <2>3. CASE StartNode
    <3>1. i' = Size
      BY <2>3 DEF StartNode, FailStart, Enters, Returns
    <3> QED
      BY <3>1 DEF Size
  <2>4. CASE RollbackNode
    <3>1. pc = "rollback" /\ i \in 1..Size /\ i' = i - 1
      BY <2>4 DEF RollbackNode, Enters, TypeOK
    <3>2. PICK stopped \in Stop(node[drain_order[i]]) : \E o \in Reset(stopped.state) :
             node' = [node EXCEPT ![drain_order[i]] = o.state]
      BY <2>4 DEF RollbackNode
    <3>3. PICK o \in Reset(stopped.state) : node' = [node EXCEPT ![drain_order[i]] = o.state]
      BY <3>2
    <3>4. o.state \in LetGo
      BY <3>2, <3>3 DEF Stop, Reset, Done, Blocked, Failed, LetGo
    <3>5. drain_order[i] \in Node /\ drain_order[k] \in Node /\ k \in i..Size
      BY <3>1 DEF Size, TypeOK
    <3>6. k # i => node[drain_order[k]] \in LetGo
      BY <3>1, <3>5 DEF Settled
    <3> QED
      BY <3>3, <3>4, <3>5, <3>6 DEF TypeOK
  <2> QED
    BY <2>1, <2>2, <2>3, <2>4
<1> QED
  BY <1>1, <1>2, <1>3, <1>4 DEF Settled, Size

\* A reset without an exception leaves the nodes settled.
LEMMA SettledReset ==
  ASSUME Inv, Reach, Settled, ResetNode, ~threw'
  PROVE  Settled'
<1> DEFINE n == ResetTarget
<1>1. /\ drain_order' = drain_order /\ graph' = graph /\ pc' = pc /\ i' = i - 1
      /\ ResetList' = ResetList /\ pc \in ResetPhase /\ i \in 1..Len(ResetList)
      /\ ResetList \in Seq(Node) /\ n = ResetList[i] /\ n \in Node
  BY OneReset
<1>2. PICK o \in Reset(node[n]) : node' = [node EXCEPT ![n] = o.state]
  BY OneReset
<1>3. o.state \in LetGo
  BY <1>2 DEF Reset, Done, Failed, LetGo
<1>4. \A k \in (i' + 1)..Len(ResetList') : node'[ResetList'[k]] \in LetGo
  <2> SUFFICES ASSUME NEW k \in i..Len(ResetList) PROVE node'[ResetList[k]] \in LetGo
    BY <1>1
  <2>1. ResetList[k] \in Node
    BY <1>1
  <2>2. k # i => node[ResetList[k]] \in LetGo
    BY <1>1 DEF Settled
  <2> QED
    BY <1>1, <1>2, <1>3, <2>1, <2>2 DEF Inv, TypeOK
<1>5. call' = call /\ dying' = dying
  BY DEF ResetNode
<1> QED
  BY <1>1, <1>4, <1>5 DEF Settled, ResetPhase

\* However a reset loop ends, it has let every node go.
LEMMA ResetLetsGo ==
  ASSUME Inv, Reach, Settled, ResetEnds
  PROVE  \A n \in Node : node[n] \in LetGo
<1>1. \A k \in 1..Len(ResetList) : node[ResetList[k]] \in LetGo
  BY ResetLoopEnds DEF Settled
<1> QED
  BY <1>1, ResetsAll DEF LetGo

\* Every step without an exception leaves the nodes settled.
LEMMA SettledStep ==
  ASSUME Inv, Reach, Serving, Settled, [Next]_vars, ~threw'
  PROVE  Settled'
<1>1. CASE Client
  BY <1>1, SettledClient
<1>2. CASE Looping
  BY <1>2, SettledLooping
<1>3. CASE ResetNode
  BY <1>3, SettledReset
<1>4. CASE ResetEnds
  <2>1. /\ pc' = "idle" /\ node' = node /\ call' = call /\ dying' = dying
        /\ state' \in {"Stopped", "Error"}
        /\ state' = "Stopped" => \A n \in Node : node[n] = "Created"
        /\ result' = "ok" => state' = "Stopped"
    BY <1>4, ResetLoopEnds, Zenon DEF ResetEnds, ResetState
  <2>2. \A n \in Node : node[n] \in LetGo
    BY <1>4, ResetLetsGo
  <2> QED
    BY <2>1, <2>2 DEF Settled, ResetPhase
<1>5. CASE DestroyCancels
  <2>1. /\ pc = "idle" /\ state' = state /\ call' = "cancel" /\ node' = node
        /\ \/ pc' = "clear"
           \/ pc' = "idle" /\ state = "Stopped"
    BY <1>5 DEF DestroyCancels, CancelBegins, Enters, Returns, pipeVars
  <2>2. pc' \in ResetPhase => i' = Len(ResetList') /\ Len(ResetList') \in Nat
    BY <1>5, ResetBegins
  <2> QED
    BY <2>1, <2>2 DEF Settled, LetGo, ResetPhase
<1>6. CASE HookThrows
  BY <1>6, Zenon DEF HookThrows
<1>7. CASE UNCHANGED vars
  BY <1>7 DEF vars, graphVars, pipeVars, callVars, Settled, ResetList, Size
<1> QED
  BY <1>1, <1>2, <1>3, <1>4, <1>5, <1>6, <1>7 DEF Next, Inside, Looping

\* All that is known of a pipeline in every reachable state.
PipelineInv == Inv /\ Reach /\ Serving /\ (~threw => Settled)

\* Control, frontier, reach and service are an inductive invariant of the pipeline.
THEOREM FullInvariance == Spec => []PipelineInv
<1>1. Init => Reach /\ Serving /\ (~threw => Settled)
  <2>1. Init => Settled
    BY DEF Init, Settled, ResetPhase
  <2> QED
    BY <2>1, ReachInit DEF Init, Serving
<1>2. Inv /\ Reach /\ Serving /\ (~threw => Settled) /\ [Next]_vars =>
        Reach' /\ Serving' /\ (~threw' => Settled')
  BY ReachStep, ServingStep, SettledStep, ThrewStays
<1> QED
  BY <1>1, <1>2, Invariance, PTL DEF Spec, PipelineInv

\* While no hook has thrown, a pipeline that says it is stopped holds no device:
\* every node, of any graph, was reset, whether it drained, was cancelled or was
\* stopped out of an error, and whatever was added in between.
THEOREM StoppedSafety == Spec => []StoppedIsQuiet
<1>1. PipelineInv => StoppedIsQuiet
  BY DEF PipelineInv, Settled, StoppedIsQuiet
<1> QED
  BY <1>1, FullInvariance, PTL

\* While no hook has thrown, the destructor returns with no node still prepared,
\* running or draining, however often its stop failed or was blocked: then it has
\* cancelled.
THEOREM DestroySafety == Spec => []DestroyLeavesQuiet
<1>1. PipelineInv => DestroyLeavesQuiet
  BY DEF PipelineInv, Settled, DestroyLeavesQuiet, StopFellShort, LetGo
<1> QED
  BY <1>1, FullInvariance, PTL

\* While no hook throws, start returns with every node running, or failed with
\* every node let go: the ones it prepared before the failure, and those it never
\* reached.
THEOREM StartAtomic == Spec => StartAllOrNothing
<1>1. PipelineInv => RunningTogether
  BY InvTogether DEF PipelineInv
<1>2. PipelineInv /\ RunningTogether' /\ [Next]_vars =>
        [(pc \in {"start", "prepare", "rollback"} /\ pc' = "idle" /\ ~threw') =>
           \/ state' = "Running" /\ \A n \in Range(graph.nodes) : node'[n] = "Running"
           \/ state' = "Error" /\ \A n \in Node : node'[n] \in {"Created", "Error"}]_vars
  <2> SUFFICES ASSUME PipelineInv, RunningTogether', Next,
                      pc \in {"start", "prepare", "rollback"}, pc' = "idle", ~threw'
               PROVE  \/ state' = "Running" /\ \A n \in Range(graph.nodes) : node'[n] = "Running"
                      \/ state' = "Error" /\ \A n \in Node : node'[n] \in {"Created", "Error"}
    OBVIOUS
  <2> USE DEF PipelineInv
  <2>1. StartNode \/ RolledBack
    <3>1. ~Client /\ ~DestroyCancels
      BY DEF Client, AddNode, Connect, StartCalled, StopCalled, CancelCalled, TickCalled,
         DestroyCalled, DestroyCancels, Idle
    <3>2. ~(PrepareNode \/ RollbackNode)
      BY DEF PrepareNode, RollbackNode, FailStart, Enters
    <3>3. ~(StopNode \/ Drained \/ TickDownstream \/ StopBlocked \/ TickNode \/ ResetNode
              \/ ResetEnds)
      BY Zenon DEF StopNode, Drained, TickDownstream, StopBlocked, TickNode, ResetNode,
         ResetEnds, ResetPhase
    <3>4. ~HookThrows
      BY Zenon DEF HookThrows
    <3> QED
      BY <3>1, <3>2, <3>3, <3>4 DEF Next, Inside
  <2>2. CASE StartNode
    <3>1. state' = "Running" /\ graph' = graph
      BY <2>2 DEF StartNode, FailStart, Enters, graphVars
    <3> QED
      BY <3>1 DEF RunningTogether
  <2>3. CASE RolledBack
    <3>1. pc = "rollback" /\ i = 0 /\ state' = "Error" /\ node' = node
      BY <2>3 DEF RolledBack
    <3>2. Settled
      BY ThrewStays
    <3>3. \A k \in 1..Size : node[drain_order[k]] \in LetGo
      BY <3>1, <3>2 DEF Settled
    <3>4. \A n \in Node : node[n] \in LetGo
      <4> SUFFICES ASSUME NEW n \in Node PROVE node[n] \in LetGo
        OBVIOUS
      <4>1. CASE n \in Range(drain_order)
        BY <3>3, <4>1 DEF Range, Inv, TypeOK, Size
      <4>2. CASE n \notin Range(drain_order)
        BY <4>2 DEF Reach, LetGo
      <4> QED
        BY <4>1, <4>2
    <3> QED
      BY <3>1, <3>4 DEF LetGo
  <2> QED
    BY <2>1, <2>2, <2>3
<1> QED
  BY <1>1, <1>2, FullInvariance, PTL DEF Spec, StartAllOrNothing
=============================================================================
