---------------------------- MODULE MediaPipeline ----------------------------
(***************************************************************************)
(* MediaPipeline and the MediaNode life cycle: start prepares and starts   *)
(* the nodes in topological order and rolls back when one fails; stop      *)
(* drains them in that order over any number of calls; cancel resets them  *)
(* in reverse; the destructor tries the first and falls back on the second.*)
(*                                                                         *)
(* A pipeline is only ever used by one thread, so nothing interleaves with *)
(* a call: one action is one node call, and what makes the state space is  *)
(* every mixture of hook results over every sequence of client calls.      *)
(* MediaGraph models the graph in full; here it is its nodes, its edges    *)
(* and OrderOf, the order topological_order returns for it.                *)
(***************************************************************************)
EXTENDS Naturals, Sequences, FiniteSets, Functions

CONSTANTS
  Node,     \* the nodes a client may add
  OrderOf   \* topological_order's output for each graph

Edges == {e \in Node \X Node : e[1] # e[2]}
NodeLists == UNION {Injection(1..k, Node) : k \in 0..Cardinality(Node)}
Graphs == {g \in [nodes : NodeLists, edges : SUBSET Edges] :
             \A e \in g.edges : {e[1], e[2]} \subseteq Range(g.nodes)}
Ordered(g) == Len(OrderOf[g]) = Len(g.nodes)

ASSUME NodeAssumption == IsFiniteSet(Node)

\* What MediaGraph promises: a complete order lists the graph's nodes once
\* each, every source before its sinks; there is one without edges, and it only
\* depends on the edges whether there is.
ASSUME OrderAssumption ==
  /\ OrderOf \in [Graphs -> Seq(Node)]
  /\ \A g \in Graphs : Ordered(g) =>
        /\ Range(OrderOf[g]) = Range(g.nodes)
        /\ IsInjective(OrderOf[g])
        /\ \A a, b \in DOMAIN OrderOf[g] :
              <<OrderOf[g][a], OrderOf[g][b]>> \in g.edges => a < b
  /\ \A g \in Graphs : g.edges = {} => Ordered(g)
  /\ \A g, h \in Graphs : g.edges = h.edges => (Ordered(g) <=> Ordered(h))

VARIABLES
  graph,        \* graph_: nodes_ in insertion order, and edges_
  node,         \* each node's state_
  state, drain_order, drain_index,
  pc, i,        \* the loop the current call is in, and its position
  failure,      \* whether first_failure is set in the reset loop
  call, result, \* the last call made and the status it returned
  dying,        \* whether the destructor has been entered
  threw         \* whether any hook has thrown so far

graphVars == <<graph, dying, threw>>
pipeVars  == <<state, drain_order, drain_index>>
callVars  == <<pc, i, failure, call, result>>
vars == <<graphVars, node, pipeVars, callVars>>

NodeState     == {"Created", "Prepared", "Running", "Draining", "Stopped", "Error"}
PipelineState == {"Created", "Running", "Draining", "Stopped", "Error"}
ResetPhase    == {"clear", "keep", "fail"}
Phase         == {"idle", "prepare", "start", "rollback", "drain", "downstream",
                  "tick"} \cup ResetPhase
Calls         == {"start", "stop", "cancel", "tick", "destroy"}
Results       == {"none", "ok", "blocked", "failed", "threw"}

------------------------------------------------------------------------------
(***************************************************************************)
(* MediaNode: the outcomes of one call on a node in state s.  "blocked" is *)
(* kWouldBlock (in stop also kNotFound), "failed" any other error.  Only   *)
(* stop and tick take "blocked" for progress: a prepare, start or reset    *)
(* that reports it leaves the node in Error like any other failure, so     *)
(* here it is "failed", and Refusal says what the pipeline may return.     *)
(***************************************************************************)
Done(s)    == [state |-> s, status |-> "ok"]
Blocked(s) == [state |-> s, status |-> "blocked"]
Failed(s)  == [state |-> s, status |-> "failed"]

Prepare(s) == CASE s = "Prepared" -> {Done(s)}
                [] s \in {"Created", "Stopped"} -> {Done("Prepared"), Failed("Error")}
                [] OTHER -> {Failed(s)}

Start(s) == CASE s = "Running" -> {Done(s)}
              [] s = "Prepared" -> {Done("Running"), Failed("Error")}
              [] OTHER -> {Failed(s)}

Stop(s) == IF s \in {"Created", "Stopped"} THEN {Done("Stopped")}
           ELSE {Done("Stopped"), Blocked("Draining"), Failed("Error")}

Reset(s) == IF s = "Created" THEN {Done(s)} ELSE {Done("Created"), Failed("Error")}

\* A reset that throws leaves the state alone; the reset loops catch it
CaughtReset(s) == Reset(s) \cup IF s # "Created" THEN {Failed(s)} ELSE {}

\* kWouldBlock, kNotFound and kEndOfStream count as success wherever tick is called
Tick(s) == IF s = "Running" THEN {Done(s), Failed("Error")} ELSE {Failed(s)}

\* The state a node may be left in when the hook of phase p throws
Thrown(p, s) ==
  CASE p = "rollback" -> {s, "Draining"} \cup {o.state : o \in Stop(s)}
    [] p = "drain" -> {s} \cup IF s \in {"Created", "Stopped"} THEN {} ELSE {"Draining"}
    [] OTHER -> {s}

------------------------------------------------------------------------------
Init ==
  /\ graph = [nodes |-> <<>>, edges |-> {}] /\ dying = FALSE /\ threw = FALSE
  /\ node = [n \in Node |-> "Created"]
  /\ state = "Created" /\ drain_order = <<>> /\ drain_index = 0
  /\ pc = "idle" /\ i = 0 /\ failure = FALSE
  /\ call = "stop" /\ result = "none"

Idle == pc = "idle" /\ ~dying
Returns(status) == pc' = "idle" /\ i' = 0 /\ failure' = FALSE /\ result' = status
Enters(phase, k) == pc' = phase /\ i' = k /\ failure' = FALSE /\ result' = "none"
\* The status of the prepare, start or reset that failed first, passed on as it is
Refusal == {"failed", "blocked"}
Size == Len(drain_order)

Modifiable == state \notin {"Running", "Draining"}

AddNode(n) ==
  /\ Idle /\ Modifiable
  /\ n \notin Range(graph.nodes)
  /\ graph' = [graph EXCEPT !.nodes = Append(@, n)]
  /\ UNCHANGED <<dying, threw, node, pipeVars, callVars>>

\* graph_.connect keeps the edge when the graph still has an order
Accepted(joined) == Ordered(joined)

Connect(source, sink) ==
  /\ Idle /\ Modifiable
  /\ {source, sink} \subseteq Range(graph.nodes)
  /\ source # sink /\ <<source, sink>> \notin graph.edges
  /\ LET joined == [graph EXCEPT !.edges = @ \cup {<<source, sink>>}]
     IN  Accepted(joined) /\ graph' = joined
  /\ UNCHANGED <<dying, threw, node, pipeVars, callVars>>

------------------------------------------------------------------------------
(***************************************************************************)
(* start                                                                   *)
(***************************************************************************)
\* Repeated, refused while draining or in error, or begun: a graph without an
\* order, or without nodes, is an error.
StartCalled ==
  /\ Idle
  /\ call' = "start"
  /\ \/ /\ state = "Running" /\ Returns("ok")
        /\ UNCHANGED pipeVars
     \/ /\ state \in {"Draining", "Error"} /\ Returns("failed")
        /\ UNCHANGED pipeVars
     \/ /\ state \in {"Created", "Stopped"}
        /\ drain_index' = 0
        /\ IF Ordered(graph) /\ graph.nodes # <<>>
           THEN drain_order' = OrderOf[graph] /\ Enters("prepare", 1) /\ UNCHANGED state
           ELSE drain_order' = <<>> /\ state' = "Error" /\ Returns("failed")
  /\ UNCHANGED <<graphVars, node>>

\* Mutants: one node too many, or only those already started
FailStart_OneTooMany(attempted) == Enters("rollback", attempted + 1)
FailStart_StartedOnly(attempted) == Enters("rollback", i)
\* stop_nodes_reverse over the nodes prepared so far
FailStart(prepared) == Enters("rollback", prepared)

PrepareNode ==
  /\ pc = "prepare"
  /\ \E o \in Prepare(node[drain_order[i]]) :
       /\ node' = [node EXCEPT ![drain_order[i]] = o.state]
       /\ IF o.status # "ok" THEN FailStart(i - 1)
          ELSE IF i < Size THEN Enters("prepare", i + 1)
          ELSE Enters("start", 1)
  /\ UNCHANGED <<graphVars, pipeVars, call>>

StartNode ==
  /\ pc = "start"
  /\ \E o \in Start(node[drain_order[i]]) :
       /\ node' = [node EXCEPT ![drain_order[i]] = o.state]
       /\ IF o.status # "ok" THEN FailStart(Size) /\ UNCHANGED state
          ELSE IF i < Size THEN Enters("start", i + 1) /\ UNCHANGED state
          ELSE state' = "Running" /\ Returns("ok")
  /\ UNCHANGED <<graphVars, drain_order, drain_index, call>>

\* Each node is stopped and reset whatever the two calls return
RollbackNode ==
  /\ pc = "rollback" /\ i > 0
  /\ \E stopped \in Stop(node[drain_order[i]]) : \E o \in Reset(stopped.state) :
       node' = [node EXCEPT ![drain_order[i]] = o.state]
  /\ Enters("rollback", i - 1)
  /\ UNCHANGED <<graphVars, pipeVars, call>>

RolledBack ==
  /\ pc = "rollback" /\ i = 0
  /\ state' = "Error" /\ \E status \in Refusal : Returns(status)
  /\ UNCHANGED <<graphVars, node, drain_order, drain_index, call>>

------------------------------------------------------------------------------
(***************************************************************************)
(* stop, cancel and the destructor                                         *)
(***************************************************************************)
StopBegins ==
  \/ /\ state \in {"Created", "Stopped"}
     /\ state' = "Stopped" /\ Returns("ok")
     /\ UNCHANGED <<drain_order, drain_index>>
  \/ /\ state = "Draining"
     /\ Enters("drain", 0)
     /\ UNCHANGED pipeVars
  \/ /\ state \in {"Running", "Error"}
     /\ drain_order' = IF drain_order = <<>> THEN OrderOf[graph] ELSE drain_order
     /\ drain_index' = 0
     /\ IF state = "Error" THEN UNCHANGED state /\ Enters("keep", Len(drain_order'))
        ELSE state' = "Draining" /\ Enters("drain", 0)

StopCalled ==
  /\ Idle
  /\ call' = "stop"
  /\ StopBegins
  /\ UNCHANGED <<graphVars, node>>

\* Mutant: a node that asked for another turn is passed over
Advance_PastBlocked(o) == drain_index + 1
Advance(o) == IF o.status = "ok" THEN drain_index + 1 ELSE drain_index

\* The while loop of stop: one node after the other, each until it is stopped
StopNode ==
  /\ pc = "drain" /\ drain_index < Size
  /\ LET n == drain_order[drain_index + 1]
     IN  \E o \in Stop(node[n]) :
           /\ node' = [node EXCEPT ![n] = o.state]
           /\ drain_index' = Advance(o)
           /\ CASE o.status = "ok" -> Enters("drain", 0)
                [] o.status = "blocked" -> Enters("downstream", drain_index + 2)
                [] o.status = "failed" -> Enters("fail", Size)
  /\ UNCHANGED <<graphVars, state, drain_order, call>>

Drained ==
  /\ pc = "drain" /\ drain_index = Size
  /\ Enters("clear", Size)
  /\ UNCHANGED <<graphVars, node, pipeVars, call>>

\* tick_running_downstream: the nodes after the blocked one keep consuming
TickDownstream ==
  /\ pc = "downstream" /\ i <= Size
  /\ LET n == drain_order[i]
     IN  \/ /\ node[n] # "Running"
            /\ Enters("downstream", i + 1)
            /\ UNCHANGED node
         \/ /\ node[n] = "Running"
            /\ \E o \in Tick(node[n]) :
                 /\ node' = [node EXCEPT ![n] = o.state]
                 /\ IF o.status = "ok" THEN Enters("downstream", i + 1)
                    ELSE Enters("fail", Size)
  /\ UNCHANGED <<graphVars, pipeVars, call>>

StopBlocked ==
  /\ pc = "downstream" /\ i > Size
  /\ Returns("blocked")
  /\ UNCHANGED <<graphVars, node, pipeVars, call>>

\* Without a drain order the nodes are reset in reverse order of their addition
ResetList == IF drain_order = <<>> THEN graph.nodes ELSE drain_order

ResetTarget == ResetList[i]

\* Mutant: a later success hides an earlier failure
Recorded_Last(o) == o.status = "failed"
Recorded(o) == failure \/ o.status = "failed"

ResetNode ==
  /\ pc \in ResetPhase /\ i > 0
  /\ \E o \in CaughtReset(node[ResetTarget]) :
       /\ node' = [node EXCEPT ![ResetTarget] = o.state]
       /\ failure' = Recorded(o)
       /\ threw' = (threw \/ o \notin Reset(node[ResetTarget]))
  /\ i' = i - 1
  /\ UNCHANGED <<graph, dying, pipeVars, pc, call, result>>

ResetFails == failure \/ pc = "fail"

\* Mutant: a drain that failed but could be reset counts as stopped
ResetState_Stopped == IF failure THEN "Error" ELSE "Stopped"
ResetState == IF ResetFails THEN "Error" ELSE "Stopped"

\* The three ends of a reset loop: after a drain or in cancel ("clear"), in a
\* stop that found an error ("keep"), after a drain that failed ("fail")
ResetEnds ==
  /\ pc \in ResetPhase /\ i = 0
  /\ state' = ResetState
  /\ \E status \in IF pc = "fail" THEN {"failed"} ELSE IF failure THEN Refusal ELSE {"ok"} :
        Returns(status)
  /\ IF pc = "clear" /\ ~failure THEN drain_order' = <<>> /\ drain_index' = 0
     ELSE UNCHANGED <<drain_order, drain_index>>
  /\ UNCHANGED <<graphVars, node, call>>

CancelBegins ==
  /\ call' = "cancel"
  /\ IF state = "Stopped" THEN Returns("ok") ELSE Enters("clear", Len(ResetList))
  /\ UNCHANGED <<graph, threw, node, pipeVars>>

CancelCalled == Idle /\ CancelBegins /\ UNCHANGED dying

DestroyCalled ==
  /\ Idle
  /\ dying' = TRUE
  /\ call' = "destroy"
  /\ StopBegins
  /\ UNCHANGED <<graph, threw, node>>

\* Mutant: the destructor only stops
StopFellShort_Never == FALSE
StopFellShort == call = "destroy" /\ result # "ok"

DestroyCancels ==
  /\ pc = "idle" /\ dying
  /\ StopFellShort
  /\ CancelBegins
  /\ UNCHANGED dying

------------------------------------------------------------------------------
TickCalled ==
  /\ Idle
  /\ call' = "tick"
  /\ IF state = "Running" THEN Enters("tick", 1) ELSE Returns("failed")
  /\ UNCHANGED <<graphVars, node, pipeVars>>

\* Mutant: a node's hard error is returned but does not stop the pipeline
TickState_Kept(o) == state
TickState(o) == IF o.status = "ok" THEN state ELSE "Error"

TickNode ==
  /\ pc = "tick"
  /\ LET order == OrderOf[graph]
     IN  \E o \in Tick(node[order[i]]) :
           /\ node' = [node EXCEPT ![order[i]] = o.state]
           /\ state' = TickState(o)
           /\ IF o.status # "ok" THEN Returns("failed")
              ELSE IF i < Len(order) THEN Enters("tick", i + 1)
              ELSE Returns("ok")
  /\ UNCHANGED <<graphVars, drain_order, drain_index, call>>

\* The node the current phase is about to call
Current == CASE pc = "drain" -> drain_order[drain_index + 1]
             [] pc = "tick" -> OrderOf[graph][i]
             [] OTHER -> drain_order[i]

\* An exception leaves start, stop or tick where it is; the pipeline's state
\* and drain order stay as they were
HookThrows ==
  /\ pc \in {"prepare", "start", "rollback", "drain", "downstream", "tick"}
  /\ pc = "drain" => drain_index < Size
  /\ pc = "rollback" => i > 0
  /\ pc = "downstream" => i <= Size
  /\ \E s \in Thrown(pc, node[Current]) : node' = [node EXCEPT ![Current] = s]
  /\ threw' = TRUE
  /\ Returns("threw")
  /\ UNCHANGED <<graph, dying, pipeVars, call>>

------------------------------------------------------------------------------
Client == \/ \E n \in Node : AddNode(n) \/ \E m \in Node : Connect(n, m)
          \/ StartCalled \/ StopCalled \/ CancelCalled \/ TickCalled \/ DestroyCalled

Inside == \/ PrepareNode \/ StartNode \/ RollbackNode \/ RolledBack
          \/ StopNode \/ Drained \/ TickDownstream \/ StopBlocked
          \/ ResetNode \/ ResetEnds \/ DestroyCancels \/ TickNode \/ HookThrows

Next == Client \/ Inside

Spec == Init /\ [][Next]_vars

------------------------------------------------------------------------------
(***************************************************************************)
(* Properties.                                                             *)
(***************************************************************************)

\* Every variable has its type.
TypeOK ==
  /\ graph \in Graphs /\ Ordered(graph)
  /\ node \in [Node -> NodeState] /\ state \in PipelineState
  /\ drain_order \in Seq(Node) /\ drain_index \in 0..Size
  /\ pc \in Phase /\ i \in Nat /\ failure \in BOOLEAN
  /\ pc \in {"prepare", "start"} => i \in 1..Size
  /\ pc = "rollback" => i \in 0..Size
  /\ pc \in ResetPhase => i \in 0..Len(ResetList)
  /\ pc = "downstream" => i \in 1..(Size + 1)
  /\ pc = "tick" => i \in 1..Len(OrderOf[graph])
  /\ call \in Calls /\ result \in Results /\ dying \in BOOLEAN /\ threw \in BOOLEAN

\* A pipeline that says it is running has every one of its nodes running: no
\* mixture of rollbacks, failed ticks and additions leaves one behind.
RunningTogether ==
  state = "Running" /\ pc = "idle" => \A n \in Range(graph.nodes) : node[n] = "Running"

\* While no hook throws, a stopped pipeline holds nothing: every node was reset,
\* however it got there (drained, cancelled, or stopped out of an error).
StoppedIsQuiet ==
  ~threw /\ state = "Stopped" /\ pc = "idle" => \A n \in Node : node[n] = "Created"

\* While it drains, the nodes before drain_index_ are stopped, those after it
\* still run, and only the one in between is on its way: what stop continues
\* from on its next call.
DrainFrontier ==
  state = "Draining" /\ pc \in {"idle", "drain", "downstream"} =>
     \A k \in 1..Size :
        /\ k <= drain_index => node[drain_order[k]] = "Stopped"
        /\ k = drain_index + 1 => node[drain_order[k]] \in {"Running", "Draining"}
        /\ k > drain_index + 1 => node[drain_order[k]] = "Running"

\* While no hook throws, start is all or nothing: it returns with every node
\* running, or failed with every node let go, those that only prepared included.
StartAllOrNothing ==
  [][(pc \in {"start", "prepare", "rollback"} /\ pc' = "idle" /\ ~threw') =>
        \/ state' = "Running" /\ \A n \in Range(graph.nodes) : node'[n] = "Running"
        \/ state' = "Error" /\ \A n \in Node : node'[n] \in {"Created", "Error"}]_vars

\* While no hook throws, the destructor returns with no node still prepared,
\* running or draining.
DestroyLeavesQuiet ==
  ~threw /\ pc = "idle" /\ dying /\ ~StopFellShort =>
     \A n \in Node : node[n] \in {"Created", "Error"}

\* A cancel or an error's stop that has run its resets and succeeded leaves no
\* node out, whatever threw, and whether it was added or connected before or
\* after the drain order was computed.
ResetReachesAll ==
  [][(pc \in ResetPhase /\ state' = "Stopped" /\ pc' = "idle") =>
        \A n \in Node : node'[n] = "Created"]_vars

\* What the clients of a pipeline go by: its state between calls and the status
\* of each call, as PipelineService allows them.
Service == INSTANCE PipelineService WITH
             call   <- IF call = "destroy" THEN "stop" ELSE call,
             result <- IF pc = "idle" THEN result ELSE "pending"

\* Whatever its nodes do, and over any number of calls, a pipeline moves and
\* answers as its clients (the reconciler, the reactor, the platforms) assume.
KeepsService == Service!Spec
==============================================================================
