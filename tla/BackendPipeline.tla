--------------------------- MODULE BackendPipeline ---------------------------
(***************************************************************************)
(* The encoding pipeline source -> processor -> encoder -> sink: the ports *)
(* and bounded queues between the nodes, VideoProcessorNode and            *)
(* VideoEncoderNode (the same code over two backends), and the reference   *)
(* backend's bounded, delayed queue.                                       *)
(*                                                                         *)
(* One thread makes every call; an action is one call of a node's tick or  *)
(* stop, as MediaPipeline's loops make them, computed from the calls of    *)
(* ports and backend inside it.  MediaPipeline has the life cycle in full. *)
(* A frame is the session it was created in and its number there.          *)
(***************************************************************************)
EXTENDS Naturals, Sequences

CONSTANTS
  InputCapacity,    \* capacity of every input port, policy kBlock
  QueueCapacity,    \* ReferenceBackendOptions::queue_capacity
  OutputDelay,      \* ReferenceBackendOptions::output_delay, of the encoder
  LostAfter,        \* device_lost_after_submissions, 0 for never
  ResetBlocksOnce,  \* encoder_reset_would_block_once
  Faults,           \* what may go wrong outside the nodes in a call of theirs
  MaxFrames,        \* bound: frames the source creates in a session
  MaxSessions       \* bound: how often the pipeline is started

\* The steps of a call that memory, the mapping of a frame or the metrics can fail:
\* creating a frame, counting it, setting the gauge, the pushes of a port and of a
\* backend, and turning a backend's oldest frame into an output.  The sends of a
\* pending output and of one just received are two steps.  Only "stall" is no
\* failure: the consumer at the end is held up.
Failures == {"create", "count", "gauge", "send", "send_new", "submit", "receive"}

ASSUME CapacityAssumption == {InputCapacity, QueueCapacity} \subseteq Nat \ {0}
ASSUME OptionAssumption ==
  /\ {OutputDelay, LostAfter, MaxFrames, MaxSessions} \subseteq Nat
  /\ ResetBlocksOnce \in BOOLEAN /\ Faults \subseteq Failures \cup {"stall"}

VARIABLES
  nodes,        \* the four nodes with the queues they own
  mode,         \* the pipeline's state_
  drain_index,  \* the nodes the current drain has stopped
  turn, at,     \* the loop of tick or stop that is running, and its position
  session,      \* starts so far
  next_pts,     \* the source's next frame
  delivered,    \* what the sink has taken
  cause         \* history: the step that failed when the pipeline went into error

vars == <<nodes, mode, drain_index, turn, at, session, next_pts, delivered, cause>>

Order    == <<"source", "processor", "encoder", "sink">>
Node     == {Order[k] : k \in 1..4}
Backends == {"processor", "encoder"}
Sink(n)  == CASE n = "source" -> "processor" [] n = "processor" -> "encoder"
              [] n = "encoder" -> "sink"
Delay(n) == IF n = "encoder" THEN OutputDelay ELSE 0

\* Every node as one record; the source and the sink leave most of it unused.
\* A pending frame is a sequence of at most one.
NewNode == [in |-> <<>>, pending_input |-> <<>>, pending_output |-> <<>>,
            drain_started |-> FALSE, backend |-> "Created", queue |-> <<>>,
            accepted |-> 0, reset_blocked |-> FALSE]

\* The result of a call: the nodes it leaves, what the sink consumed, a status
Give(x, status)   == [x EXCEPT !.status = status]
Ok(x)             == Give(x, "ok")
Block(x)          == Give(x, "blocked")
Hard(x)           == Give(x, "failed")
Set(x, n, field, v) == [x EXCEPT !.nodes[n][field] = v]

------------------------------------------------------------------------------
(***************************************************************************)
(* The reference backend and the ports.                                    *)
(***************************************************************************)
HasRoom(queue) == Len(queue) < InputCapacity

\* Mutant: a refused output is forgotten
Refused_Forgotten(x, n) == Block(Set(x, n, "pending_output", <<>>))
Refused(x, n) == Block(x)

\* OutputPort::send of the pending output, which is kept when it is refused
SendPending(x, n) ==
  LET p == x.nodes[n].pending_output
  IN  IF p = <<>> THEN Ok(x)
      ELSE IF ~HasRoom(x.nodes[Sink(n)].in) THEN Refused(x, n)
      ELSE IF x.fault = "send" THEN Hard(x)
      ELSE Ok(Set([x EXCEPT !.nodes[Sink(n)].in = @ \o p], n, "pending_output", <<>>))

\* A frame is due once the delay is covered, and in a drain at once
Available(b, n) ==
  b.queue # <<>> /\ (b.backend = "Draining" \/ Len(b.queue) > Delay(n))

\* No memory for the output, or a frame that cannot be encoded: an encoder is in
\* error from then on
ReceiveFails(x, n) ==
  Hard(IF n = "encoder" THEN Set(x, n, "backend", "Error") ELSE x)

\* receive() into the pending output
Receive(x, n) ==
  LET b == x.nodes[n]
  IN  CASE b.backend \in {"Created", "Error"} -> Hard(x)
        [] b.backend = "Stopped" -> Give(x, "eos")
        [] b.backend \in {"Configured", "Running", "Draining"} ->
             IF Available(b, n) /\ x.fault = "receive" THEN ReceiveFails(x, n)
             ELSE IF Available(b, n)
             THEN Ok(Set(Set(x, n, "pending_output", <<Head(b.queue)>>),
                         n, "queue", Tail(b.queue)))
             ELSE IF b.backend = "Draining"
             THEN Give(Set(x, n, "backend", "Stopped"), "eos")
             ELSE Block(x)

\* Mutant: a configured backend that has had no frame yet refuses it
CanSubmit_OnceRunning(b) == b.backend = "Running"
CanSubmit(b) == b.backend \in {"Configured", "Running"}

\* Mutant: the node submits an accepted frame again
Accepted_StaysPending(b) ==
  [b EXCEPT !.queue = @ \o b.pending_input, !.accepted = @ + 1, !.backend = "Running"]
Accepted(b) ==
  [b EXCEPT !.queue = @ \o b.pending_input, !.pending_input = <<>>,
            !.accepted = @ + 1, !.backend = "Running"]

\* submit() of the pending input, which is kept when the backend is full
SubmitPending(x, n) ==
  LET b == x.nodes[n]
  IN  IF ~CanSubmit(b) THEN Hard(x)
      ELSE IF LostAfter # 0 /\ b.accepted >= LostAfter
      THEN Hard(Set(Set(x, n, "queue", <<>>), n, "backend", "Error"))
      ELSE IF Len(b.queue) >= QueueCapacity THEN Block(x)
      ELSE IF x.fault = "submit" THEN Hard(x)
      ELSE Ok([x EXCEPT !.nodes[n] = Accepted(b)])

\* The next frame of the input queue becomes the pending input
TakeInput(x, n) ==
  [x EXCEPT !.nodes[n].pending_input = <<Head(x.nodes[n].in)>>,
            !.nodes[n].in = Tail(@)]

ReceiveAndSend(x, n) ==
  LET got == Receive(x, n)
  IN  IF got.status # "ok" THEN got
      ELSE IF x.fault = "send_new" /\ HasRoom(x.nodes[Sink(n)].in) THEN Hard(got)
      ELSE SendPending(got, n)

------------------------------------------------------------------------------
(***************************************************************************)
(* VideoProcessorNode and VideoEncoderNode.                                *)
(***************************************************************************)
SubmitNext(x, n) ==
  IF x.nodes[n].pending_input # <<>> THEN SubmitPending(x, n)
  ELSE IF x.nodes[n].in # <<>> THEN SubmitPending(TakeInput(x, n), n)
  ELSE Ok(x)

\* In a tick, a frame just received is gone if its submission fails
TickSubmits(x, n) ==
  LET end == SubmitNext(x, n)
  IN  IF end.status = "failed"
      THEN Set(end, n, "pending_input", x.nodes[n].pending_input) ELSE end

TickBackend(x, n) ==
  LET sent == SendPending(x, n)
      got  == Receive(sent, n)
      full == ReceiveAndSend(sent, n)
  IN  IF sent.status # "ok" THEN sent
      ELSE IF got.status \in {"eos", "failed"} THEN got
      ELSE IF got.status = "ok" /\ full.status # "ok" THEN full
      ELSE TickSubmits(full, n)

\* A drain that has moved one frame on needs another turn
Again(x) == IF x.status = "ok" THEN Block(x) ELSE x

\* Mutant: the drain begins with a frame still pending
FlushInput_SkipsPending(x, n) == Ok(x)
\* Before the drain may begin: a pending or queued input goes in first, and when
\* the backend is full one output is taken out
FlushInput(x, n) ==
  LET b == x.nodes[n]
      tried == SubmitNext(x, n)
      freed == ReceiveAndSend(Ok(tried), n)
  IN  IF b.pending_input = <<>> /\ b.in = <<>> THEN Ok(x)
      ELSE IF b.pending_input = <<>> \/ tried.status # "blocked" THEN Again(tried)
      ELSE IF freed.status = "eos" THEN Hard(freed)
      ELSE Again(freed)

\* Without input left, outputs are taken until there is none, then the backend
\* drains: begin_drain is reached with "blocked" from an empty receive only
BeginDrain(x, n) ==
  Ok(Set(Set(x, n, "backend", "Draining"), n, "drain_started", TRUE))

StopBackend(x, n) ==
  LET sent    == SendPending(x, n)
      flushed == FlushInput(sent, n)
      got     == Receive(flushed, n)
      begun   == BeginDrain(got, n)
  IN  IF sent.status # "ok" THEN sent
      ELSE IF sent.nodes[n].drain_started THEN Again(ReceiveAndSend(sent, n))
      ELSE IF flushed.status # "ok" THEN flushed
      ELSE IF got.status = "blocked" THEN Again(ReceiveAndSend(begun, n))
      ELSE Again(ReceiveAndSend(flushed, n))

------------------------------------------------------------------------------
(***************************************************************************)
(* The source and the sink of the reference platform.                      *)
(***************************************************************************)
Frame(x) == [session |-> session, pts |-> x.pts]

\* The next frame is pending before it is counted
Create(x) == [Set(x, "source", "pending_output", <<Frame(x)>>) EXCEPT !.pts = @ + 1]

\* A tick sends the pending frame, or creates one while the budget lasts
TickSource(x) ==
  IF x.nodes["source"].pending_output # <<>> THEN SendPending(x, "source")
  ELSE IF ~x.create THEN Ok(x)
  ELSE IF x.fault = "create" THEN Hard(x)
  ELSE IF x.fault = "count" THEN Hard(Create(x))
  ELSE SendPending(Create(x), "source")

\* The oldest frame is out of the queue before it is counted and the gauge set
Take(x) == [Set(x, "sink", "in", Tail(x.nodes["sink"].in))
              EXCEPT !.out = Append(@, Head(x.nodes["sink"].in))]

\* The reference sink takes one frame a tick; one that is held up takes none
Consume(x) ==
  LET empty == x.nodes["sink"].in = <<>>
  IN  IF empty THEN IF x.fault = "gauge" THEN Hard(x) ELSE Ok(x)
      ELSE IF x.fault = "stall" THEN Block(x)
      ELSE IF x.fault \in {"count", "gauge"} THEN Hard(Take(x))
      ELSE Ok(Take(x))

\* on_stop sets the gauge of an empty queue outside its try: the exception leaves
\* the pipeline draining at the sink, as kWouldBlock does
StopSink(x) ==
  IF x.nodes["sink"].in # <<>> THEN Again(Consume(x))
  ELSE IF x.fault = "gauge" THEN Block(x) ELSE Ok(x)

TickNode(x, n) == CASE n = "source" -> TickSource(x)
                    [] n = "sink" -> Consume(x)
                    [] n \in Backends -> TickBackend(x, n)

StopNode(x, n) == CASE n = "source" -> SendPending(x, n)
                    [] n = "sink" -> StopSink(x)
                    [] n \in Backends -> StopBackend(x, n)

------------------------------------------------------------------------------
(***************************************************************************)
(* MediaPipeline's calls.                                                  *)
(***************************************************************************)
\* on_reset and the backend's reset; the input queue is left as it is.  The
\* injected fault refuses the encoder's first reset, after the node's own part.
ResetNode(b) == [NewNode EXCEPT !.in = b.in, !.reset_blocked = b.reset_blocked]

ResetRefused == ResetBlocksOnce /\ ~nodes["encoder"].reset_blocked

\* The nodes after reset_nodes_reverse
ResetNodes(ns) ==
  [n \in DOMAIN ns |->
     IF n = "encoder" /\ ResetRefused
     THEN [ns[n] EXCEPT !.pending_input = <<>>, !.pending_output = <<>>,
                        !.drain_started = FALSE, !.reset_blocked = TRUE]
     ELSE ResetNode(ns[n])]

\* A node call begins here.  Two choices are not the pipeline's own: whether the
\* source has budget for a frame, and what goes wrong outside.
Begin(create, fault) ==
  [nodes |-> nodes, pts |-> next_pts, out |-> delivered, status |-> "ok",
   create |-> create /\ next_pts <= MaxFrames, fault |-> fault]

Leaves(end) ==
  /\ nodes' = end.nodes /\ next_pts' = end.pts /\ delivered' = end.out
  /\ cause' = IF end.status = "failed" THEN end.fault ELSE "none"

Init ==
  /\ nodes = [n \in Node |-> NewNode]
  /\ mode = "Created" /\ drain_index = 0 /\ turn = "none" /\ at = 0
  /\ session = 0 /\ next_pts = 1 /\ delivered = <<>> /\ cause = "none"

\* A start that succeeds: every backend was reset.  MediaPipeline has the others.
Start ==
  /\ turn = "none" /\ mode \in {"Created", "Stopped"}
  /\ session < MaxSessions
  /\ nodes' = [n \in Node |-> IF n \in Backends THEN [nodes[n] EXCEPT !.backend = "Configured"]
                              ELSE nodes[n]]
  /\ mode' = "Running" /\ session' = session + 1
  /\ UNCHANGED <<drain_index, turn, at, next_pts, delivered, cause>>

TickCalled ==
  /\ turn = "none" /\ mode = "Running"
  /\ turn' = "tick" /\ at' = 1
  /\ UNCHANGED <<nodes, mode, drain_index, session, next_pts, delivered, cause>>

\* The nodes are ticked in topological order, until one fails
TickNext(create, fault) ==
  /\ turn = "tick"
  /\ \E end \in {TickNode(Begin(create, fault), Order[at])} :
         /\ Leaves(end)
         /\ mode' = IF end.status = "failed" THEN "Error" ELSE mode
         /\ IF end.status = "failed" \/ at = 4 THEN turn' = "none" /\ at' = 0
            ELSE turn' = turn /\ at' = at + 1
  /\ UNCHANGED <<drain_index, session>>

StopCalled ==
  /\ turn = "none" /\ mode \in {"Running", "Draining"}
  /\ turn' = "stop"
  /\ mode' = "Draining"
  /\ drain_index' = IF mode = "Running" THEN 0 ELSE drain_index
  /\ UNCHANGED <<nodes, at, session, next_pts, delivered, cause>>

\* A failure during the drain resets the nodes and leaves the pipeline in error
DrainFails(end) ==
  /\ nodes' = ResetNodes(end.nodes) /\ next_pts' = 1 /\ delivered' = end.out
  /\ mode' = "Error" /\ turn' = "none" /\ at' = 0 /\ cause' = end.fault

\* Mutant: the call returns without serving the nodes downstream
TurnAfter_Idle(k) == turn' = "none" /\ at' = 0
\* The nodes from the k-th on are ticked before the call returns kWouldBlock
TurnAfter(k) == IF k <= 4 THEN turn' = "downstream" /\ at' = k
                ELSE turn' = "none" /\ at' = 0

\* Nodes are stopped one after the other, until one asks for another turn
StopNext(fault) ==
  /\ turn = "stop" /\ drain_index < 4
  /\ \E end \in {StopNode(Begin(FALSE, fault), Order[drain_index + 1])} :
         CASE end.status \in {"ok", "eos"} ->
                Leaves(end) /\ drain_index' = drain_index + 1 /\ UNCHANGED <<mode, turn, at>>
           [] end.status = "blocked" ->
                Leaves(end) /\ TurnAfter(drain_index + 2) /\ UNCHANGED <<mode, drain_index>>
           [] end.status = "failed" -> DrainFails(end) /\ UNCHANGED drain_index
  /\ UNCHANGED session

\* tick_running_downstream, on one node
DownstreamNext(fault) ==
  /\ turn = "downstream"
  /\ \E end \in {TickNode(Begin(FALSE, fault), Order[at])} :
         IF end.status = "failed" THEN DrainFails(end)
         ELSE Leaves(end) /\ TurnAfter(at + 1) /\ UNCHANGED mode
  /\ UNCHANGED <<drain_index, session>>

\* Every node is stopped: they are reset in reverse
DrainCompletes ==
  /\ turn = "stop" /\ drain_index = 4
  /\ nodes' = ResetNodes(nodes) /\ next_pts' = 1
  /\ mode' = IF ResetRefused THEN "Error" ELSE "Stopped"
  /\ turn' = "none" /\ drain_index' = 0
  /\ UNCHANGED <<at, session, delivered, cause>>

\* cancel, or a stop that finds an error: the nodes are reset as they are.
\* (Before the first start both only change the state, and are left out.)
Reset ==
  /\ turn = "none" /\ mode \in {"Running", "Draining", "Error"}
  /\ nodes' = ResetNodes(nodes) /\ next_pts' = 1
  /\ mode' = IF ResetRefused THEN "Error" ELSE "Stopped"
  /\ drain_index' = 0 /\ cause' = "none"
  /\ UNCHANGED <<turn, at, session, delivered>>

Upsets == Faults \cup {"none"}

Draining(fault) == StopNext(fault) \/ DownstreamNext(fault)

Next == \/ Start \/ TickCalled \/ StopCalled \/ DrainCompletes \/ Reset
        \/ \E fault \in Upsets : Draining(fault)
        \/ \E fault \in Upsets, create \in BOOLEAN : TickNext(create, fault)

Spec == Init /\ [][Next]_vars

\* A call runs to its end; whoever stops the pipeline calls stop again while it
\* returns kWouldBlock (the reactor's drain loop, the reconciler); and a sink
\* that is asked again and again is not held up, or refused memory, every time.
AtSink == \/ turn = "stop" /\ drain_index = 3
          \/ turn = "downstream" /\ at = 4
FairSpec ==
  /\ Spec
  /\ WF_vars(StopCalled /\ mode = "Draining") /\ WF_vars(DrainCompletes)
  /\ WF_vars(Draining("none")) /\ SF_vars(AtSink /\ Draining("none"))

------------------------------------------------------------------------------
(***************************************************************************)
(* Properties.                                                             *)
(***************************************************************************)
Frames == [session : 1..MaxSessions, pts : 1..MaxFrames]
Elements(s) == {s[k] : k \in DOMAIN s}
InFlight(n) == nodes[n].pending_output \o nodes[n].queue \o nodes[n].pending_input
                 \o nodes[n].in

\* Every frame from the sink back to the source, the oldest first
Flow == delivered \o InFlight("sink") \o InFlight("encoder") \o InFlight("processor")
          \o InFlight("source")

\* Frames never overtake or double: whatever queue, pending slot or backend each
\* is in, they lie in the order they were created, over restarts too.
FlowInOrder ==
  \A i, j \in DOMAIN Flow : i < j =>
     \/ Flow[i].session < Flow[j].session
     \/ Flow[i].session = Flow[j].session /\ Flow[i].pts < Flow[j].pts

\* Backpressure loses nothing and piles nothing up: while the pipeline runs or
\* drains, every frame created since its start is delivered or still on its way,
\* and no queue or pending slot holds more than it has room for.
NothingLost ==
  /\ mode \in {"Running", "Draining"} =>
       \A k \in 1..(next_pts - 1) : [session |-> session, pts |-> k] \in Elements(Flow)
  /\ \A n \in Node :
       /\ Len(nodes[n].in) <= InputCapacity /\ Len(nodes[n].queue) <= QueueCapacity
       /\ Len(nodes[n].pending_input) <= 1 /\ Len(nodes[n].pending_output) <= 1

\* A drain that ends has delivered every frame created since the start.
DrainDeliversAll ==
  [][(turn = "stop" /\ mode' = "Stopped") =>
        \A k \in 1..(next_pts - 1) :
           [session |-> session, pts |-> k] \in Elements(delivered')]_vars

\* Nodes and backends never bring the pipeline into error by how they call each
\* other: behind an error there is a step that failed outside them in that very
\* call, a lost device or a refused reset.  So none of them submits to a backend
\* that drains, and none finds one at its end with input pending.
OnlyFaultsFail ==
  [][(mode \in {"Running", "Draining"} /\ mode' = "Error") =>
        \/ cause' \in Failures
        \/ turn = "stop" /\ drain_index = 4 /\ ResetRefused
        \/ turn = "none" /\ ResetRefused
        \/ LostAfter # 0 /\ \E n \in Backends : nodes[n].accepted = LostAfter]_vars

\* A drain comes to an end, however full the queues are when it begins.
DrainEnds == mode = "Draining" ~> mode # "Draining"

\* What the sink gets belongs to the session that is running: a stop and a start
\* are a clean boundary in the stream.
SessionsDoNotMix ==
  [][\A k \in (Len(delivered) + 1)..Len(delivered') : delivered'[k].session = session]_vars

------------------------------------------------------------------------------
(***************************************************************************)
(* The inductive invariants behind the safety properties.                  *)
(***************************************************************************)
NodeType ==
  [in : Seq(Frames), pending_input : Seq(Frames), pending_output : Seq(Frames), queue : Seq(Frames),
   drain_started : BOOLEAN, reset_blocked : BOOLEAN, accepted : Nat,
   backend : {"Created", "Configured", "Running", "Draining", "Stopped", "Error"}]

\* Every variable has its type.
TypeOK ==
  /\ nodes \in [Node -> NodeType] /\ delivered \in Seq(Frames)
  /\ mode \in {"Created", "Running", "Draining", "Stopped", "Error"}
  /\ turn \in {"none", "tick", "stop", "downstream"}
  /\ drain_index \in 0..4 /\ at \in 0..4
  /\ session \in 0..MaxSessions /\ next_pts \in 1..(MaxFrames + 1) /\ cause \in Upsets

\* A backend that takes frames; one that drains, its inputs used up; and one that
\* has drained, with nothing left in its node.
Serving(b) == b.backend \in {"Configured", "Running"} /\ ~b.drain_started
Ending(b)  == b.backend = "Draining" /\ b.drain_started /\ b.pending_input = <<>> /\ b.in = <<>>
Drained(b) == /\ b.backend = "Stopped" /\ b.drain_started /\ b.pending_input = <<>> /\ b.in = <<>>
              /\ b.queue = <<>> /\ b.pending_output = <<>>
Place(n)   == IF n = "processor" THEN 2 ELSE 3

\* A drain goes down the pipeline: behind it the nodes are empty, ahead of it the
\* backends still take frames.
DrainInv ==
  /\ drain_index >= 1 => nodes["source"].pending_output = <<>>
  /\ \A n \in Backends :
       /\ drain_index >= Place(n) => Drained(nodes[n])
       /\ drain_index = Place(n) - 1 => Serving(nodes[n]) \/ Ending(nodes[n])
       /\ drain_index < Place(n) - 1 => Serving(nodes[n])
  /\ drain_index = 4 => nodes["sink"].in = <<>>

\* In each mode, where the loops of tick and stop are and what the backends accept.
PhaseInv ==
  /\ turn = "none" \/ (turn = "tick" /\ mode = "Running" /\ at \in 1..4)
                   \/ (turn \in {"stop", "downstream"} /\ mode = "Draining")
  /\ turn = "downstream" => drain_index < 4 /\ at \in (drain_index + 2)..4
  /\ mode \in {"Created", "Stopped"} =>
       next_pts = 1 /\ \A n \in Backends : ~nodes[n].drain_started
  /\ mode = "Running" => \A n \in Backends : Serving(nodes[n])
  /\ mode = "Draining" => DrainInv
  /\ mode \in {"Running", "Draining"} => session >= 1
  /\ LostAfter # 0 => \A n \in Backends : nodes[n].accepted <= LostAfter
==============================================================================
