--------------------------- MODULE PipelineService ---------------------------
(***************************************************************************)
(* What a MediaPipeline promises to its clients: the state it may be in    *)
(* when a call returns, and the status the call returns with.  The nodes,  *)
(* their order and the resumption of a drain are MediaPipeline's own.      *)
(* A call is pending between its first step and its return; nothing else   *)
(* may be called on the pipeline meanwhile.                                *)
(***************************************************************************)

VARIABLES
  state,  \* PipelineState
  call,   \* the last call made
  result  \* the status it returned, "pending" while it has not

vars == <<state, call, result>>

Call == {"start", "stop", "cancel", "tick"}

Rest(status, s) == [status |-> status, state |-> s]

\* Every hard way out of a call that had to touch the nodes: Error, and also for
\* a node that reports kWouldBlock where that is no progress
Broken == {Rest("failed", "Error"), Rest("blocked", "Error")}

\* How each call may end in a pipeline that was in state s
Outcomes(c, s) ==
  CASE c = "start" /\ s = "Running"               -> {Rest("ok", s)}
    [] c = "start" /\ s \in {"Draining", "Error"} -> {Rest("failed", s)}
    [] c = "start" /\ s \in {"Created", "Stopped"} -> {Rest("ok", "Running")} \cup Broken
    [] c = "stop" /\ s \in {"Created", "Stopped"} -> {Rest("ok", "Stopped")}
    [] c = "stop" /\ s \in {"Running", "Draining"} ->
         {Rest("ok", "Stopped"), Rest("blocked", "Draining")} \cup Broken
    [] c = "stop" /\ s = "Error"                  -> {Rest("ok", "Stopped")} \cup Broken
    [] c = "cancel" /\ s = "Stopped"              -> {Rest("ok", s)}
    [] c = "cancel"                               -> {Rest("ok", "Stopped")} \cup Broken
    [] c = "tick" /\ s = "Running"                -> {Rest("ok", s), Rest("failed", "Error")}
    [] OTHER                                      -> {Rest("failed", s)}

Init == state = "Created" /\ call = "stop" /\ result = "none"

\* A call whose first step does not return: stop takes a running pipeline into
\* its drain at once
Begin(c) ==
  /\ result # "pending"
  /\ call' = c /\ result' = "pending"
  /\ state' = IF c = "stop" /\ state = "Running" THEN "Draining" ELSE state

Return ==
  /\ result = "pending"
  /\ \E o \in Outcomes(call, state) : state' = o.state /\ result' = o.status
  /\ UNCHANGED call

\* A call that returns at once
Immediate(c) ==
  /\ result # "pending"
  /\ call' = c
  /\ \E o \in Outcomes(c, state) : state' = o.state /\ result' = o.status

\* An exception out of a hook leaves start, stop and tick, not cancel
Throw ==
  /\ result = "pending" /\ call # "cancel"
  /\ result' = "threw"
  /\ UNCHANGED <<state, call>>

Next == (\E c \in Call : Begin(c) \/ Immediate(c)) \/ Return \/ Throw

Spec == Init /\ [][Next]_vars
==============================================================================
