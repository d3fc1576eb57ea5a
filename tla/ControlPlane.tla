---------------------------- MODULE ControlPlane ----------------------------
(***************************************************************************)
(* The control plane around one pipeline: commands write the desired state,*)
(* the reconciler drives the pipeline towards it and publishes the actual  *)
(* state, and a platform (SimulatedPlatform or ReferenceMediaPlatform)     *)
(* adds health, runtime failures and the rebuilding of a failed pipeline.  *)
(*                                                                         *)
(* One thread owns the pipeline and calls initialize, reconcile_once, tick *)
(* and reset_pipeline; dispatch and query come from any other, between any *)
(* two store writes of a call.  The pipeline is PipelineService's.         *)
(***************************************************************************)
EXTENDS Naturals, Sequences

CONSTANT MaxTrouble  \* how often a node may fail or ask for more time, or memory run out

ASSUME TroubleAssumption == MaxTrouble \in Nat

VARIABLES
  platform,  \* which of the two platforms this is
  setup,     \* "none", "done" once initialized_, "spoiled" by a half-done initialize
  pipeline,  \* the state of pipeline_, "none" while the pointer is null
  desired,   \* desired_: the pipeline's state key
  actual,    \* actual_: the pipeline's state and error keys
  health,    \* health_: the "pipeline" component
  pc, who,   \* where the owning thread is, and in which call
  target,    \* the desired state reconcile_once has read
  todo,      \* the store writes the current step still has to make
  status,    \* the status so far of the call
  trouble,   \* what is left of MaxTrouble
  starved    \* whether memory ever ran out while a state was being published

storeVars == <<desired, actual>>
callVars  == <<pc, who, target, todo, status>>
vars == <<platform, setup, pipeline, storeVars, health, callVars, trouble, starved>>

Service == INSTANCE PipelineService WITH state <- pipeline, call <- who, result <- status

ErrorKeys  == {"error", "provider", "operation", "message"}
Keys       == {"state"} \cup ErrorKeys
Publishing == {"reconciled", "failing", "clearing"}

Init ==
  /\ platform \in {"simulated", "reference"}
  /\ setup = "none"
  /\ pipeline = IF platform = "simulated" THEN "Created" ELSE "none"
  /\ desired = "none" /\ actual = [k \in Keys |-> "none"] /\ health = "none"
  /\ pc = "idle" /\ who = "none" /\ target = "none" /\ todo = <<>> /\ status = "ok"
  /\ trouble = MaxTrouble /\ starved = FALSE

Idle == pc = "idle"
Spend == trouble > 0 /\ trouble' = trouble - 1
Enters(phase, writes, outcome) == pc' = phase /\ todo' = writes /\ status' = outcome
Returns(outcome) == Enters("idle", <<>>, outcome)

\* StateStore::set and erase; an absent key is "none"
Set(key, value) == [key |-> key, value |-> value]
Erase(key) == Set(key, "none")
Applied(write) == [actual EXCEPT ![write.key] = write.value]

------------------------------------------------------------------------------
(***************************************************************************)
(* The pipeline as the two platforms assemble it.                          *)
(***************************************************************************)
\* No node of either platform asks for time in prepare or start; the simulated
\* ones only ever fail in a tick
Expected(c) == IF platform = "simulated" /\ c # "tick" THEN {"ok"}
               ELSE IF c = "start" THEN {"ok", "failed"} ELSE {"ok", "blocked", "failed"}

\* A refusal by state is the only outcome there is; any other that is not ok is trouble
Ends(c, o) ==
  LET outcomes == Service!Outcomes(c, pipeline) IN
  /\ \/ outcomes = {o} /\ UNCHANGED trouble
     \/ /\ outcomes # {o} /\ o.status \in Expected(c)
        /\ IF o.status = "ok" THEN UNCHANGED trouble ELSE Spend
  /\ pipeline' = o.state

\* build_pipeline fails before pipeline_ is set, or after it, in a store write
BuildFails ==
  /\ Spend /\ health' = "error"
  /\ \/ pipeline' = "none" /\ UNCHANGED starved
     \/ pipeline' = "Created" /\ starved' = TRUE

\* A second initialize meets the nodes or the frozen registry of the first
Initialize ==
  /\ Idle /\ setup = "none"
  /\ \/ setup' = "done" /\ pipeline' = "Created" /\ health' = "ok" /\ UNCHANGED trouble
        /\ UNCHANGED starved
     \/ /\ setup' = "spoiled"
        /\ IF platform = "simulated" THEN Spend /\ UNCHANGED <<pipeline, health, starved>>
           ELSE BuildFails
  /\ UNCHANGED <<platform, storeVars, callVars>>

\* PipelineCommandHandler, from any thread and at any time
Dispatch(command) ==
  /\ setup = "done"
  /\ desired' = command
  /\ UNCHANGED <<platform, setup, pipeline, actual, health, callVars, trouble, starved>>

------------------------------------------------------------------------------
(***************************************************************************)
(* PipelineReconciler::reconcile_once                                      *)
(***************************************************************************)
ReconcileCalled ==
  /\ Idle /\ setup = "done" /\ pipeline # "none"
  /\ pc' = "reconcile" /\ who' = "reconcile"
  /\ UNCHANGED <<platform, setup, pipeline, storeVars, health, target, todo, status,
                 trouble, starved>>

PublishFailure == <<Set("state", "error"), Set("error", "set")>>

\* Mutant: the error key goes only after the state is published
Converged_StateFirst(state) == <<Set("state", state), Erase("error")>>
Converged(state) == <<Erase("error"), Set("state", state)>>

\* Mutant: a drain that needs another call is taken for done
Publication_Done(o) == IF o.status = "failed" THEN PublishFailure ELSE Converged(target')
Publication(o) == CASE o.status = "ok" -> Converged(target')
                    [] o.status = "blocked" -> <<Set("state", "draining")>>
                    [] o.status = "failed" -> PublishFailure

\* Mutant: a pipeline in error takes no further commands
InEffect_OrError == actual.state \in {desired, "error"}
InEffect == actual.state = desired

\* One read of the desired state, the comparison with the last published one, and
\* the call it leads to; the publication follows key by key
ReconcileOnce ==
  /\ pc = "reconcile"
  /\ target' = desired
  /\ CASE desired = "none" ->
            Enters("reconciled", <<>>, "failed") /\ UNCHANGED <<pipeline, trouble>>
       [] desired # "none" /\ InEffect ->
            Enters("reconciled", <<Erase("error")>>, "ok") /\ UNCHANGED <<pipeline, trouble>>
       [] OTHER ->
            LET c == IF desired = "running" THEN "start" ELSE "stop" IN
            \E o \in Service!Outcomes(c, pipeline) :
              Ends(c, o) /\ Enters("reconciled", Publication(o), o.status)
  /\ UNCHANGED <<platform, setup, storeVars, health, who, starved>>

------------------------------------------------------------------------------
(***************************************************************************)
(* The platform around it: store writes, health, and runtime failures.     *)
(***************************************************************************)
PublishRuntimeFailure ==
  PublishFailure \o <<Set("provider", "set"), Set("operation", "set"), Set("message", "set")>>

ClearRuntimeErrors ==
  <<Erase("error"), Erase("provider"), Erase("operation"), Erase("message")>>

StoreWrite ==
  /\ pc \in Publishing /\ todo # <<>>
  /\ actual' = Applied(Head(todo))
  /\ todo' = Tail(todo)
  /\ UNCHANGED <<platform, setup, pipeline, desired, health, pc, who, target, status,
                 trouble, starved>>

\* Memory runs out: set fails for a new key or a message, or the key's name
\* cannot be built, which leaves reconcile_once as an exception.  Neither a
\* runtime failure nor the clearing of errors reports on health then.
StoreStarves ==
  /\ pc \in Publishing /\ todo # <<>>
  /\ Spend /\ starved' = TRUE
  /\ LET write == Head(todo)
         setFails == write.value # "none" /\ (write.key = "state" => actual.state = "none")
     IN  IF pc = "reconciled"
         THEN \/ setFails /\ Enters("reconciled", <<>>, "failed")
              \/ Returns("threw")
         ELSE Returns("failed")
  /\ UNCHANGED <<platform, setup, pipeline, storeVars, health, who, target>>

\* What the platform makes of the reconciler's status
Reconciled ==
  /\ pc = "reconciled" /\ todo = <<>>
  /\ CASE platform = "simulated" ->
            Returns(status) /\ health' = IF status = "ok" THEN "ok" ELSE "error"
       [] platform = "reference" /\ status = "ok" ->
            Enters("clearing", ClearRuntimeErrors, "ok") /\ UNCHANGED health
       [] platform = "reference" /\ status # "ok" /\ who = "reset" ->
            Enters("failing", PublishRuntimeFailure, status) /\ UNCHANGED health
       [] OTHER ->
            Returns(status) /\ health' = IF status = "blocked" THEN "ok" ELSE "error"
  /\ UNCHANGED <<platform, setup, pipeline, storeVars, who, target, trouble, starved>>

FailurePublished ==
  /\ pc = "failing" /\ todo = <<>>
  /\ Returns(status) /\ health' = "error"
  /\ UNCHANGED <<platform, setup, pipeline, storeVars, who, target, trouble, starved>>

ErrorsCleared ==
  /\ pc = "clearing" /\ todo = <<>>
  /\ Returns("ok") /\ health' = "ok"
  /\ UNCHANGED <<platform, setup, pipeline, storeVars, who, target, trouble, starved>>

\* SimulatedPlatform::tick reports on health only, and well of no ticks at all
SimulatedTick ==
  /\ Idle /\ setup = "done" /\ platform = "simulated"
  /\ who' = "tick"
  /\ \/ Returns("ok") /\ health' = "ok" /\ UNCHANGED <<pipeline, trouble>>
     \/ \E o \in Service!Outcomes("tick", pipeline) :
          /\ Ends("tick", o) /\ Returns(o.status)
          /\ health' = IF o.status = "ok" THEN "ok" ELSE "error"
  /\ UNCHANGED <<platform, setup, storeVars, target, starved>>

\* Mutant: a failed tick is left to health, as in the simulated platform
TickFails_Unpublished == Enters("failing", <<>>, "failed")
TickFails == Enters("failing", PublishRuntimeFailure, "failed")

\* ReferenceMediaPlatform::tick: the frames arrive, fall short, or a turn fails
ReferenceTick ==
  /\ Idle /\ setup = "done" /\ platform = "reference" /\ pipeline = "Running"
  /\ who' = "tick"
  /\ \/ Returns("blocked") /\ UNCHANGED <<pipeline, trouble>>
     \/ \E o \in Service!Outcomes("tick", pipeline) :
          /\ Ends("tick", o)
          /\ IF o.status = "ok" THEN Enters("clearing", ClearRuntimeErrors, "ok")
                                ELSE TickFails
  /\ UNCHANGED <<platform, setup, storeVars, health, target, starved>>

Rebuilt == pipeline' = "Created"

\* reset_pipeline: the failed pipeline is stopped, destroyed and built again, and
\* the new one is reconciled; what fails before that is not published
ResetPipeline ==
  /\ Idle /\ setup = "done" /\ platform = "reference" /\ pipeline = "Error"
  /\ who' = "reset"
  /\ \/ \E o \in Service!Outcomes("stop", pipeline) :
          /\ o.status # "ok" /\ Ends("stop", o)
          /\ Returns(o.status) /\ UNCHANGED <<health, starved>>
     \/ BuildFails /\ Returns("failed")
     \/ /\ Rebuilt
        /\ Enters("reconcile", <<>>, "ok") /\ UNCHANGED <<health, trouble, starved>>
  /\ UNCHANGED <<platform, setup, storeVars, target>>

------------------------------------------------------------------------------
InCall == \/ ReconcileOnce \/ StoreWrite \/ StoreStarves \/ Reconciled
          \/ FailurePublished \/ ErrorsCleared

Next == \/ Initialize \/ ReconcileCalled \/ SimulatedTick \/ ReferenceTick \/ ResetPipeline
        \/ InCall
        \/ \E command \in {"running", "stopped"} : Dispatch(command)

\* A call once made goes on, and the owner keeps calling reconcile_once between
\* whatever else it calls; ticks, resets and commands need never come.
Spec == Init /\ [][Next]_vars /\ WF_vars(InCall) /\ SF_vars(ReconcileCalled)

------------------------------------------------------------------------------
(***************************************************************************)
(* Properties.                                                             *)
(***************************************************************************)

\* The published state is the pipeline's, as far as it speaks of it.
Truthful ==
  /\ actual.state = "running" => pipeline = "Running"
  /\ actual.state = "stopped" => pipeline = "Stopped"
  /\ actual.state = "draining" => pipeline \in {"Draining", "Error"}

\* What the reference platform publishes is so, between its calls and as long as
\* memory lasts: a pipeline published as running runs, one published as stopped
\* is stopped, and one that broke down is at best published as draining.
PublishedTruth ==
  Idle /\ platform = "reference" /\ pipeline # "none" /\ ~starved => Truthful

\* No reader ever finds an error beside a pipeline that runs or has stopped, not
\* even between two writes of a call; after the call, none of its details.
NoErrorBesideRunning ==
  actual.state \in {"running", "stopped"} =>
     /\ actual.error = "none"
     /\ Idle /\ ~starved => \A k \in ErrorKeys : actual[k] = "none"

\* A command to stop is carried out in the end, whatever failed before: while
\* reconcile_once is called, memory lasts and there is a pipeline, its state and
\* the published one become stopped and stay so.
StopConverges ==
  <>[](desired = "stopped" /\ pipeline # "none" /\ ~starved)
     => <>[](actual.state = "stopped" /\ pipeline = "Stopped")

\* A command to start ends, on the reference platform, with a pipeline that runs
\* or with a published error: a start is never silently lost.
StartSettles ==
  <>[](desired = "running" /\ platform = "reference" /\ pipeline # "none" /\ ~starved)
     => <>[](\/ actual.state = "running" /\ pipeline = "Running"
             \/ actual.state = "error" /\ pipeline \in {"Error", "Draining"})

\* docs/architecture/threading-and-lifecycle.md:19: kWouldBlock keeps Draining.
\* A pipeline published as draining is still draining.
DrainingIsDraining ==
  Idle /\ actual.state = "draining" /\ ~starved => pipeline = "Draining"

------------------------------------------------------------------------------
(***************************************************************************)
(* The inductive invariants behind the safety properties.                  *)
(***************************************************************************)
States == {"none", "Created", "Running", "Draining", "Error", "Stopped"}
Values == {"none", "running", "stopped", "draining", "error", "set"}

\* Every variable has its type.
TypeOK ==
  /\ platform \in {"simulated", "reference"} /\ setup \in {"none", "done", "spoiled"}
  /\ pipeline \in States /\ desired \in {"none", "running", "stopped"}
  /\ actual \in [Keys -> Values] /\ health \in {"none", "ok", "error"}
  /\ pc \in {"idle", "reconcile"} \cup Publishing
  /\ who \in {"none", "reconcile", "tick", "reset"}
  /\ target \in {"none", "running", "stopped"}
  /\ todo \in Seq([key : Keys, value : Values])
  /\ status \in {"ok", "blocked", "failed", "threw"}
  /\ trouble \in Nat /\ starved \in BOOLEAN

Reached == /\ target \in {"running", "stopped"} /\ status = "ok"
           /\ pipeline = IF target = "running" THEN "Running" ELSE "Stopped"

\* What reconcile_once has still to write: a state only after the error is gone,
\* and an error only after the state is.
Reconciling ==
  \/ todo = <<>>
  \/ todo = <<Erase("error")>> /\ status = "ok"
  \/ todo = Converged(target) /\ Reached
  \/ todo = <<Set("state", target)>> /\ Reached /\ actual.error = "none"
  \/ todo = <<Set("state", "draining")>> /\ status = "blocked" /\ pipeline \in {"Draining", "Error"}
  \/ todo = PublishFailure /\ status = "failed"
  \/ todo = <<Set("error", "set")>> /\ status = "failed" /\ actual.state = "error"

\* The state goes first when a runtime failure is published.
Failing ==
  /\ \A i \in DOMAIN todo : todo[i].key = "state" <=> todo[i].value = "error"
  /\ \A i \in DOMAIN todo : todo[i].key = "state" => i = 1
  /\ actual.state = "error" \/ (todo # <<>> /\ todo[1].key = "state")

\* Every error key that is set is still to be erased.
Clearing ==
  /\ \A i \in DOMAIN todo : todo[i].key \in ErrorKeys /\ todo[i].value = "none"
  /\ \A key \in ErrorKeys : actual[key] # "none" => \E i \in DOMAIN todo : todo[i].key = key

WritesInv ==
  /\ setup # "done" => Idle /\ actual = [key \in Keys |-> "none"]
  /\ platform = "simulated" => /\ pc \notin {"failing", "clearing"}
                               /\ \A key \in ErrorKeys \ {"error"} : actual[key] = "none"
  /\ pc \in {"reconcile", "reconciled"} => who \in {"reconcile", "reset"}
  /\ pc \in {"idle", "reconcile"} => todo = <<>>
  /\ pc = "reconciled" => Reconciling
  /\ pc = "failing" => Failing
  /\ pc = "clearing" => Clearing
  /\ actual.state \in {"running", "stopped"} => actual.error = "none"

Clean == actual.state \in {"running", "stopped"} => \A key \in ErrorKeys : actual[key] = "none"

\* The details of an error outlast it only until the errors are cleared.
CleanInv ==
  ~starved => /\ pc \in {"idle", "reconcile", "failing"} => Clean
              /\ pc = "reconciled" => Clean \/ (platform = "reference" /\ status = "ok")

\* What is published is so wherever it is not about to be overwritten: a pipeline
\* built anew may still be published as draining until the call is over.
TruthInv ==
  platform = "reference" /\ pipeline # "none" /\ ~starved =>
     /\ pc \in {"idle", "clearing"} => Truthful
     /\ pc = "reconcile" => IF who = "reset"
                            THEN pipeline = "Created" /\ actual.state \notin {"running", "stopped"}
                            ELSE Truthful
     /\ pc = "reconciled" /\ todo \in {<<>>, <<Erase("error")>>} =>
          Truthful \/ (who = "reset" /\ status = "failed" /\ todo = <<>>)
==============================================================================
