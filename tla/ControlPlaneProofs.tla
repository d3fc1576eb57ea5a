-------------------------- MODULE ControlPlaneProofs --------------------------
(***************************************************************************)
(* Proofs about ControlPlane: on both platforms, however often a node      *)
(* fails, asks for more time or memory runs out.                           *)
(***************************************************************************)
EXTENDS ControlPlane, SequenceTheorems, TLAPS

Write == [key : Keys, value : Values]

------------------------------------------------------------------------------
(***************************************************************************)
(* The operators the calls are made of.                                    *)
(***************************************************************************)

\* What the contract of the pipeline says of the three calls made on it.
LEMMA OutcomeFacts ==
  ASSUME NEW s \in States
  PROVE  /\ \A o \in Service!Outcomes("start", s) :
               /\ o.state \in States /\ o.status \in {"ok", "blocked", "failed"}
               /\ o.status = "ok" => o.state = "Running"
               /\ o.status = "blocked" => o.state = "Error"
         /\ \A o \in Service!Outcomes("stop", s) :
               /\ o.state \in States /\ o.status \in {"ok", "blocked", "failed"}
               /\ o.status = "ok" => o.state = "Stopped"
               /\ o.status = "blocked" => o.state \in {"Draining", "Error"}
               /\ s = "Error" /\ o.status # "ok" => o.state = "Error"
         /\ \A o \in Service!Outcomes("tick", s) :
               /\ o.state \in States /\ o.status \in {"ok", "failed"}
               /\ s = "Running" /\ o.status = "ok" => o.state = "Running"
BY DEF States, Service!Outcomes, Service!Rest, Service!Broken

\* A call on the pipeline leaves it in the state of its outcome.
LEMMA EndsFacts ==
  ASSUME TypeOK, NEW c \in {"start", "stop", "tick"}, NEW o \in Service!Outcomes(c, pipeline),
         Ends(c, o)
  PROVE  pipeline' = o.state /\ pipeline' \in States /\ trouble' \in Nat
<1>1. o.state \in States
  BY OutcomeFacts DEF TypeOK
<1> QED
  BY <1>1 DEF Ends, Spend, TypeOK

\* The first write of a sequence and what is left of it.
LEMMA HeadAndTail ==
  ASSUME NEW q \in Seq(Write), q # <<>>
  PROVE  /\ Head(q) = q[1] /\ Head(q) \in Write /\ 1 \in DOMAIN q
         /\ Tail(q) \in Seq(Write) /\ Len(q) \in Nat /\ DOMAIN q = 1..Len(q)
         /\ DOMAIN Tail(q) = 1..(Len(q) - 1)
         /\ \A i \in 1..(Len(q) - 1) : Tail(q)[i] = q[i + 1]
BY HeadTailProperties

\* A write changes the key it names and no other.
LEMMA Applying ==
  ASSUME TypeOK, NEW write \in Write
  PROVE  /\ Applied(write) \in [Keys -> Values]
         /\ Applied(write)[write.key] = write.value
         /\ \A key \in Keys : key # write.key => Applied(write)[key] = actual[key]
<1>1. write.key \in Keys /\ write.value \in Values
  BY DEF Write
<1> QED
  BY <1>1 DEF Applied, TypeOK

\* The keys of the actual state.
LEMMA KeysTold == Keys = {"state", "error", "provider", "operation", "message"}
BY DEF Keys, ErrorKeys

\* The writes of each step, one by one.
LEMMA WritesTold ==
  /\ PublishFailure = <<Set("state", "error"), Set("error", "set")>>
  /\ PublishRuntimeFailure = <<Set("state", "error"), Set("error", "set"), Set("provider", "set"),
                               Set("operation", "set"), Set("message", "set")>>
  /\ PublishFailure \in Seq(Write) /\ PublishRuntimeFailure \in Seq(Write)
  /\ ClearRuntimeErrors \in Seq(Write)
  /\ \A key \in Keys : Erase(key) \in Write
  /\ \A key \in Keys, value \in Values : Set(key, value) \in Write
<1> USE KeysTold
<1>1. \A key \in Keys, value \in Values : Set(key, value) \in Write
  BY DEF Set, Write
<1>2. \A key \in Keys : Erase(key) \in Write
  BY <1>1 DEF Erase, Values
<1>3. PublishFailure = <<Set("state", "error"), Set("error", "set")>>
  BY DEF PublishFailure
<1>4. /\ Set("state", "error") \in Write /\ Set("error", "set") \in Write
      /\ Set("provider", "set") \in Write /\ Set("operation", "set") \in Write
      /\ Set("message", "set") \in Write
  BY <1>1 DEF Values
<1>5. PublishRuntimeFailure = <<Set("state", "error"), Set("error", "set"),
         Set("provider", "set"), Set("operation", "set"), Set("message", "set")>>
  <2> DEFINE first == <<Set("state", "error"), Set("error", "set")>>
             rest  == <<Set("provider", "set"), Set("operation", "set"), Set("message", "set")>>
             all   == <<Set("state", "error"), Set("error", "set"), Set("provider", "set"),
                        Set("operation", "set"), Set("message", "set")>>
  <2>1. first \in Seq(Write) /\ rest \in Seq(Write) /\ all \in Seq(Write)
    BY <1>4
  <2>2. Len(first) = 2 /\ Len(rest) = 3 /\ Len(all) = 5
    OBVIOUS
  <2>3. /\ all[1] = first[1] /\ all[2] = first[2]
        /\ all[3] = rest[1] /\ all[4] = rest[2] /\ all[5] = rest[3]
    OBVIOUS
  <2>4. PublishRuntimeFailure = first \o rest
    BY <1>3 DEF PublishRuntimeFailure
  <2> HIDE DEF first, rest, all
  <2>5. /\ first \o rest \in Seq(Write) /\ Len(first \o rest) = Len(first) + Len(rest)
        /\ \A i \in 1..(Len(first) + Len(rest)) :
              (first \o rest)[i] = IF i <= Len(first) THEN first[i] ELSE rest[i - Len(first)]
    BY <2>1, ConcatProperties, Zenon
  <2>6. Len(first \o rest) = Len(all) /\ \A i \in 1..Len(first \o rest) : (first \o rest)[i] = all[i]
    <3>1. \A i \in 1..5 : i = 1 \/ i = 2 \/ i = 3 \/ i = 4 \/ i = 5
      OBVIOUS
    <3>2. /\ (first \o rest)[1] = all[1] /\ (first \o rest)[2] = all[2]
          /\ (first \o rest)[3] = all[3] /\ (first \o rest)[4] = all[4]
          /\ (first \o rest)[5] = all[5]
      BY <2>2, <2>3, <2>5
    <3>3. Len(first \o rest) = 5
      BY <2>2, <2>5
    <3> QED
      BY <2>2, <3>1, <3>2, <3>3
  <2>7. first \o rest = all
    BY <2>1, <2>5, <2>6, SeqEqual, Zenon
  <2> QED
    BY <2>4, <2>7 DEF all
<1>6. PublishFailure \in Seq(Write) /\ PublishRuntimeFailure \in Seq(Write)
  BY <1>3, <1>4, <1>5
<1>7. ClearRuntimeErrors \in Seq(Write)
  BY <1>2 DEF ClearRuntimeErrors
<1> QED
  BY <1>1, <1>2, <1>3, <1>5, <1>6, <1>7, Zenon

\* The three things reconcile_once may do: refuse, find the state published
\* already, or make a call and prepare the publication of its outcome.
LEMMA ReconcileFacts ==
  ASSUME TypeOK, ReconcileOnce
  PROVE  /\ pc = "reconcile" /\ pc' = "reconciled" /\ target' = desired
         /\ pipeline' \in States /\ trouble' \in Nat
         /\ \/ todo' = <<>> /\ status' = "failed" /\ pipeline' = pipeline
            \/ /\ todo' = <<Erase("error")>> /\ status' = "ok" /\ pipeline' = pipeline
               /\ actual.state = desired /\ desired \in {"running", "stopped"}
            \/ /\ todo' = Converged(desired) /\ status' = "ok"
               /\ desired \in {"running", "stopped"}
               /\ pipeline' = IF desired = "running" THEN "Running" ELSE "Stopped"
            \/ /\ todo' = <<Set("state", "draining")>> /\ status' = "blocked"
               /\ pipeline' \in {"Draining", "Error"}
            \/ todo' = PublishFailure /\ status' = "failed"
<1>1. /\ pc = "reconcile" /\ target' = desired /\ desired \in {"none", "running", "stopped"}
      /\ pipeline \in States /\ trouble \in Nat
  BY DEF ReconcileOnce, TypeOK
<1>2. CASE desired = "none"
  BY <1>1, <1>2 DEF ReconcileOnce, Enters
<1>3. CASE desired # "none" /\ InEffect
  BY <1>1, <1>3 DEF ReconcileOnce, Enters, InEffect
<1>4. CASE desired # "none" /\ ~InEffect
  <2> DEFINE c == IF desired = "running" THEN "start" ELSE "stop"
  <2>1. PICK o \in Service!Outcomes(c, pipeline) :
           Ends(c, o) /\ Enters("reconciled", Publication(o), o.status)
    BY <1>4 DEF ReconcileOnce
  <2>2. pipeline' = o.state /\ pipeline' \in States /\ trouble' \in Nat
    BY <2>1, EndsFacts
  <2>3. /\ o.status \in {"ok", "blocked", "failed"}
        /\ o.status = "ok" => o.state = IF desired = "running" THEN "Running" ELSE "Stopped"
        /\ o.status = "blocked" => o.state \in {"Draining", "Error"}
    BY <1>1, <2>1, OutcomeFacts
  <2>4. todo' = Publication(o) /\ status' = o.status /\ pc' = "reconciled"
    BY <2>1 DEF Enters
  <2>5. /\ o.status = "ok" => Publication(o) = Converged(desired)
        /\ o.status = "blocked" => Publication(o) = <<Set("state", "draining")>>
        /\ o.status = "failed" => Publication(o) = PublishFailure
    BY <1>1 DEF Publication
  <2> HIDE DEF c
  <2> QED
    BY <1>1, <1>4, <2>2, <2>3, <2>4, <2>5
<1> QED
  BY <1>1, <1>2, <1>3, <1>4

\* The writes of a convergence are writes.
LEMMA ConvergedTyped ==
  ASSUME NEW state \in Values
  PROVE  Converged(state) \in Seq(Write)
<1>1. Erase("error") \in Write /\ Set("state", state) \in Write
  BY WritesTold, KeysTold
<1> QED
  BY <1>1 DEF Converged

------------------------------------------------------------------------------
(***************************************************************************)
(* Types.                                                                  *)
(***************************************************************************)
LEMMA StarvedTyped ==
  ASSUME starved \in BOOLEAN, Next
  PROVE  starved' \in BOOLEAN
<1>1. CASE Initialize
  BY <1>1, Zenon DEF Initialize, BuildFails
<1>2. CASE ReconcileCalled \/ SimulatedTick \/ ReferenceTick
  BY <1>2, Zenon DEF ReconcileCalled, SimulatedTick, ReferenceTick
<1>3. CASE ResetPipeline
  BY <1>3, Zenon DEF ResetPipeline, BuildFails
<1>4. CASE InCall
  BY <1>4, Zenon DEF InCall, ReconcileOnce, StoreWrite, StoreStarves, Reconciled,
                     FailurePublished, ErrorsCleared
<1>5. CASE \E command \in {"running", "stopped"} : Dispatch(command)
  BY <1>5, Zenon DEF Dispatch
<1> QED
  BY <1>1, <1>2, <1>3, <1>4, <1>5, Zenon DEF Next

\* Every step keeps the types.
LEMMA TypeStep ==
  ASSUME TypeOK, Next
  PROVE  TypeOK'
<1>0. starved' \in BOOLEAN
  BY StarvedTyped DEF TypeOK
<1> USE DEF storeVars, callVars, Enters, Returns, Idle
<1>T. Seq([key : Keys, value : Values]) = Seq(Write) /\ <<>> \in Seq(Write)
  BY DEF Write
<1>1. CASE Initialize
  <2>1. pipeline' \in States /\ trouble' \in Nat /\ health' \in {"none", "ok", "error"}
        /\ setup' \in {"done", "spoiled"}
    BY <1>1 DEF Initialize, BuildFails, Spend, TypeOK, States
  <2> QED
    BY <1>0, <1>1, <2>1 DEF Initialize, TypeOK
<1>2. CASE ReconcileCalled
  BY <1>0, <1>2 DEF ReconcileCalled, TypeOK
<1>3. CASE SimulatedTick
  <2>1. /\ pipeline' \in States /\ trouble' \in Nat /\ health' \in {"ok", "error"}
        /\ status' \in {"ok", "failed"} /\ todo' = <<>> /\ pc' = "idle"
    <3>1. CASE Returns("ok") /\ health' = "ok" /\ UNCHANGED <<pipeline, trouble>>
      BY <3>1 DEF TypeOK
    <3>2. CASE \E o \in Service!Outcomes("tick", pipeline) :
                  /\ Ends("tick", o) /\ Returns(o.status)
                  /\ health' = IF o.status = "ok" THEN "ok" ELSE "error"
      <4>1. PICK o \in Service!Outcomes("tick", pipeline) :
                  /\ Ends("tick", o) /\ Returns(o.status)
                  /\ health' = IF o.status = "ok" THEN "ok" ELSE "error"
        BY <3>2
      <4>2. o.status \in {"ok", "failed"}
        BY <4>1, OutcomeFacts DEF TypeOK
      <4> QED
        BY <4>1, <4>2, EndsFacts
    <3> QED
      BY <1>3, <3>1, <3>2 DEF SimulatedTick
  <2> QED
    BY <1>0, <1>3, <1>T, <2>1 DEF SimulatedTick, TypeOK
<1>4. CASE ReferenceTick
  <2>1. /\ pipeline' \in States /\ trouble' \in Nat /\ pc' \in {"idle"} \cup Publishing
        /\ status' \in {"ok", "blocked", "failed"} /\ todo' \in Seq(Write)
    <3>1. CASE Returns("blocked") /\ UNCHANGED <<pipeline, trouble>>
      BY <1>T, <3>1 DEF TypeOK
    <3>2. CASE \E o \in Service!Outcomes("tick", pipeline) :
                  /\ Ends("tick", o)
                  /\ IF o.status = "ok" THEN Enters("clearing", ClearRuntimeErrors, "ok")
                                        ELSE TickFails
      <4>1. PICK o \in Service!Outcomes("tick", pipeline) :
                  /\ Ends("tick", o)
                  /\ IF o.status = "ok" THEN Enters("clearing", ClearRuntimeErrors, "ok")
                                        ELSE TickFails
        BY <3>2
      <4> QED
        BY <4>1, EndsFacts, WritesTold DEF TickFails, Publishing
    <3> QED
      BY <1>4, <3>1, <3>2 DEF ReferenceTick
  <2> QED
    BY <1>0, <1>4, <1>T, <2>1 DEF ReferenceTick, TypeOK
<1>5. CASE ResetPipeline
  <2>1. /\ pipeline' \in States /\ trouble' \in Nat /\ health' \in {"none", "ok", "error"}
        /\ status' \in {"ok", "blocked", "failed"} /\ todo' = <<>>
        /\ pc' \in {"idle", "reconcile"}
    <3>1. CASE \E o \in Service!Outcomes("stop", pipeline) :
                  /\ o.status # "ok" /\ Ends("stop", o)
                  /\ Returns(o.status) /\ UNCHANGED <<health, starved>>
      <4>1. PICK o \in Service!Outcomes("stop", pipeline) :
                  /\ o.status # "ok" /\ Ends("stop", o)
                  /\ Returns(o.status) /\ UNCHANGED <<health, starved>>
        BY <3>1
      <4>2. o.status \in {"ok", "blocked", "failed"}
        BY <4>1, OutcomeFacts DEF TypeOK
      <4> QED
        BY <4>1, <4>2, EndsFacts DEF TypeOK
    <3>2. CASE BuildFails /\ Returns("failed")
      BY <3>2 DEF BuildFails, Spend, TypeOK, States
    <3>3. CASE /\ Rebuilt
               /\ Enters("reconcile", <<>>, "ok") /\ UNCHANGED <<health, trouble, starved>>
      BY <3>3 DEF Rebuilt, TypeOK, States
    <3> QED
      BY <1>5, <3>1, <3>2, <3>3 DEF ResetPipeline
  <2> QED
    BY <1>0, <1>5, <1>T, <2>1 DEF ResetPipeline, TypeOK
<1>6. CASE ReconcileOnce
  <2>1. todo' \in Seq(Write) /\ status' \in {"ok", "blocked", "failed"}
    <3>1. desired \in Values /\ "draining" \in Values
      BY DEF TypeOK, Values
    <3>2. /\ <<Erase("error")>> \in Seq(Write) /\ <<Set("state", "draining")>> \in Seq(Write)
      <4>1. Erase("error") \in Write /\ Set("state", "draining") \in Write
        BY <3>1, WritesTold, KeysTold
      <4> QED
        BY <4>1
    <3> QED
      BY <1>6, <1>T, <3>1, <3>2, ReconcileFacts, WritesTold, ConvergedTyped
  <2>2. /\ pc' = "reconciled" /\ target' = desired
        /\ pipeline' \in States /\ trouble' \in Nat
    BY <1>6, ReconcileFacts
  <2> QED
    BY <1>0, <1>6, <1>T, <2>1, <2>2 DEF ReconcileOnce, TypeOK, Publishing
<1>7. CASE StoreWrite
  <2>1. todo \in Seq(Write) /\ todo # <<>>
    BY <1>7, <1>T DEF StoreWrite, TypeOK
  <2>2. Head(todo) \in Write /\ Tail(todo) \in Seq(Write)
    BY <2>1, HeadAndTail
  <2>3. actual' \in [Keys -> Values] /\ todo' \in Seq(Write)
    BY <1>7, <2>2, Applying DEF StoreWrite
  <2> QED
    BY <1>0, <1>7, <1>T, <2>3 DEF StoreWrite, TypeOK
<1>8. CASE StoreStarves
  <2>1. /\ pc' \in {"idle"} \cup Publishing /\ todo' = <<>> /\ status' \in {"failed", "threw"}
        /\ trouble' \in Nat
    BY <1>8 DEF StoreStarves, Spend, TypeOK, Publishing
  <2> QED
    BY <1>0, <1>8, <1>T, <2>1 DEF StoreStarves, TypeOK
<1>9. CASE Reconciled
  <2>1. /\ pc' \in {"idle"} \cup Publishing /\ todo' \in Seq(Write)
        /\ status' \in {"ok", status} /\ health' \in {"ok", "error", health}
    BY <1>9, <1>T, WritesTold DEF Reconciled, Publishing
  <2> QED
    BY <1>0, <1>9, <1>T, <2>1 DEF Reconciled, TypeOK
<1>10. CASE FailurePublished \/ ErrorsCleared
  BY <1>0, <1>10, <1>T DEF FailurePublished, ErrorsCleared, TypeOK
<1>11. CASE \E command \in {"running", "stopped"} : Dispatch(command)
  BY <1>0, <1>11 DEF Dispatch, TypeOK
<1> QED
  BY <1>1, <1>2, <1>3, <1>4, <1>5, <1>6, <1>7, <1>8, <1>9, <1>10, <1>11, Zenon DEF Next, InCall

------------------------------------------------------------------------------
(***************************************************************************)
(* The order of the store writes.                                          *)
(***************************************************************************)

\* One write, and what a reader of the store sees of it.
LEMMA WriteFacts ==
  ASSUME TypeOK, StoreWrite
  PROVE  /\ todo \in Seq(Write) /\ todo # <<>> /\ Head(todo) \in Write
         /\ todo' = Tail(todo)
         /\ actual' \in [Keys -> Values] /\ actual'[Head(todo).key] = Head(todo).value
         /\ \A key \in Keys : key # Head(todo).key => actual'[key] = actual[key]
         /\ UNCHANGED <<platform, setup, pipeline, desired, pc, who, target, status, starved>>
<1>1. todo \in Seq(Write) /\ todo # <<>>
  BY DEF StoreWrite, TypeOK, Write
<1>2. Head(todo) \in Write
  BY <1>1, HeadAndTail
<1>3. actual' = Applied(Head(todo)) /\ todo' = Tail(todo)
      /\ UNCHANGED <<platform, setup, pipeline, desired, pc, who, target, status, starved>>
  BY DEF StoreWrite
<1> QED
  BY <1>1, <1>2, <1>3, Applying

\* reconcile_once: from each of its plans a write leads to another of them.
LEMMA ReconcilingStep ==
  ASSUME TypeOK, Reconciling, StoreWrite,
         actual.state \in {"running", "stopped"} => actual.error = "none"
  PROVE  /\ Reconciling'
         /\ actual'.state \in {"running", "stopped"} => actual'.error = "none"
         /\ \/ /\ todo = <<Erase("error")>> \/ todo = Converged(target)
               /\ actual'.state = actual.state /\ actual'.error = "none"
            \/ /\ todo = <<Set("state", target)>> /\ Reached
               /\ actual'.state = target /\ actual'.error = "none"
            \/ /\ todo = <<Set("state", "draining")>> /\ pipeline \in {"Draining", "Error"}
               /\ actual'.state = "draining"
            \/ actual'.state = "error"
         /\ \A key \in ErrorKeys \ {"error"} : actual'[key] = actual[key]
         /\ todo' = <<>> \/ todo' = <<Set("state", target)>> \/ todo' = <<Set("error", "set")>>
<1> DEFINE w == Head(todo)
<1>1. /\ todo # <<>> /\ todo' = Tail(todo)
      /\ actual'[w.key] = w.value /\ \A key \in Keys : key # w.key => actual'[key] = actual[key]
      /\ UNCHANGED <<pipeline, target, status>>
  BY WriteFacts
<1>2. Reached' <=> Reached
  BY <1>1 DEF Reached
<1>3. "state" \in Keys /\ ErrorKeys \subseteq Keys /\ "error" \in ErrorKeys /\ "state" \notin ErrorKeys
  BY DEF Keys, ErrorKeys
<1>4. \A a, b : /\ Head(<<a>>) = a /\ Tail(<<a>>) = <<>>
                /\ Head(<<a, b>>) = a /\ Tail(<<a, b>>) = <<b>>
  OBVIOUS
<1>5. \A key, value : Set(key, value).key = key /\ Set(key, value).value = value
  BY DEF Set
<1>6. Erase("error").key = "error" /\ Erase("error").value = "none"
  BY <1>5 DEF Erase
<1>7. CASE todo = <<Erase("error")>> /\ status = "ok"
  BY <1>1, <1>3, <1>4, <1>6, <1>7 DEF Reconciling
<1>8. CASE todo = Converged(target) /\ Reached
  <2>1. w = Erase("error") /\ todo' = <<Set("state", target)>>
    BY <1>1, <1>4, <1>8 DEF Converged
  <2>2. actual'.error = "none" /\ actual'.state = actual.state
        /\ \A key \in ErrorKeys \ {"error"} : actual'[key] = actual[key]
    BY <1>1, <1>3, <1>6, <2>1
  <2>3. Reconciling'
    BY <1>1, <1>2, <1>8, <2>1, <2>2 DEF Reconciling
  <2> QED
    BY <1>1, <1>8, <2>1, <2>2, <2>3
<1>9. CASE todo = <<Set("state", target)>> /\ Reached /\ actual.error = "none"
  <2>1. w = Set("state", target) /\ todo' = <<>>
    BY <1>1, <1>4, <1>9
  <2>2. /\ actual'.error = "none" /\ actual'.state = target
        /\ \A key \in ErrorKeys \ {"error"} : actual'[key] = actual[key]
    BY <1>1, <1>3, <1>5, <1>9, <2>1
  <2> QED
    BY <1>9, <2>1, <2>2 DEF Reconciling
<1>10. CASE /\ todo = <<Set("state", "draining")>> /\ status = "blocked"
            /\ pipeline \in {"Draining", "Error"}
  <2>1. w = Set("state", "draining") /\ todo' = <<>>
    BY <1>1, <1>4, <1>10
  <2>2. /\ actual'.state = "draining"
        /\ \A key \in ErrorKeys \ {"error"} : actual'[key] = actual[key]
    BY <1>1, <1>3, <1>5, <2>1
  <2> QED
    BY <1>10, <2>1, <2>2 DEF Reconciling
<1>11. CASE todo = PublishFailure /\ status = "failed"
  <2>1. w = Set("state", "error") /\ todo' = <<Set("error", "set")>>
    BY <1>1, <1>4, <1>11 DEF PublishFailure
  <2>2. /\ actual'.state = "error"
        /\ \A key \in ErrorKeys \ {"error"} : actual'[key] = actual[key]
    BY <1>1, <1>3, <1>5, <2>1
  <2> QED
    BY <1>1, <1>11, <2>1, <2>2 DEF Reconciling
<1>12. CASE todo = <<Set("error", "set")>> /\ status = "failed" /\ actual.state = "error"
  <2>1. w = Set("error", "set") /\ todo' = <<>>
    BY <1>1, <1>4, <1>12
  <2>2. /\ actual'.state = "error"
        /\ \A key \in ErrorKeys \ {"error"} : actual'[key] = actual[key]
    BY <1>1, <1>3, <1>5, <1>12, <2>1
  <2> QED
    BY <2>1, <2>2 DEF Reconciling
<1> QED
  BY <1>1, <1>7, <1>8, <1>9, <1>10, <1>11, <1>12 DEF Reconciling

\* While a failure is published, its writes stay in their order and the state is error.
LEMMA FailingStep ==
  ASSUME TypeOK, Failing, StoreWrite
  PROVE  Failing' /\ actual'.state = "error"
<1>1. /\ todo \in Seq(Write) /\ todo # <<>> /\ todo' = Tail(todo)
      /\ actual'[Head(todo).key] = Head(todo).value
      /\ \A key \in Keys : key # Head(todo).key => actual'[key] = actual[key]
  BY WriteFacts
<1>2. /\ Head(todo) = todo[1] /\ 1 \in DOMAIN todo /\ DOMAIN todo = 1..Len(todo) /\ Len(todo) \in Nat
      /\ DOMAIN Tail(todo) = 1..(Len(todo) - 1)
      /\ \A i \in 1..(Len(todo) - 1) : Tail(todo)[i] = todo[i + 1]
  BY <1>1, HeadAndTail
<1>3. actual'.state = "error"
  <2>1. CASE todo[1].key = "state"
    BY <1>1, <1>2, <2>1 DEF Failing
  <2>2. CASE todo[1].key # "state"
    BY <1>1, <1>2, <2>2, KeysTold DEF Failing
  <2> QED
    BY <2>1, <2>2
<1>4. ASSUME NEW i \in DOMAIN todo'
      PROVE  /\ todo'[i].key = "state" <=> todo'[i].value = "error"
             /\ todo'[i].key = "state" => i = 1
  <2>1. i \in Nat /\ i >= 1 /\ i + 1 \in DOMAIN todo /\ todo'[i] = todo[i + 1]
    BY <1>1, <1>2
  <2>2. todo[i + 1].key # "state"
    BY <2>1 DEF Failing
  <2> QED
    BY <2>1, <2>2 DEF Failing
<1> QED
  BY <1>3, <1>4 DEF Failing

\* While an error is cleared, the state stays as it is.
LEMMA ClearingStep ==
  ASSUME TypeOK, Clearing, StoreWrite
  PROVE  Clearing' /\ actual'.state = actual.state
         /\ (actual'.error = "none" \/ actual'.error = actual.error)
<1>1. /\ todo \in Seq(Write) /\ todo # <<>> /\ todo' = Tail(todo)
      /\ actual'[Head(todo).key] = Head(todo).value
      /\ \A key \in Keys : key # Head(todo).key => actual'[key] = actual[key]
  BY WriteFacts
<1>2. /\ Head(todo) = todo[1] /\ 1 \in DOMAIN todo /\ DOMAIN todo = 1..Len(todo) /\ Len(todo) \in Nat
      /\ DOMAIN Tail(todo) = 1..(Len(todo) - 1)
      /\ \A i \in 1..(Len(todo) - 1) : Tail(todo)[i] = todo[i + 1]
  BY <1>1, HeadAndTail
<1>3. ErrorKeys \subseteq Keys /\ "state" \in Keys /\ "state" \notin ErrorKeys /\ "error" \in ErrorKeys
  BY DEF Keys, ErrorKeys
<1>4. Head(todo).key \in ErrorKeys /\ Head(todo).value = "none"
  BY <1>2 DEF Clearing
<1>5. \A i \in DOMAIN todo' : todo'[i].key \in ErrorKeys /\ todo'[i].value = "none"
  <2> SUFFICES ASSUME NEW i \in DOMAIN todo'
               PROVE  todo'[i].key \in ErrorKeys /\ todo'[i].value = "none"
    OBVIOUS
  <2>1. i + 1 \in DOMAIN todo /\ todo'[i] = todo[i + 1]
    BY <1>1, <1>2
  <2> QED
    BY <2>1 DEF Clearing
<1>6. ASSUME NEW key \in ErrorKeys, actual'[key] # "none"
      PROVE  \E i \in DOMAIN todo' : todo'[i].key = key
  <2>1. key # Head(todo).key /\ actual[key] # "none"
    BY <1>1, <1>3, <1>4, <1>6
  <2>2. PICK i \in DOMAIN todo : todo[i].key = key
    BY <2>1 DEF Clearing
  <2>3. i # 1 /\ i \in Nat
    BY <1>2, <2>1, <2>2
  <2>4. i - 1 \in DOMAIN todo' /\ todo'[i - 1] = todo[i]
    BY <1>1, <1>2, <2>2, <2>3
  <2> QED
    BY <2>2, <2>4
<1>7. Clearing'
  BY <1>5, <1>6 DEF Clearing
<1>8. actual'.state = actual.state
  BY <1>1, <1>3, <1>4
<1>9. actual'.error = "none" \/ actual'.error = actual.error
  BY <1>1, <1>3, <1>4
<1> QED
  BY <1>7, <1>8, <1>9

\* A publication of a runtime failure, and a clearing, begin as they must.
LEMMA Begins ==
  /\ todo' = PublishRuntimeFailure => Failing'
  /\ todo' = ClearRuntimeErrors => Clearing'
<1>1. ASSUME todo' = PublishRuntimeFailure PROVE Failing'
  <2> DEFINE q == PublishRuntimeFailure
  <2>1. /\ q[1] = Set("state", "error") /\ q[2] = Set("error", "set") /\ q[3] = Set("provider", "set")
        /\ q[4] = Set("operation", "set") /\ q[5] = Set("message", "set") /\ DOMAIN q = 1..5
        /\ q # <<>>
    BY WritesTold
  <2>2. \A key, value : Set(key, value).key = key /\ Set(key, value).value = value
    BY DEF Set
  <2>3. \A i \in 1..5 : i = 1 \/ i = 2 \/ i = 3 \/ i = 4 \/ i = 5
    OBVIOUS
  <2> HIDE DEF q
  <2>4. todo' = q
    BY <1>1 DEF q
  <2>5. \A i \in 1..5 : (q[i].key = "state" <=> q[i].value = "error") /\ (q[i].key = "state" => i = 1)
    BY <2>1, <2>2, <2>3
  <2> QED
    BY <2>1, <2>2, <2>4, <2>5 DEF Failing
<1>2. ASSUME todo' = ClearRuntimeErrors PROVE Clearing'
  <2> DEFINE q == ClearRuntimeErrors
  <2>1. /\ q[1] = Erase("error") /\ q[2] = Erase("provider") /\ q[3] = Erase("operation")
        /\ q[4] = Erase("message") /\ DOMAIN q = 1..4
    BY DEF ClearRuntimeErrors
  <2>2. \A key : Erase(key).key = key /\ Erase(key).value = "none"
    BY DEF Erase, Set
  <2>3. \A i \in 1..4 : i = 1 \/ i = 2 \/ i = 3 \/ i = 4
    OBVIOUS
  <2> HIDE DEF q
  <2>4. todo' = q
    BY <1>2 DEF q
  <2>5. \A i \in 1..4 : q[i].key \in ErrorKeys /\ q[i].value = "none"
    BY <2>1, <2>2, <2>3 DEF ErrorKeys
  <2>6. \A key \in ErrorKeys : \E i \in 1..4 : q[i].key = key
    <3>1. q[1].key = "error" /\ q[2].key = "provider" /\ q[3].key = "operation" /\ q[4].key = "message"
      BY <2>1, <2>2
    <3>2. 1 \in 1..4 /\ 2 \in 1..4 /\ 3 \in 1..4 /\ 4 \in 1..4
      OBVIOUS
    <3> QED
      BY <3>1, <3>2 DEF ErrorKeys
  <2> QED
    BY <2>1, <2>4, <2>5, <2>6 DEF Clearing
<1> QED
  BY <1>1, <1>2

\* The writes ahead are always a rest of one of the sequences the reconciler publishes.
LEMMA WritesStep ==
  ASSUME TypeOK, WritesInv, Next
  PROVE  WritesInv'
<1> USE DEF storeVars, callVars, Idle
<1>0. /\ setup # "done" => pc = "idle" /\ actual = [key \in Keys |-> "none"]
      /\ platform = "simulated" => /\ pc \notin {"failing", "clearing"}
                                   /\ \A key \in ErrorKeys \ {"error"} : actual[key] = "none"
      /\ pc \in {"reconcile", "reconciled"} => who \in {"reconcile", "reset"}
      /\ pc \in {"idle", "reconcile"} => todo = <<>>
      /\ pc = "reconciled" => Reconciling
      /\ pc = "failing" => Failing
      /\ pc = "clearing" => Clearing
      /\ actual.state \in {"running", "stopped"} => actual.error = "none"
  BY DEF WritesInv
\* What holds of a step that leaves the published state alone
<1>A. ASSUME actual' = actual, platform' = platform, setup' = setup \/ pc = "idle",
             setup = "done" \/ pc' = "idle",
             pc' \in {"idle", "reconcile", "reconciled", "failing", "clearing"},
             pc' \in {"failing", "clearing"} => platform = "reference",
             pc' \in {"reconcile", "reconciled"} => who' \in {"reconcile", "reset"},
             pc' \in {"idle", "reconcile"} => todo' = <<>>,
             pc' = "reconciled" => Reconciling',
             pc' = "failing" => Failing',
             pc' = "clearing" => Clearing',
             setup' # "done" => setup # "done"
      PROVE  WritesInv'
  BY <1>0, <1>A DEF WritesInv
<1>1. CASE Initialize
  <2>1. setup = "none" /\ pc = "idle" /\ pc' = "idle" /\ todo' = todo /\ actual' = actual
        /\ platform' = platform /\ setup' \in {"done", "spoiled"}
    BY <1>1 DEF Initialize
  <2> QED
    BY <1>0, <2>1 DEF WritesInv
<1>2. CASE ReconcileCalled
  BY <1>0, <1>2, <1>A DEF ReconcileCalled
<1>3. CASE SimulatedTick
  <2>1. pc' = "idle" /\ todo' = <<>>
    BY <1>3, Zenon DEF SimulatedTick, Returns, Enters
  <2> QED
    BY <1>0, <1>3, <1>A, <2>1 DEF SimulatedTick
<1>4. CASE ReferenceTick
  <2>1. \/ pc' = "idle" /\ todo' = <<>>
        \/ pc' = "clearing" /\ todo' = ClearRuntimeErrors
        \/ pc' = "failing" /\ todo' = PublishRuntimeFailure
    BY <1>4, Zenon DEF ReferenceTick, TickFails, Returns, Enters
  <2>2. setup = "done" /\ platform = "reference" /\ actual' = actual /\ platform' = platform
        /\ setup' = setup
    BY <1>4 DEF ReferenceTick
  <2> QED
    BY <1>A, <2>1, <2>2, Begins
<1>5. CASE ResetPipeline
  <2>1. pc' \in {"idle", "reconcile"} /\ todo' = <<>> /\ who' = "reset"
    BY <1>5 DEF ResetPipeline, Returns, Enters
  <2> QED
    BY <1>5, <1>A, <2>1 DEF ResetPipeline
<1>6. CASE ReconcileOnce
  <2>1. pc = "reconcile" /\ pc' = "reconciled" /\ actual' = actual /\ platform' = platform
        /\ setup' = setup /\ who' = who /\ target' = desired
    BY <1>6 DEF ReconcileOnce, Enters
  <2>2. Reconciling'
    <3>1. Converged(desired) = Converged(target')
      BY <2>1
    <3> QED
      BY <1>6, <2>1, <3>1, ReconcileFacts DEF Reconciling, Reached
  <2> QED
    BY <1>0, <1>A, <2>1, <2>2
<1>7. CASE StoreWrite
  <2>0. UNCHANGED <<platform, setup, pc, who>> /\ pc \in Publishing
    BY <1>7, WriteFacts DEF StoreWrite
  <2>1. setup = "done"
    BY <1>0, <2>0 DEF Publishing
  <2>2. CASE pc = "reconciled"
    BY <1>0, <1>7, <2>0, <2>1, <2>2, ReconcilingStep DEF WritesInv
  <2>3. CASE pc = "failing"
    BY <1>0, <1>7, <2>0, <2>1, <2>3, FailingStep DEF WritesInv
  <2>4. CASE pc = "clearing"
    BY <1>0, <1>7, <2>0, <2>1, <2>4, ClearingStep DEF WritesInv
  <2> QED
    BY <2>0, <2>2, <2>3, <2>4 DEF Publishing
<1>8. CASE StoreStarves
  <2>1. todo' = <<>> /\ (pc' = "idle" \/ (pc' = "reconciled" /\ pc = "reconciled"))
        /\ who' = who
    BY <1>8, Zenon DEF StoreStarves, Returns, Enters
  <2>2. Reconciling'
    BY <2>1 DEF Reconciling
  <2>3. setup = "done"
    BY <1>0, <1>8 DEF StoreStarves, Publishing
  <2> QED
    BY <1>0, <1>8, <1>A, <2>1, <2>2, <2>3 DEF StoreStarves
<1>9. CASE Reconciled
  <2>1. \/ pc' = "idle" /\ todo' = <<>>
        \/ platform = "reference" /\ pc' = "clearing" /\ todo' = ClearRuntimeErrors
        \/ platform = "reference" /\ pc' = "failing" /\ todo' = PublishRuntimeFailure
    BY <1>9 DEF Reconciled, Returns, Enters
  <2>2. setup = "done" /\ actual' = actual /\ platform' = platform /\ setup' = setup
    BY <1>0, <1>9 DEF Reconciled
  <2> QED
    BY <1>A, <2>1, <2>2, Begins
<1>10. CASE FailurePublished \/ ErrorsCleared
  <2>1. pc' = "idle" /\ todo' = <<>> /\ actual' = actual /\ platform' = platform /\ setup' = setup
    BY <1>10 DEF FailurePublished, ErrorsCleared, Returns, Enters
  <2> QED
    BY <1>A, <2>1
<1>11. CASE \E command \in {"running", "stopped"} : Dispatch(command)
  <2>1. UNCHANGED <<platform, setup, pipeline, actual, pc, who, target, todo, status>>
    BY <1>11 DEF Dispatch
  <2>2. Reconciling' <=> Reconciling
    BY <2>1 DEF Reconciling, Reached, Converged, PublishFailure, Erase, Set
  <2>3. (Failing' <=> Failing) /\ (Clearing' <=> Clearing)
    BY <2>1 DEF Failing, Clearing
  <2> QED
    BY <1>0, <2>1, <2>2, <2>3 DEF WritesInv
<1> QED
  BY <1>1, <1>2, <1>3, <1>4, <1>5, <1>6, <1>7, <1>8, <1>9, <1>10, <1>11, Zenon DEF Next, InCall

------------------------------------------------------------------------------
(***************************************************************************)
(* What is published is clean and so.                                      *)
(***************************************************************************)
LEMMA CleanStep ==
  ASSUME TypeOK, WritesInv, CleanInv, Next
  PROVE  CleanInv'
<1> USE DEF storeVars, callVars, Idle
<1>0. /\ ~starved /\ pc \in {"idle", "reconcile", "failing"} => Clean
      /\ ~starved /\ pc = "reconciled" => Clean \/ (platform = "reference" /\ status = "ok")
  BY DEF CleanInv
<1>A. ASSUME actual' = actual, starved' \/ (~starved /\ Clean) \/ pc' = "clearing"
      PROVE  CleanInv'
  BY <1>A DEF CleanInv, Clean
<1>1. CASE Initialize
  <2>1. pc = "idle" /\ actual' = actual /\ (starved' \/ starved' = starved)
    BY <1>1, Zenon DEF Initialize, BuildFails
  <2> QED
    BY <1>0, <1>A, <2>1 DEF CleanInv
<1>2. CASE ReconcileCalled \/ SimulatedTick \/ ReferenceTick
  <2>1. pc = "idle" /\ actual' = actual /\ starved' = starved
    BY <1>2, Zenon DEF ReconcileCalled, SimulatedTick, ReferenceTick
  <2> QED
    BY <1>0, <1>A, <2>1 DEF CleanInv
<1>3. CASE ResetPipeline
  <2>1. pc = "idle" /\ actual' = actual /\ (starved' \/ starved' = starved)
    BY <1>3, Zenon DEF ResetPipeline, BuildFails
  <2> QED
    BY <1>0, <1>A, <2>1 DEF CleanInv
<1>4. CASE ReconcileOnce
  <2>1. pc = "reconcile" /\ actual' = actual /\ starved' = starved
    BY <1>4 DEF ReconcileOnce
  <2> QED
    BY <1>0, <1>A, <2>1 DEF CleanInv
<1>5. CASE StoreWrite
  <2>0. /\ pc \in Publishing /\ UNCHANGED <<platform, pc, status, starved>>
        /\ actual.state \in {"running", "stopped"} => actual.error = "none"
    BY <1>5, WriteFacts DEF StoreWrite, WritesInv
  <2>1. CASE pc = "reconciled"
    <3>1. SUFFICES ASSUME ~starved PROVE Clean' \/ (platform = "reference" /\ status = "ok")
      BY <2>0, <2>1 DEF CleanInv
    <3>2. Reconciling /\ platform \in {"simulated", "reference"}
      BY <2>1 DEF WritesInv, TypeOK
    <3>3. CASE actual'.state \notin {"running", "stopped"}
      BY <3>3 DEF Clean
    <3>4. CASE actual'.state \in {"running", "stopped"}
      <4>1. /\ actual'.error = "none"
            /\ \/ actual'.state = actual.state
               \/ Reached
            /\ \A key \in ErrorKeys \ {"error"} : actual'[key] = actual[key]
        BY <1>5, <2>0, <3>2, <3>4, ReconcilingStep
      <4>2. CASE platform = "simulated"
        BY <4>1, <4>2 DEF Clean, WritesInv
      <4>3. CASE platform = "reference" /\ Clean /\ actual'.state = actual.state
        BY <3>4, <4>1, <4>3 DEF Clean
      <4> QED
        BY <1>0, <2>1, <3>1, <3>2, <4>1, <4>2, <4>3 DEF Reached
    <3> QED
      BY <3>3, <3>4
  <2>2. CASE pc = "failing"
    <3>1. actual'.state = "error"
      BY <1>5, <2>2, FailingStep DEF WritesInv
    <3> QED
      BY <3>1 DEF CleanInv, Clean
  <2>3. CASE pc = "clearing"
    BY <2>0, <2>3 DEF CleanInv
  <2> QED
    BY <2>0, <2>1, <2>2, <2>3 DEF Publishing
<1>6. CASE StoreStarves
  BY <1>6 DEF StoreStarves, CleanInv
<1>7. CASE Reconciled
  <2>1. pc = "reconciled" /\ actual' = actual /\ starved' = starved
        /\ (platform = "reference" /\ status = "ok" => pc' = "clearing")
    BY <1>7 DEF Reconciled, Enters
  <2> QED
    BY <1>0, <1>A, <2>1 DEF CleanInv
<1>8. CASE FailurePublished
  <2>1. pc = "failing" /\ actual' = actual /\ starved' = starved
    BY <1>8 DEF FailurePublished
  <2> QED
    BY <1>0, <1>A, <2>1 DEF CleanInv
<1>9. CASE ErrorsCleared
  <2>1. pc = "clearing" /\ todo = <<>> /\ actual' = actual /\ starved' = starved
    BY <1>9 DEF ErrorsCleared
  <2>2. \A key \in ErrorKeys : actual[key] = "none"
    BY <2>1 DEF WritesInv, Clearing
  <2> QED
    BY <2>1, <2>2 DEF CleanInv, Clean
<1>10. CASE \E command \in {"running", "stopped"} : Dispatch(command)
  <2>1. UNCHANGED <<platform, actual, pc, status, starved>>
    BY <1>10 DEF Dispatch
  <2> QED
    BY <2>1 DEF CleanInv, Clean
<1> QED
  BY <1>1, <1>2, <1>3, <1>4, <1>5, <1>6, <1>7, <1>8, <1>9, <1>10, Zenon DEF Next, InCall

\* Between the writes, what is published follows the pipeline.
LEMMA TruthStep ==
  ASSUME TypeOK, WritesInv, TruthInv, Next
  PROVE  TruthInv'
<1> USE DEF storeVars, callVars, Idle
<1>0. platform = "reference" /\ pipeline # "none" /\ ~starved =>
        /\ pc \in {"idle", "clearing"} => Truthful
        /\ pc = "reconcile" /\ who = "reset" =>
             pipeline = "Created" /\ actual.state \notin {"running", "stopped"}
        /\ pc = "reconcile" /\ who # "reset" => Truthful
        /\ pc = "reconciled" /\ todo \in {<<>>, <<Erase("error")>>} =>
             Truthful \/ (who = "reset" /\ status = "failed" /\ todo = <<>>)
  BY DEF TruthInv
\* What holds of a step that leaves the store and the pipeline alone
<1>A. ASSUME actual' = actual, platform' = platform, pipeline' = pipeline,
             \/ starved' \/ pc' = "failing"
             \/ ~starved /\ (platform = "reference" /\ pipeline # "none" => Truthful)
                /\ ~(pc' = "reconcile" /\ who' = "reset")
      PROVE  TruthInv'
  BY <1>A DEF TruthInv, Truthful
<1>1. CASE Initialize
  <2>1. pc' = "idle" /\ setup # "done" /\ actual' = actual
    BY <1>1 DEF Initialize, WritesInv
  <2>2. actual.state = "none"
    BY <2>1, KeysTold DEF WritesInv
  <2> QED
    BY <2>1, <2>2 DEF TruthInv, Truthful
<1>2. CASE ReconcileCalled
  <2>1. pc = "idle" /\ UNCHANGED <<platform, pipeline, actual, starved>> /\ who' = "reconcile"
    BY <1>2 DEF ReconcileCalled
  <2> QED
    BY <1>0, <1>A, <2>1 DEF TruthInv
<1>3. CASE SimulatedTick
  <2>1. platform' = "simulated"
    BY <1>3 DEF SimulatedTick
  <2> QED
    BY <2>1 DEF TruthInv
<1>4. CASE ReferenceTick
  <2>1. /\ pc = "idle" /\ pipeline = "Running" /\ UNCHANGED <<platform, actual, starved>>
        /\ \/ pc' \in {"idle", "clearing"} /\ pipeline' = pipeline
           \/ pc' = "failing"
    <3>1. CASE Returns("blocked") /\ UNCHANGED <<pipeline, trouble>>
      BY <1>4, <3>1 DEF ReferenceTick, Returns, Enters
    <3>2. CASE \E o \in Service!Outcomes("tick", pipeline) :
                  /\ Ends("tick", o)
                  /\ IF o.status = "ok" THEN Enters("clearing", ClearRuntimeErrors, "ok")
                                        ELSE TickFails
      <4>1. PICK o \in Service!Outcomes("tick", pipeline) :
                  /\ Ends("tick", o)
                  /\ IF o.status = "ok" THEN Enters("clearing", ClearRuntimeErrors, "ok")
                                        ELSE TickFails
        BY <3>2
      <4>2. pipeline = "Running"
        BY <1>4 DEF ReferenceTick
      <4>3. pipeline' = o.state /\ (o.status = "ok" => pipeline' = "Running")
        BY <4>1, <4>2, EndsFacts, OutcomeFacts DEF TypeOK
      <4> QED
        BY <1>4, <4>1, <4>2, <4>3 DEF ReferenceTick, TickFails, Enters
    <3> QED
      BY <1>4, <3>1, <3>2 DEF ReferenceTick
  <2>2. CASE pc' = "failing"
    BY <2>2 DEF TruthInv
  <2>3. CASE pc' \in {"idle", "clearing"} /\ pipeline' = pipeline
    BY <1>0, <2>1, <2>3 DEF TruthInv, Truthful
  <2> QED
    BY <2>1, <2>2, <2>3
<1>5. CASE ResetPipeline
  <2>0. pc = "idle" /\ platform = "reference" /\ pipeline = "Error" /\ actual' = actual
        /\ platform' = platform /\ who' = "reset"
    BY <1>5 DEF ResetPipeline
  <2>1. CASE \E o \in Service!Outcomes("stop", pipeline) :
                /\ o.status # "ok" /\ Ends("stop", o)
                /\ Returns(o.status) /\ UNCHANGED <<health, starved>>
    <3>1. PICK o \in Service!Outcomes("stop", pipeline) :
                /\ o.status # "ok" /\ Ends("stop", o)
                /\ Returns(o.status) /\ UNCHANGED <<health, starved>>
      BY <2>1
    <3>2. pipeline' = "Error"
      BY <2>0, <3>1, EndsFacts, OutcomeFacts DEF TypeOK
    <3> QED
      BY <1>0, <2>0, <3>1, <3>2 DEF TruthInv, Truthful, Returns, Enters
  <2>2. CASE BuildFails
    BY <2>2 DEF BuildFails, TruthInv
  <2>3. CASE /\ Rebuilt
             /\ Enters("reconcile", <<>>, "ok") /\ UNCHANGED <<health, trouble, starved>>
    BY <1>0, <2>0, <2>3 DEF TruthInv, Truthful, Rebuilt, Enters
  <2> QED
    BY <1>5, <2>1, <2>2, <2>3 DEF ResetPipeline
<1>6. CASE ReconcileOnce
  <2>0. /\ pc = "reconcile" /\ pc' = "reconciled"
        /\ UNCHANGED <<platform, actual, starved, who>> /\ who \in {"reconcile", "reset"}
    BY <1>6, ReconcileFacts DEF ReconcileOnce, WritesInv
  <2> SUFFICES ASSUME platform = "reference", pipeline' # "none", ~starved,
                      todo' \in {<<>>, <<Erase("error")>>}
               PROVE  Truthful' \/ (who = "reset" /\ status' = "failed" /\ todo' = <<>>)
    BY <2>0 DEF TruthInv
  <2>1. /\ pipeline' = pipeline
        /\ \/ todo' = <<>> /\ status' = "failed"
           \/ actual.state = desired /\ desired \in {"running", "stopped"}
    <3>1. /\ todo' # Converged(desired) /\ todo' # PublishFailure
          /\ todo' # <<Set("state", "draining")>>
      <4>1. /\ Len(Converged(desired)) = 2 /\ Len(PublishFailure) = 2
        BY DEF Converged, PublishFailure
      <4>2. Len(<<>>) = 0 /\ Len(<<Erase("error")>>) = 1 /\ Len(<<Set("state", "draining")>>) = 1
        OBVIOUS
      <4>3. <<Set("state", "draining")>> # <<Erase("error")>>
        <5>1. Set("state", "draining") # Erase("error")
          BY DEF Set, Erase
        <5> QED
          BY <5>1
      <4> QED
        BY <4>1, <4>2, <4>3
    <3> QED
      BY <1>6, <3>1, ReconcileFacts
  <2> QED
    BY <1>0, <2>0, <2>1 DEF Truthful
<1>7. CASE StoreWrite
  <2>0. /\ pc \in Publishing /\ UNCHANGED <<platform, pipeline, pc, who, target, status, starved>>
        /\ actual.state \in {"running", "stopped"} => actual.error = "none"
    BY <1>7, WriteFacts DEF StoreWrite, WritesInv
  <2>1. CASE pc = "reconciled"
    <3> SUFFICES ASSUME platform = "reference", pipeline # "none", ~starved,
                        todo' \in {<<>>, <<Erase("error")>>}
                 PROVE  Truthful'
      BY <2>0, <2>1 DEF TruthInv
    <3>1. Reconciling
      BY <2>1 DEF WritesInv
    <3>2. todo # Converged(target)
      <4>1. Len(Converged(target)) = 2 /\ Tail(Converged(target)) = <<Set("state", target)>>
        BY DEF Converged
      <4>2. Set("state", target) # Erase("error")
        BY DEF Set, Erase
      <4>3. <<Set("state", target)>> # <<>> /\ <<Set("state", target)>> # <<Erase("error")>>
        BY <4>2
      <4>4. todo' = Tail(todo)
        BY <1>7, WriteFacts
      <4> QED
        BY <4>1, <4>3, <4>4
    <3>3. CASE todo = <<Erase("error")>> /\ actual'.state = actual.state
      <4>1. Truthful
        <5>1. <<Erase("error")>> # <<>>
          OBVIOUS
        <5> QED
          BY <1>0, <2>1, <3>3, <5>1
      <4> QED
        BY <2>0, <3>3, <4>1 DEF Truthful
    <3>4. CASE Reached /\ actual'.state = target
      BY <2>0, <3>4 DEF Truthful, Reached
    <3>5. CASE actual'.state = "draining" /\ pipeline \in {"Draining", "Error"}
      BY <2>0, <3>5 DEF Truthful
    <3>6. CASE actual'.state = "error"
      BY <3>6 DEF Truthful
    <3> QED
      BY <1>7, <2>0, <3>1, <3>2, <3>3, <3>4, <3>5, <3>6, ReconcilingStep
  <2>2. CASE pc = "failing"
    BY <2>0, <2>2 DEF TruthInv
  <2>3. CASE pc = "clearing"
    <3>1. actual'.state = actual.state
      BY <1>7, <2>3, ClearingStep DEF WritesInv
    <3> QED
      BY <1>0, <2>0, <2>3, <3>1 DEF TruthInv, Truthful
  <2> QED
    BY <2>0, <2>1, <2>2, <2>3 DEF Publishing
<1>8. CASE StoreStarves
  BY <1>8 DEF StoreStarves, TruthInv
<1>9. CASE Reconciled
  <2>1. /\ pc = "reconciled" /\ todo = <<>> /\ UNCHANGED <<platform, pipeline, actual, starved, who>>
        /\ pc' \in {"idle", "clearing", "failing"}
        /\ platform = "reference" /\ who = "reset" /\ status = "failed" => pc' = "failing"
    BY <1>9 DEF Reconciled, Returns, Enters
  <2> QED
    BY <1>0, <1>A, <2>1 DEF TruthInv
<1>10. CASE FailurePublished
  <2>1. pc = "failing" /\ todo = <<>> /\ actual' = actual
    BY <1>10 DEF FailurePublished
  <2>2. actual'.state = "error"
    BY <2>1 DEF WritesInv, Failing
  <2>3. pc' = "idle"
    BY <1>10 DEF FailurePublished, Returns, Enters
  <2> QED
    BY <2>2, <2>3 DEF TruthInv, Truthful
<1>11. CASE ErrorsCleared
  <2>1. pc = "clearing" /\ pc' = "idle" /\ UNCHANGED <<platform, pipeline, actual, starved>>
    BY <1>11 DEF ErrorsCleared, Returns, Enters
  <2> QED
    BY <1>0, <1>A, <2>1 DEF TruthInv
<1>12. CASE \E command \in {"running", "stopped"} : Dispatch(command)
  <2>1. UNCHANGED <<platform, pipeline, actual, pc, who, todo, status, starved>>
    BY <1>12 DEF Dispatch
  <2> QED
    BY <2>1 DEF TruthInv, Truthful, Erase, Set
<1> QED
  BY <1>1, <1>2, <1>3, <1>4, <1>5, <1>6, <1>7, <1>8, <1>9, <1>10, <1>11, <1>12, Zenon
     DEF Next, InCall

------------------------------------------------------------------------------
(***************************************************************************)
(* The theorems.                                                           *)
(***************************************************************************)
IInv == TypeOK /\ WritesInv /\ CleanInv /\ TruthInv

\* The invariant holds at the beginning.
LEMMA InitIInv == Init => IInv
<1> SUFFICES ASSUME Init PROVE IInv
  OBVIOUS
<1>1. actual \in [Keys -> Values] /\ actual.state = "none"
  BY KeysTold DEF Init, Values
<1>2. TypeOK
  <2>1. trouble \in Nat
    BY TroubleAssumption DEF Init
  <2>2. todo \in Seq([key : Keys, value : Values])
    BY DEF Init
  <2> QED
    BY <1>1, <2>1, <2>2 DEF Init, TypeOK, States
<1>3. WritesInv
  <2>1. \A key \in ErrorKeys \ {"error"} : actual[key] = "none"
    BY DEF Init, Keys
  <2> QED
    BY <1>1, <2>1 DEF Init, WritesInv, Idle
<1>4. CleanInv /\ TruthInv
  BY <1>1 DEF Init, CleanInv, Clean, TruthInv, Truthful
<1> QED
  BY <1>2, <1>3, <1>4 DEF IInv

\* The invariant is inductive.
LEMMA NextIInv == IInv /\ [Next]_vars => IInv'
<1> SUFFICES ASSUME IInv, Next \/ UNCHANGED vars PROVE IInv'
  OBVIOUS
<1>1. CASE Next
  BY <1>1, TypeStep, WritesStep, CleanStep, TruthStep DEF IInv
<1>2. CASE UNCHANGED vars
  <2> USE <1>2 DEF vars, storeVars, callVars
  <2>1. TypeOK'
    BY DEF IInv, TypeOK
  <2>2. /\ Reconciling' <=> Reconciling
        /\ Failing' <=> Failing
        /\ Clearing' <=> Clearing
    BY DEF Reconciling, Reached, Converged, PublishFailure, Erase, Set, Failing, Clearing
  <2>3. WritesInv'
    BY <2>2 DEF IInv, WritesInv, Idle
  <2>4. CleanInv'
    BY DEF IInv, CleanInv, Clean
  <2>5. TruthInv'
    BY DEF IInv, TruthInv, Truthful, Erase, Set
  <2> QED
    BY <2>1, <2>3, <2>4, <2>5 DEF IInv
<1> QED
  BY <1>1, <1>2

\* The invariant holds of every behaviour.
LEMMA Invariance == Spec => []IInv
BY InitIInv, NextIInv, PTL DEF Spec

\* Every variable of the platform, its stores and its calls keeps its type.
THEOREM TypeCorrect == Spec => []TypeOK
<1>1. IInv => TypeOK
  BY DEF IInv
<1> QED
  BY <1>1, Invariance, PTL

\* The writes of reconcile_once, publish_runtime_failure and clear_runtime_errors
\* come in an order that shows no reader an error beside a running pipeline.
THEOREM ErrorsSafety == Spec => []NoErrorBesideRunning
<1>1. IInv => NoErrorBesideRunning
  BY DEF IInv, NoErrorBesideRunning, WritesInv, CleanInv, Clean, Idle
<1> QED
  BY <1>1, Invariance, PTL

\* Between its calls ReferenceMediaPlatform has published what is so.
THEOREM PublishedSafety == Spec => []PublishedTruth
<1>1. IInv => PublishedTruth
  BY DEF IInv, PublishedTruth, TruthInv, Idle
<1> QED
  BY <1>1, Invariance, PTL
==============================================================================
