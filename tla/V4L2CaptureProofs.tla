--------------------------- MODULE V4L2CaptureProofs ---------------------------
(***************************************************************************)
(* Proofs about V4L2Capture: for any number of buffers the driver grants,  *)
(* any even modulus of its sequence numbers, and any failures.             *)
(***************************************************************************)
EXTENDS V4L2Capture, TLAPS

Calls == PrepareCalled \/ StartCalled \/ Destroy
           \/ \E ok \in BOOLEAN : StopCalled(ok) \/ ResetCalled(ok)
Preparing == SessionPrepared
               \/ \E ok \in BOOLEAN : Open(ok) \/ Negotiate(ok) \/ MapBuffer(ok) \/ KeepFormats(ok)
                                        \/ \E usable \in BOOLEAN : RequestBuffers(ok, usable)
Starting == \E ok \in BOOLEAN : \/ QueueBuffer(ok) \/ StreamOn(ok) \/ UndoStart(ok)
                                \/ StopStream(ok) \/ Settle(ok)
Releasing == \E ok \in BOOLEAN : ReleaseStream(ok) \/ Unmap(ok) \/ FreeBuffers(ok) \/ Close(ok)
Ticking == \E ok \in BOOLEAN :
             \/ \E also \in BOOLEAN : DequeueNothing(ok, also) \/ Requeue(ok, also)
             \/ \E answer \in Answers : SendPending(answer, ok) \/ Send(answer, ok)
             \/ \E b \in Buffers, n \in 1..MaxFrame, t \in 0..MaxPts : Dequeue(b, n, t, ok)

\* The steps, sorted by the part of the session they belong to.
LEMMA NextSteps == Next <=> Calls \/ Preparing \/ Starting \/ Releasing \/ Ticking
BY Zenon DEF Next, Calls, Preparing, Starting, Releasing, Ticking

------------------------------------------------------------------------------
(***************************************************************************)
(* The operators the calls are made of.                                    *)
(***************************************************************************)

\* The resources are told apart.
LEMMA ResourcesApart ==
  /\ Descriptor # KernelBuffers
  /\ \A b \in Int : Mapped(b) # Descriptor /\ Mapped(b) # KernelBuffers
  /\ \A b, c \in Int : Mapped(b) = Mapped(c) => b = c
<1>1. \A x, y, v, w : <<x, y>> = <<v, w>> => x = v /\ y = w
  OBVIOUS
<1>2. "fd" # "buffers" /\ "fd" # "mapping" /\ "buffers" # "mapping"
  OBVIOUS
<1> QED
  BY <1>1, <1>2, Zenon DEF Descriptor, KernelBuffers, Mapped

\* What a frame is.
LEMMA FramesTold ==
  /\ None \notin Frames
  /\ \A f \in Frames : f.n \in 1..MaxFrame /\ f.n \in Nat /\ f.pts \in 0..MaxPts
  /\ \A n \in 1..MaxFrame, t \in 0..MaxPts :
        LET f == [n |-> n, pts |-> t] IN f \in Frames /\ f.n = n /\ f.pts = t
BY BoundAssumption DEF None, Frames

------------------------------------------------------------------------------
(***************************************************************************)
(* Types.                                                                  *)
(***************************************************************************)

\* The flags, apart from the rest: the provers take Booleans badly.
LEMMA FlagsTyped ==
  ASSUME TypeOK, Next
  PROVE  /\ fd' \in BOOLEAN /\ kernel_buffers' \in BOOLEAN /\ formats' \in BOOLEAN
         /\ failure' \in BOOLEAN /\ corrupt' \in BOOLEAN /\ streaming' \in BOOLEAN
<1>1. /\ fd \in BOOLEAN /\ kernel_buffers \in BOOLEAN /\ formats \in BOOLEAN
      /\ failure \in BOOLEAN /\ corrupt \in BOOLEAN /\ streaming \in BOOLEAN
  BY DEF TypeOK
<1> USE DEF nodeVars, sysVars, callVars, tickVars, deviceVars, Enters, Goes, Fails, Returns,
        Continues, Rollback
<1>2. CASE Calls
  <2>1. CASE PrepareCalled \/ StartCalled \/ Destroy
    BY <1>1, <2>1, Zenon DEF PrepareCalled, StartCalled, Destroy
  <2>2. ASSUME NEW ok \in BOOLEAN, StopCalled(ok)
        PROVE  failure' \in BOOLEAN /\ UNCHANGED <<fd, kernel_buffers, formats, corrupt, streaming>>
    BY <1>1, <2>2, Zenon DEF StopCalled
  <2>3. ASSUME NEW ok \in BOOLEAN, ResetCalled(ok)
        PROVE  failure' \in BOOLEAN /\ UNCHANGED <<fd, kernel_buffers, formats, corrupt, streaming>>
    BY <1>1, <2>3, Zenon DEF ResetCalled
  <2>4. CASE \E ok \in BOOLEAN : StopCalled(ok) \/ ResetCalled(ok)
    <3>1. PICK ok \in BOOLEAN : StopCalled(ok) \/ ResetCalled(ok)
      BY <2>4, Zenon
    <3>2. failure' \in BOOLEAN /\ UNCHANGED <<fd, kernel_buffers, formats, corrupt, streaming>>
      BY <2>2, <2>3, <3>1, Zenon
    <3>3. fd' = fd /\ kernel_buffers' = kernel_buffers /\ formats' = formats
          /\ corrupt' = corrupt /\ streaming' = streaming
      BY <3>2, Zenon
    <3> QED
      BY <1>1, <3>2, <3>3, Zenon
  <2> QED
    BY <1>2, <2>1, <2>4 DEF Calls
<1>3. CASE Preparing
  <2> DEFINE Typed == /\ fd' \in BOOLEAN /\ kernel_buffers' \in BOOLEAN /\ formats' \in BOOLEAN
                      /\ failure' \in BOOLEAN /\ corrupt' \in BOOLEAN /\ streaming' \in BOOLEAN
  <2>1. CASE SessionPrepared
    BY <1>1, <2>1, Zenon DEF SessionPrepared
  <2>2. ASSUME NEW ok \in BOOLEAN, Open(ok) \/ Negotiate(ok) \/ MapBuffer(ok)
        PROVE  Typed
    BY <1>1, <2>2, Zenon DEF Open, Negotiate, MapBuffer
  <2>3. ASSUME NEW ok \in BOOLEAN, KeepFormats(ok)
        PROVE  Typed
    BY <1>1, <2>3, Zenon DEF KeepFormats
  <2>4. ASSUME NEW ok \in BOOLEAN, NEW usable \in BOOLEAN, RequestBuffers(ok, usable)
        PROVE  Typed
    BY <1>1, <2>4, Zenon DEF RequestBuffers
  <2> HIDE DEF Typed
  <2>5. Typed
    BY <1>3, <2>1, <2>2, <2>3, <2>4, Zenon DEF Preparing, Typed
  <2> QED
    BY <2>5 DEF Typed
<1>4. CASE Starting
  BY <1>1, <1>4, ZenonT(60) DEF Starting, QueueBuffer, StreamOn, UndoStart, UndoFailed, StreamOff,
                           StopStream, Settle
<1>5. CASE Releasing
  BY <1>1, <1>5, Zenon DEF Releasing, ReleaseStream, StreamOff, Unmap, FreeBuffers, Close
<1>6. CASE Ticking
  <2> DEFINE Kept == UNCHANGED <<fd, kernel_buffers, formats, streaming>>
  <2>1. ASSUME NEW ok \in BOOLEAN, NEW also \in BOOLEAN, DequeueNothing(ok, also)
        PROVE  Kept /\ corrupt' \in BOOLEAN /\ failure' \in BOOLEAN
    BY <1>1, <2>1, Zenon DEF DequeueNothing
  <2>2. ASSUME NEW ok \in BOOLEAN, NEW also \in BOOLEAN, Requeue(ok, also)
        PROVE  Kept /\ corrupt' \in BOOLEAN /\ failure' \in BOOLEAN
    BY <1>1, <2>2, Zenon DEF Requeue
  <2>3. ASSUME NEW ok \in BOOLEAN, NEW answer \in Answers, SendPending(answer, ok)
        PROVE  Kept /\ corrupt' \in BOOLEAN /\ failure' \in BOOLEAN
    BY <1>1, <2>3, Zenon DEF SendPending
  <2>4. ASSUME NEW ok \in BOOLEAN, NEW answer \in Answers, Send(answer, ok)
        PROVE  Kept /\ corrupt' \in BOOLEAN /\ failure' \in BOOLEAN
    <3>1. Kept /\ corrupt' = corrupt
      BY <2>4, Zenon DEF Send
    <3>2. CASE answer = "ok"
      BY <1>1, <2>4, <3>1, <3>2 DEF Send, Sends
    <3>3. CASE answer = "blocked"
      BY <1>1, <2>4, <3>1, <3>3 DEF Send
    <3>4. CASE answer = "failed"
      BY <1>1, <2>4, <3>1, <3>4 DEF Send
    <3> QED
      BY <3>2, <3>3, <3>4 DEF Answers
  <2>5. ASSUME NEW ok \in BOOLEAN, NEW b \in Buffers, NEW n \in 1..MaxFrame, NEW t \in 0..MaxPts,
               Dequeue(b, n, t, ok)
        PROVE  Kept /\ corrupt' \in BOOLEAN /\ failure' \in BOOLEAN
    BY <1>1, <2>5, Zenon DEF Dequeue
  <2> QED
    BY <1>1, <1>6, <2>1, <2>2, <2>3, <2>4, <2>5, Zenon DEF Ticking
<1> QED
  BY <1>2, <1>3, <1>4, <1>5, <1>6, NextSteps, Zenon

Nodes == {"Created", "Prepared", "Running", "Draining", "Stopped", "Error", "Destroyed"}
Steps == {"idle", "open", "negotiate", "request", "map", "formats", "queue", "undo", "settle"}
           \cup {"streamoff", "off", "unmap", "close", "requeue", "send"}
CallNames == {"none", "prepare", "start", "stop", "reset", "destroy", "tick"}

\* The types but for the flags.
RestTyped == /\ node \in Nodes /\ sys \in {"Created", "Prepared", "Running"}
             /\ regions \in 0..Count /\ k \in 0..Count
             /\ {pending, last, frame, sent} \subseteq Frames \cup {None}
             /\ pc \in Steps /\ call \in CallNames
             /\ driver \subseteq Buffers /\ produced \in 0..MaxFrame /\ tally \in Nat

\* The flags, apart from the rest of the type: the provers take Booleans badly.
LEMMA TypesSplit ==
  TypeOK <=> RestTyped /\ {fd, kernel_buffers, formats, failure, corrupt, streaming} \subseteq BOOLEAN
BY Zenon DEF TypeOK, RestTyped, Nodes, Steps, CallNames

\* A call that returns leaves the node in one of its states.
LEMMA ReturnsTyped ==
  ASSUME RestTyped, call # "none", Returns(TRUE) \/ Returns(FALSE)
  PROVE  node' \in Nodes /\ pc' = "idle" /\ call' = "none" /\ k' = 0
BY DEF RestTyped, Returns, NodeAfter, Enters, Nodes, CallNames

\* A call that goes on leaves values of the types.
LEMMA MovesTyped ==
  ASSUME RestTyped, pc' \in Steps, call' = call, k' \in {0, k + 1}, k' <= Count, node' = node
  PROVE  node' \in Nodes /\ pc' \in Steps /\ call' \in CallNames /\ k' \in 0..Count
BY CountAssumption DEF RestTyped

\* A call that returns leaves values of the types.
LEMMA RestsTyped ==
  ASSUME RestTyped, call # "none", Returns(TRUE) \/ Returns(FALSE)
  PROVE  node' \in Nodes /\ pc' \in Steps /\ call' \in CallNames /\ k' \in 0..Count
<1>1. node' \in Nodes /\ pc' = "idle" /\ call' = "none" /\ k' = 0
  BY ReturnsTyped
<1> QED
  BY <1>1, CountAssumption DEF Steps, CallNames

\* A call returns with success or failure.
LEMMA CallsReturn ==
  ASSUME NEW ok \in BOOLEAN, Returns(ok)
  PROVE  Returns(TRUE) \/ Returns(FALSE)
OBVIOUS

\* The frame's number less what is missing before it never goes below zero.
LEMMA TallyTyped ==
  ASSUME NEW n \in Int, last \in Frames \cup {None}
  PROVE  Missing(n) \in Nat
<1>1. Modulus \in Nat \ {0}
  BY ModulusAssumption
<1>2. CASE last = None
  BY <1>2 DEF Missing
<1>3. CASE last \in Frames
  <2>1. last.n \in Int
    BY <1>3, FramesTold
  <2>2. Sequence(n) \in Int /\ Sequence(last.n + 1) \in Int
    BY <1>1, <2>1 DEF Sequence
  <2>3. Ahead(n) \in Int
    BY <2>2 DEF Ahead
  <2>4. Ahead(n) % Modulus \in Nat
    BY <1>1, <2>3
  <2> QED
    BY <1>3, <2>4, FramesTold DEF Missing
<1> QED
  BY <1>2, <1>3

\* Every step keeps the types.
LEMMA TypeStep ==
  ASSUME TypeOK, SessionInv, FramesInv, Next
  PROVE  TypeOK'
<1>0. RestTyped
  BY TypesSplit
<1>C. Count \in Nat /\ Count >= 2 /\ Buffers = 1..Count
  BY CountAssumption DEF Buffers
<1> USE DEF nodeVars, sysVars, callVars, tickVars, deviceVars, Enters, Goes, Fails, Continues,
        Rollback, Nodes, Steps, CallNames
<1> SUFFICES RestTyped'
  BY FlagsTyped, Zenon DEF TypeOK, RestTyped
<1>1. CASE Calls
  <2>1. CASE PrepareCalled
    BY <1>0, <1>C, <2>1 DEF PrepareCalled, RestTyped
  <2>2. CASE StartCalled
    BY <1>0, <1>C, <2>2 DEF StartCalled, RestTyped
  <2>3. CASE Destroy
    BY <1>0, <1>C, <2>3 DEF Destroy, RestTyped
  <2>4. ASSUME NEW ok \in BOOLEAN, StopCalled(ok) PROVE RestTyped'
    BY <1>0, <1>C, <2>4 DEF StopCalled, RestTyped
  <2>5. ASSUME NEW ok \in BOOLEAN, ResetCalled(ok) PROVE RestTyped'
    BY <1>0, <1>C, <2>5 DEF ResetCalled, RestTyped
  <2> QED
    BY <1>1, <2>1, <2>2, <2>3, <2>4, <2>5 DEF Calls
<1>2. CASE Preparing
  <2>1. CASE SessionPrepared
    BY <1>0, <1>C, <2>1 DEF SessionPrepared, RestTyped
  <2>2. ASSUME NEW ok \in BOOLEAN, Open(ok) PROVE RestTyped'
    BY <1>0, <1>C, <2>2 DEF Open, RestTyped
  <2>3. ASSUME NEW ok \in BOOLEAN, Negotiate(ok) PROVE RestTyped'
    BY <1>0, <1>C, <2>3 DEF Negotiate, RestTyped
  <2>4. ASSUME NEW ok \in BOOLEAN, MapBuffer(ok) PROVE RestTyped'
    <3>1. regions \in 0..Count /\ regions # Count /\ regions' \in {regions, regions + 1}
      BY <1>0, <2>4 DEF MapBuffer, AllMapped, RestTyped
    <3>2. regions' \in 0..Count
      BY <1>C, <3>1
    <3> QED
      BY <1>0, <1>C, <2>4, <3>2 DEF MapBuffer, RestTyped
  <2>5. ASSUME NEW ok \in BOOLEAN, KeepFormats(ok) PROVE RestTyped'
    <3>1. call = "prepare"
      BY <2>5 DEF KeepFormats, SessionInv
    <3>3. /\ node' \in Nodes /\ pc' \in Steps /\ call' \in CallNames /\ k' \in 0..Count
      <4>1. CASE Returns(TRUE) \/ Returns(FALSE)
        BY <1>0, <3>1, <4>1, RestsTyped, Zenon
      <4>2. CASE ~(Returns(TRUE) \/ Returns(FALSE))
        <5>1. pc' = "off" /\ call' = call /\ k' = 0 /\ node' = node
          BY <4>2, <2>5, Zenon DEF KeepFormats
        <5> QED
          BY <1>0, <1>C, <3>1, <5>1, MovesTyped
      <4> QED
        BY <4>1, <4>2
    <3> QED
      BY <1>0, <1>C, <2>5, <3>1, <3>3 DEF KeepFormats, RestTyped
  <2>6. ASSUME NEW ok \in BOOLEAN, NEW usable \in BOOLEAN, RequestBuffers(ok, usable)
        PROVE  RestTyped'
    BY <1>0, <1>C, <2>6 DEF RequestBuffers, RestTyped
  <2> QED
    BY <1>2, <2>1, <2>2, <2>3, <2>4, <2>5, <2>6 DEF Preparing
<1>3. CASE Starting
  <2>1. ASSUME NEW ok \in BOOLEAN, QueueBuffer(ok) PROVE RestTyped'
    <3>1. call = "start" /\ k + 1 \in 1..Count /\ k + 1 \in 0..Count
      BY <1>0, <1>C, <2>1 DEF QueueBuffer, SessionInv, RestTyped
    <3>3. /\ node' \in Nodes /\ pc' \in Steps /\ call' \in CallNames /\ k' \in 0..Count
      <4>1. CASE Returns(TRUE) \/ Returns(FALSE)
        BY <1>0, <3>1, <4>1, RestsTyped, Zenon
      <4>2. CASE ~(Returns(TRUE) \/ Returns(FALSE))
        <5>1. /\ pc' \in {"queue", "undo"} /\ call' = call /\ k' \in {0, k + 1} /\ node' = node
          BY <4>2, <2>1 DEF QueueBuffer
        <5> QED
          BY <1>0, <1>C, <3>1, <5>1, MovesTyped
      <4> QED
        BY <4>1, <4>2
    <3>4. driver' \subseteq Buffers
      BY <1>0, <1>C, <2>1, <3>1 DEF QueueBuffer, RestTyped
    <3> QED
      BY <1>0, <1>C, <2>1, <3>1, <3>3, <3>4 DEF QueueBuffer, RestTyped
  <2>2. ASSUME NEW ok \in BOOLEAN, StreamOn(ok) PROVE RestTyped'
    BY <1>0, <1>C, <2>2, BoundAssumption DEF StreamOn, RestTyped
  <2>3. ASSUME NEW ok \in BOOLEAN, UndoStart(ok) PROVE RestTyped'
    <3>1. call = "start"
      BY <2>3 DEF UndoStart, SessionInv
    <3>3. /\ node' \in Nodes /\ pc' \in Steps /\ call' \in CallNames /\ k' \in 0..Count
      <4>1. CASE Returns(TRUE) \/ Returns(FALSE)
        BY <1>0, <3>1, <4>1, RestsTyped, Zenon
      <4>2. CASE ~(Returns(TRUE) \/ Returns(FALSE))
        <5>1. pc' = "off" /\ call' = call /\ k' = 0 /\ node' = node
          BY <4>2, <2>3, Zenon DEF UndoStart, UndoFailed, StreamOff
        <5> QED
          BY <1>0, <1>C, <3>1, <5>1, MovesTyped
      <4> QED
        BY <4>1, <4>2
    <3> QED
      BY <1>0, <1>C, <2>3, <3>1, <3>3 DEF UndoStart, UndoFailed, StreamOff, RestTyped
  <2>4. ASSUME NEW ok \in BOOLEAN, StopStream(ok) PROVE RestTyped'
    <3>1. call \in {"start", "stop"}
      BY <2>4 DEF StopStream, SessionInv
    <3>2. Returns(TRUE) \/ Returns(FALSE)
      <4>1. (ok /\ ~failure) \in BOOLEAN /\ (~failure) \in BOOLEAN
        OBVIOUS
      <4> QED
        BY <2>4, <4>1, CallsReturn DEF StopStream
    <3>3. /\ node' \in Nodes /\ pc' = "idle" /\ call' = "none" /\ k' = 0
      BY <1>0, <3>1, <3>2, ReturnsTyped DEF RestTyped
    <3>4. sys' \in {"Created", "Prepared", "Running"} /\ driver' \subseteq Buffers
          /\ produced' = produced
      BY <1>0, <2>4 DEF StopStream, StreamOff, RestTyped
    <3> QED
      BY <1>0, <1>C, <2>4, <3>3, <3>4 DEF StopStream, RestTyped
  <2>5. ASSUME NEW ok \in BOOLEAN, Settle(ok) PROVE RestTyped'
    <3>1. call = "start"
      BY <2>5 DEF Settle, SessionInv
    <3>3. /\ node' \in Nodes /\ pc' \in Steps /\ call' \in CallNames /\ k' \in 0..Count
      <4>1. CASE Returns(TRUE) \/ Returns(FALSE)
        BY <1>0, <3>1, <4>1, RestsTyped, Zenon
      <4>2. CASE ~(Returns(TRUE) \/ Returns(FALSE))
        <5>1. pc' = "streamoff" /\ call' = call /\ k' = 0 /\ node' = node
          BY <4>2, <2>5, Zenon DEF Settle
        <5> QED
          BY <1>0, <1>C, <3>1, <5>1, MovesTyped
      <4> QED
        BY <4>1, <4>2
    <3> QED
      BY <1>0, <1>C, <2>5, <3>1, <3>3 DEF Settle, RestTyped
  <2> QED
    BY <1>3, <2>1, <2>2, <2>3, <2>4, <2>5, Zenon DEF Starting
<1>4. CASE Releasing
  <2>1. ASSUME NEW ok \in BOOLEAN, ReleaseStream(ok) PROVE RestTyped'
    <3>1. driver' \subseteq Buffers /\ produced' = produced /\ sys' = "Prepared"
          /\ pc' = "unmap" /\ call' = call /\ k' = 0
      BY <1>0, <2>1 DEF ReleaseStream, StreamOff, RestTyped
    <3> QED
      BY <1>0, <1>C, <2>1, <3>1 DEF ReleaseStream, RestTyped
  <2>2. ASSUME NEW ok \in BOOLEAN, Unmap(ok) PROVE RestTyped'
    BY <1>0, <1>C, <2>2 DEF Unmap, RestTyped
  <2>3. ASSUME NEW ok \in BOOLEAN, FreeBuffers(ok) PROVE RestTyped'
    BY <1>0, <1>C, <2>3 DEF FreeBuffers, RestTyped
  <2>4. ASSUME NEW ok \in BOOLEAN, Close(ok) PROVE RestTyped'
    <3>1. call \in {"prepare", "start", "reset", "destroy"}
      BY <2>4 DEF Close, SessionInv
    <3>2. Returns(TRUE) \/ Returns(FALSE)
      <4>1. (~failure /\ (fd => ok)) \in BOOLEAN
        OBVIOUS
      <4> QED
        BY <2>4, <4>1, CallsReturn DEF Close
    <3>3. node' \in Nodes /\ pc' = "idle" /\ call' = "none" /\ k' = 0
      BY <1>0, <3>1, <3>2, ReturnsTyped DEF RestTyped
    <3>4. /\ sys' = "Created" /\ driver' \subseteq Buffers
          /\ last' \in {last, None} /\ pending' \in {pending, None}
      BY <1>0, <2>4 DEF Close, RestTyped
    <3> QED
      BY <1>0, <1>C, <2>4, <3>3, <3>4 DEF Close, RestTyped
  <2> QED
    BY <1>4, <2>1, <2>2, <2>3, <2>4, Zenon DEF Releasing
<1>5. CASE Ticking
  <2>1. ASSUME NEW ok \in BOOLEAN, NEW also \in BOOLEAN, DequeueNothing(ok, also)
        PROVE  RestTyped'
    BY <1>0, <2>1 DEF DequeueNothing, RestTyped
  <2>2. ASSUME NEW ok \in BOOLEAN, NEW also \in BOOLEAN, Requeue(ok, also)
        PROVE  RestTyped'
    <3>1. call = "tick" /\ k \in Buffers /\ driver' \subseteq Buffers
      BY <1>0, <2>2 DEF Requeue, SessionInv, Capturing, RestTyped
    <3>2. CASE ~(ok /\ ~corrupt /\ ~Backwards(frame.n))
      <4>1. Returns(FALSE) /\ frame' = None /\ UNCHANGED <<last, tally>>
        BY <2>2, <3>2 DEF Requeue
      <4> QED
        <5>1. node' \in Nodes /\ pc' = "idle" /\ call' = "none" /\ k' = 0
          BY <1>0, <3>1, <4>1, ReturnsTyped
        <5> QED
          BY <1>0, <1>C, <2>2, <3>1, <4>1, <5>1 DEF Requeue, RestTyped
    <3>3. CASE ok /\ ~corrupt /\ ~Backwards(frame.n)
      <4>1. /\ last' = frame /\ UNCHANGED frame
            /\ tally' = IF last = None THEN frame.n - 1 ELSE tally + Missing(frame.n)
            /\ IF also THEN Goes("send") /\ Continues ELSE Returns(FALSE)
        BY <2>2, <3>3 DEF Requeue
      <4>2. tally' \in Nat
        <5>1. frame \in Frames
          BY <1>0, <2>2 DEF Requeue, FramesInv, RestTyped
        <5>2. frame.n \in 1..MaxFrame /\ frame.n \in Nat
          BY <5>1, FramesTold
        <5>3. Missing(frame.n) \in Nat
          BY <1>0, <5>2, TallyTyped DEF RestTyped
        <5> QED
          BY <1>0, <4>1, <5>2, <5>3, BoundAssumption DEF RestTyped
      <4>3. /\ node' \in Nodes /\ pc' \in {"idle", "send"} /\ call' \in {call, "none"} /\ k' = 0
        BY <1>0, <3>1, <4>1, ReturnsTyped DEF RestTyped
      <4> QED
        BY <1>0, <1>C, <2>2, <3>1, <4>1, <4>2, <4>3 DEF Requeue, RestTyped
    <3> QED
      BY <3>2, <3>3
  <2>3. ASSUME NEW ok \in BOOLEAN, NEW answer \in Answers, SendPending(answer, ok)
        PROVE  RestTyped'
    <3>1. /\ node' \in {node, "Error"} /\ pending' \in {pending, None}
          /\ sent' \in {sent, pending} /\ tally' \in {tally, tally + 1}
      BY <2>3, Zenon DEF SendPending, Sends, Answers
    <3> QED
      BY <1>0, <2>3, <3>1 DEF SendPending, RestTyped
  <2>4. ASSUME NEW ok \in BOOLEAN, NEW answer \in Answers, Send(answer, ok)
        PROVE  RestTyped'
    <3>1. call = "tick"
      BY <2>4 DEF Send, SessionInv, Capturing
    <3>2. Returns(TRUE) \/ Returns(FALSE)
      BY <2>4, CallsReturn DEF Send, Answers
    <3>3. node' \in Nodes /\ pc' = "idle" /\ call' = "none" /\ k' = 0
      BY <1>0, <3>1, <3>2, ReturnsTyped DEF RestTyped
    <3>4. /\ frame' = None /\ pending' \in {pending, frame} /\ sent' \in {sent, frame}
          /\ tally' \in {tally, tally + 1} /\ last' = last
      BY <2>4 DEF Send, Sends, Answers
    <3> QED
      BY <1>0, <1>C, <2>4, <3>3, <3>4 DEF Send, RestTyped
  <2>5. ASSUME NEW ok \in BOOLEAN, NEW b \in Buffers, NEW n \in 1..MaxFrame, NEW t \in 0..MaxPts,
               Dequeue(b, n, t, ok)
        PROVE  RestTyped'
    <3>1. Pts(t) \in 0..MaxPts
      BY <1>0, FramesTold DEF Pts, RestTyped
    <3>2. frame' \in Frames
      BY <2>5, <3>1, FramesTold DEF Dequeue
    <3> QED
      BY <1>0, <1>C, <2>5, <3>2, BoundAssumption DEF Dequeue, RestTyped
  <2> QED
    BY <1>5, <2>1, <2>2, <2>3, <2>4, <2>5, Zenon DEF Ticking
<1> QED
  BY <1>1, <1>2, <1>3, <1>4, <1>5, NextSteps

------------------------------------------------------------------------------
(***************************************************************************)
(* The session.                                                            *)
(***************************************************************************)

\* A step that acquires and releases nothing.
LEMMA OwnedKept ==
  ASSUME held = Owned, UNCHANGED <<held, fd, kernel_buffers, regions>>
  PROVE  (held = Owned)'
BY DEF Owned

\* A call that begins keeps the session.
LEMMA CallsSession ==
  ASSUME TypeOK, SessionInv, Calls
  PROVE  SessionInv'
<1> USE DEF nodeVars, sysVars, callVars, tickVars, deviceVars, Enters
<1>0. pc = "idle" /\ UNCHANGED <<sys, fd, kernel_buffers, regions, held, driver, streaming, formats>>
  BY DEF Calls, PrepareCalled, StartCalled, Destroy, StopCalled, ResetCalled
<1>1. (held = Owned)'
  BY <1>0, OwnedKept DEF SessionInv
<1>2. /\ NoSession' <=> NoSession
      /\ WholeSession' <=> WholeSession
      /\ Resting' <=> Resting
  BY <1>0 DEF NoSession, WholeSession, Resting
<1>3. /\ NoSession \/ WholeSession
      /\ sys # "Running" => Resting
      /\ node \in {"Created", "Destroyed"} => NoSession /\ ~formats
      /\ node = "Running" => sys = "Running" /\ streaming /\ driver = Buffers
  BY <1>0 DEF SessionInv
<1>4. CASE PrepareCalled
  <2>1. CASE formats \/ sys # "Created"
    <3>1. pc' = "idle" /\ node' \in {"Prepared", "Error"}
      BY <1>0, <1>4, <2>1 DEF PrepareCalled
    <3> QED
      BY <1>0, <1>1, <1>2, <1>3, <3>1 DEF SessionInv
  <2>2. CASE ~formats /\ sys = "Created"
    <3>1. pc' = "open" /\ call' = "prepare"
      BY <1>4, <2>2 DEF PrepareCalled
    <3>2. NoSession /\ Resting
      BY <1>3, <2>2 DEF WholeSession
    <3> QED
      BY <1>0, <1>1, <1>2, <2>2, <3>1, <3>2 DEF SessionInv, NoSession
  <2> QED
    BY <2>1, <2>2
<1>5. CASE StartCalled
  <2>1. CASE sys = "Prepared"
    <3>1. pc' = "queue" /\ call' = "start" /\ k' = 0
      BY <1>5, <2>1 DEF StartCalled
    <3>2. WholeSession /\ Resting /\ driver = 1..0
      BY <1>3, <2>1 DEF NoSession, Resting
    <3> QED
      BY <1>0, <1>1, <1>2, <2>1, <3>1, <3>2 DEF SessionInv, Resting
  <2>2. CASE sys # "Prepared"
    <3>1. pc' = "idle" /\ node' = "Error"
      BY <1>0, <1>5, <2>2 DEF StartCalled
    <3> QED
      BY <1>0, <1>1, <1>2, <1>3, <3>1 DEF SessionInv
  <2> QED
    BY <2>1, <2>2
<1>6. ASSUME pc' = "off", call' \in {"reset", "destroy"}
      PROVE  SessionInv'
  BY <1>0, <1>1, <1>2, <1>3, <1>6 DEF SessionInv, NoSession, WholeSession, Resting
<1>7. CASE Destroy
  BY <1>6, <1>7 DEF Destroy
<1>8. ASSUME NEW ok \in BOOLEAN, StopCalled(ok)
      PROVE  SessionInv'
  <2>1. \/ pc' = "streamoff" /\ call' = "stop"
        \/ pc' = "idle" /\ node' = "Stopped"
    BY <1>0, <1>8 DEF StopCalled
  <2> QED
    BY <1>0, <1>1, <1>2, <1>3, <2>1 DEF SessionInv
<1>9. ASSUME NEW ok \in BOOLEAN, ResetCalled(ok)
      PROVE  SessionInv'
  BY <1>6, <1>9 DEF ResetCalled
<1> QED
  BY <1>4, <1>5, <1>7, <1>8, <1>9 DEF Calls

\* Opening and preparing, completed or undone, keep the session.
LEMMA PreparingSession ==
  ASSUME TypeOK, TypeOK', SessionInv, Preparing
  PROVE  SessionInv'
<1> USE DEF nodeVars, sysVars, callVars, tickVars, deviceVars, Enters, Goes, Fails, Continues,
        Rollback
<1>0. Count \in Nat /\ regions \in 0..Count
  BY CountAssumption DEF TypeOK
\* What a failed step leaves to be released
<1>R. ASSUME (held = Owned)', pc' = "off", call' = "prepare", failure',
             driver' = driver, streaming' = streaming, Resting,
             ~kernel_buffers' => regions' = 0, ~fd' => ~kernel_buffers'
      PROVE  SessionInv'
  BY <1>R DEF SessionInv, Resting
<1>1. ASSUME NEW ok \in BOOLEAN, Open(ok) PROVE SessionInv'
  <2>1. /\ pc = "open" /\ call = "prepare" /\ Resting /\ sys = "Created" /\ ~fd /\ ~kernel_buffers
        /\ regions = 0 /\ held = Owned
    BY <1>1 DEF Open, SessionInv
  <2>2. UNCHANGED <<sys, kernel_buffers, regions, driver, streaming>> /\ (fd' <=> ok)
        /\ held' = IF ok THEN held \cup {Descriptor} ELSE held
    BY <1>1 DEF Open
  <2>3. (held = Owned)'
    BY <2>1, <2>2 DEF Owned
  <2>4. CASE ok
    <3>1. pc' = "negotiate" /\ call' = "prepare"
      BY <1>1, <2>1, <2>4 DEF Open
    <3> QED
      BY <2>1, <2>2, <2>3, <2>4, <3>1 DEF SessionInv, Resting
  <2>5. CASE ~ok
    <3>1. pc' = "off" /\ call' = "prepare" /\ failure'
      BY <1>1, <2>1, <2>5 DEF Open
    <3> QED
      BY <1>R, <2>1, <2>2, <2>3, <2>5, <3>1
  <2> QED
    BY <2>4, <2>5
<1>2. ASSUME NEW ok \in BOOLEAN, Negotiate(ok) PROVE SessionInv'
  <2>1. /\ pc = "negotiate" /\ call = "prepare" /\ Resting /\ sys = "Created" /\ fd
        /\ ~kernel_buffers /\ regions = 0 /\ held = Owned
    BY <1>2 DEF Negotiate, SessionInv
  <2>2. UNCHANGED <<sys, fd, kernel_buffers, regions, held, driver, streaming>>
    BY <1>2 DEF Negotiate
  <2>3. (held = Owned)'
    BY <2>1, <2>2, OwnedKept
  <2>4. CASE ok
    <3>1. pc' = "request" /\ call' = "prepare"
      BY <1>2, <2>1, <2>4 DEF Negotiate
    <3> QED
      BY <2>1, <2>2, <2>3, <3>1 DEF SessionInv, Resting
  <2>5. CASE ~ok
    <3>1. pc' = "off" /\ call' = "prepare" /\ failure'
      BY <1>2, <2>1, <2>5 DEF Negotiate
    <3> QED
      BY <1>R, <2>1, <2>2, <2>3, <3>1
  <2> QED
    BY <2>4, <2>5
<1>3. ASSUME NEW ok \in BOOLEAN, NEW usable \in BOOLEAN, RequestBuffers(ok, usable)
      PROVE  SessionInv'
  <2>1. /\ pc = "request" /\ call = "prepare" /\ Resting /\ sys = "Created" /\ fd
        /\ ~kernel_buffers /\ regions = 0 /\ held = Owned
    BY <1>3 DEF RequestBuffers, SessionInv
  <2>2. UNCHANGED <<sys, fd, regions, driver, streaming>> /\ (kernel_buffers' <=> ok)
        /\ held' = IF ok THEN held \cup {KernelBuffers} ELSE held
    BY <1>3 DEF RequestBuffers
  <2>3. (held = Owned)'
    BY <2>1, <2>2 DEF Owned
  <2>4. CASE ok /\ usable
    <3>1. pc' = "map" /\ call' = "prepare"
      BY <1>3, <2>1, <2>4 DEF RequestBuffers
    <3> QED
      BY <2>1, <2>2, <2>3, <2>4, <3>1 DEF SessionInv, Resting
  <2>5. CASE ~(ok /\ usable)
    <3>1. pc' = "off" /\ call' = "prepare" /\ failure'
      BY <1>3, <2>1, <2>5 DEF RequestBuffers
    <3> QED
      BY <1>R, <2>1, <2>2, <2>3, <3>1
  <2> QED
    BY <2>4, <2>5
<1>4. ASSUME NEW ok \in BOOLEAN, MapBuffer(ok) PROVE SessionInv'
  <2>1. /\ pc = "map" /\ call = "prepare" /\ Resting /\ sys = "Created" /\ fd
        /\ kernel_buffers /\ held = Owned
    BY <1>4 DEF MapBuffer, SessionInv
  <2>2. UNCHANGED <<sys, fd, kernel_buffers, driver, streaming>>
        /\ regions' = (IF ok THEN regions + 1 ELSE regions)
        /\ held' = IF ok THEN held \cup {Mapped(regions + 1)} ELSE held
    BY <1>4 DEF MapBuffer
  <2>3. (held = Owned)'
    <3>1. CASE ok
      <4>1. 1..regions' = 1..regions \cup {regions + 1}
        BY <1>0, <2>2, <3>1
      <4>2. {Mapped(b) : b \in 1..regions'} = {Mapped(b) : b \in 1..regions} \cup {Mapped(regions + 1)}
        BY <4>1
      <4> QED
        BY <2>1, <2>2, <3>1, <4>2 DEF Owned
    <3>2. CASE ~ok
      BY <2>1, <2>2, <3>2, OwnedKept
    <3> QED
      BY <3>1, <3>2
  <2>4. CASE ok
    <3>1. pc' = "map" /\ call' = "prepare"
      BY <1>4, <2>1, <2>4 DEF MapBuffer
    <3> QED
      BY <2>1, <2>2, <2>3, <3>1 DEF SessionInv, Resting
  <2>5. CASE ~ok
    <3>1. pc' = "off" /\ call' = "prepare" /\ failure'
      BY <1>4, <2>1, <2>5 DEF MapBuffer
    <3> QED
      BY <1>R, <2>1, <2>2, <2>3, <3>1
  <2> QED
    BY <2>4, <2>5
<1>5. CASE SessionPrepared
  <2>1. /\ pc = "map" /\ call = "prepare" /\ Resting /\ fd /\ kernel_buffers /\ held = Owned
        /\ regions = Count
    BY <1>5 DEF SessionPrepared, SessionInv, AllMapped
  <2>2. UNCHANGED <<fd, kernel_buffers, regions, held, driver, streaming>> /\ sys' = "Prepared"
        /\ pc' = "formats" /\ call' = "prepare"
    BY <1>5, <2>1 DEF SessionPrepared
  <2>3. (held = Owned)'
    BY <2>1, <2>2, OwnedKept
  <2> QED
    BY <2>1, <2>2, <2>3 DEF SessionInv, Resting, WholeSession
<1>6. ASSUME NEW ok \in BOOLEAN, KeepFormats(ok) PROVE SessionInv'
  <2>1. pc = "formats" /\ call = "prepare" /\ Resting /\ WholeSession /\ held = Owned /\ sys = "Prepared"
    BY <1>6 DEF KeepFormats, SessionInv
  <2>2. UNCHANGED <<sys, fd, kernel_buffers, regions, held, driver, streaming>>
    BY <1>6 DEF KeepFormats
  <2>3. (held = Owned)' /\ Resting' /\ WholeSession'
    BY <2>1, <2>2, OwnedKept DEF Resting, WholeSession
  <2>4. CASE ok
    <3>1. pc' = "idle" /\ node' = "Prepared"
      BY <1>6, <2>1, <2>4 DEF KeepFormats, Returns, NodeAfter
    <3> QED
      BY <2>3, <3>1 DEF SessionInv
  <2>5. CASE ~ok
    <3>1. pc' = "off" /\ call' = "prepare" /\ failure'
      BY <1>6, <2>1, <2>5 DEF KeepFormats
    <3> QED
      BY <1>R, <2>1, <2>2, <2>3, <3>1 DEF WholeSession
  <2> QED
    BY <2>4, <2>5
<1> QED
  BY <1>1, <1>2, <1>3, <1>4, <1>5, <1>6 DEF Preparing

\* Queueing the buffers and starting the stream keep the session.
LEMMA StartingSession ==
  ASSUME TypeOK, TypeOK', SessionInv, Starting
  PROVE  SessionInv'
<1> USE DEF nodeVars, sysVars, callVars, tickVars, deviceVars, Enters, Goes, Fails, Continues,
        Rollback
<1>0. Count \in Nat /\ Count >= 2 /\ Buffers = 1..Count /\ k \in 0..Count
  BY CountAssumption DEF TypeOK, Buffers
<1>1. ASSUME NEW ok \in BOOLEAN, QueueBuffer(ok) PROVE SessionInv'
  <2>1. /\ pc = "queue" /\ call = "start" /\ WholeSession /\ sys = "Prepared" /\ ~streaming
        /\ driver = 1..k /\ k < Count /\ held = Owned
    BY <1>1 DEF QueueBuffer, SessionInv
  <2>2. UNCHANGED <<sys, fd, kernel_buffers, regions, held, streaming>>
    BY <1>1 DEF QueueBuffer
  <2>3. (held = Owned)' /\ WholeSession'
    BY <2>1, <2>2, OwnedKept DEF WholeSession
  <2>4. k + 1 \notin driver /\ 1..(k + 1) = 1..k \cup {k + 1}
    BY <1>0, <2>1
  <2>5. CASE ok
    <3>1. pc' = "queue" /\ call' = "start" /\ k' = k + 1 /\ driver' = 1..k'
      BY <1>1, <2>1, <2>4, <2>5 DEF QueueBuffer
    <3> QED
      BY <2>1, <2>2, <2>3, <3>1 DEF SessionInv
  <2>6. CASE ~ok /\ k = 0
    <3>1. pc' = "idle" /\ node' = "Error" /\ driver' = driver
      BY <1>1, <2>1, <2>6 DEF QueueBuffer, Returns, NodeAfter
    <3>2. driver = {}
      BY <2>1, <2>6
    <3> QED
      BY <2>1, <2>2, <2>3, <3>1, <3>2 DEF SessionInv, Resting
  <2>7. CASE ~ok /\ k # 0
    <3>1. pc' = "undo" /\ call' = "start"
      BY <1>1, <2>1, <2>7 DEF QueueBuffer
    <3> QED
      BY <2>1, <2>2, <2>3, <3>1 DEF SessionInv
  <2> QED
    BY <2>5, <2>6, <2>7
<1>2. ASSUME NEW ok \in BOOLEAN, StreamOn(ok) PROVE SessionInv'
  <2>1. /\ pc = "queue" /\ call = "start" /\ WholeSession /\ sys = "Prepared" /\ ~streaming
        /\ driver = Buffers /\ held = Owned
    BY <1>0, <1>2 DEF StreamOn, SessionInv
  <2>2. UNCHANGED <<fd, kernel_buffers, regions, held, driver>> /\ (streaming' <=> ok)
    BY <1>2 DEF StreamOn
  <2>3. (held = Owned)'
    BY <2>1, <2>2, OwnedKept
  <2>4. CASE ok
    <3>1. pc' = "settle" /\ call' = "start" /\ sys' = "Running"
      BY <1>2, <2>1, <2>4 DEF StreamOn
    <3> QED
      BY <2>1, <2>2, <2>3, <2>4, <3>1 DEF SessionInv, WholeSession
  <2>5. CASE ~ok
    <3>1. pc' = "undo" /\ call' = "start" /\ sys' = sys
      BY <1>2, <2>1, <2>5 DEF StreamOn
    <3> QED
      BY <2>1, <2>2, <2>3, <2>5, <3>1 DEF SessionInv, WholeSession
  <2> QED
    BY <2>4, <2>5
<1>3. ASSUME NEW ok \in BOOLEAN, UndoStart(ok) PROVE SessionInv'
  <2>1. /\ pc = "undo" /\ call = "start" /\ WholeSession /\ sys = "Prepared" /\ ~streaming
        /\ held = Owned
    BY <1>3 DEF UndoStart, SessionInv
  <2>2. UNCHANGED <<sys, fd, kernel_buffers, regions, held>> /\ ~streaming'
        /\ driver' = IF ok THEN {} ELSE driver
    BY <1>3, <2>1 DEF UndoStart, StreamOff
  <2>3. (held = Owned)' /\ WholeSession'
    BY <2>1, <2>2, OwnedKept DEF WholeSession
  <2>4. CASE ok
    <3>1. pc' = "idle" /\ node' = "Error"
      BY <1>3, <2>1, <2>4 DEF UndoStart, Returns, NodeAfter
    <3> QED
      BY <2>1, <2>2, <2>3, <2>4, <3>1 DEF SessionInv, Resting
  <2>5. CASE ~ok
    <3>1. pc' = "off" /\ call' = "start" /\ failure'
      BY <1>3, <2>1, <2>5 DEF UndoStart, UndoFailed
    <3> QED
      BY <2>1, <2>2, <2>3, <3>1 DEF SessionInv, WholeSession
  <2> QED
    BY <2>4, <2>5
<1>4. ASSUME NEW ok \in BOOLEAN, StopStream(ok) PROVE SessionInv'
  <2>1. /\ pc = "streamoff" /\ call \in {"start", "stop"} /\ (call = "start" => failure)
        /\ NoSession \/ WholeSession
        /\ sys # "Running" => Resting
        /\ held = Owned
    BY <1>4 DEF StopStream, SessionInv
  <2>2. UNCHANGED <<fd, kernel_buffers, regions, held>>
    BY <1>4 DEF StopStream, StreamOff
  <2>3. (held = Owned)'
    BY <2>1, <2>2, OwnedKept
  <2>4. pc' = "idle" /\ node' \in {"Error", "Stopped"}
    <3>1. \/ Returns(ok /\ ~failure) \/ Returns(~failure)
      BY <1>4 DEF StopStream
    <3> QED
      BY <2>1, <3>1 DEF Returns, NodeAfter
  <2>5. CASE sys = "Running"
    <3>1. sys' = (IF ok THEN "Prepared" ELSE sys) /\ (ok => Resting')
      BY <1>4, <2>5 DEF StopStream, StreamOff, Resting
    <3>2. WholeSession' /\ (sys' # "Running" => Resting')
      BY <2>1, <2>2, <2>5, <3>1 DEF WholeSession, NoSession
    <3> QED
      BY <2>3, <2>4, <3>2 DEF SessionInv
  <2>6. CASE sys # "Running"
    <3>1. UNCHANGED <<sys, driver, streaming>>
      BY <1>4, <2>6 DEF StopStream
    <3>2. (NoSession' \/ WholeSession') /\ (sys' # "Running" => Resting')
      BY <2>1, <2>2, <3>1 DEF NoSession, WholeSession, Resting
    <3> QED
      BY <2>3, <2>4, <3>2 DEF SessionInv
  <2> QED
    BY <2>5, <2>6
<1>5. ASSUME NEW ok \in BOOLEAN, Settle(ok) PROVE SessionInv'
  <2>1. /\ pc = "settle" /\ call = "start" /\ WholeSession /\ sys = "Running" /\ streaming
        /\ driver = Buffers /\ held = Owned
    BY <1>5 DEF Settle, SessionInv
  <2>2. UNCHANGED <<sys, fd, kernel_buffers, regions, held, driver, streaming>>
    BY <1>5 DEF Settle
  <2>3. (held = Owned)' /\ WholeSession'
    BY <2>1, <2>2, OwnedKept DEF WholeSession
  <2>4. \/ pc' = "idle" /\ node' = "Running"
        \/ pc' = "streamoff" /\ call' = "start" /\ failure'
    BY <1>5, <2>1 DEF Settle, Returns, NodeAfter
  <2> QED
    BY <2>1, <2>2, <2>3, <2>4 DEF SessionInv
<1> QED
  BY <1>1, <1>2, <1>3, <1>4, <1>5 DEF Starting

\* Stopping and releasing give back what the session holds.
LEMMA ReleasingSession ==
  ASSUME TypeOK, TypeOK', SessionInv, Releasing
  PROVE  SessionInv'
<1> USE DEF nodeVars, sysVars, callVars, tickVars, deviceVars, Enters, Goes
<1>0. /\ call \in {"prepare", "start", "reset", "destroy"} /\ (call \in {"prepare", "start"} => failure)
      /\ ~fd => Resting /\ ~kernel_buffers
      /\ ~kernel_buffers => regions = 0
      /\ held = Owned /\ regions \in Nat
  BY DEF Releasing, ReleaseStream, Unmap, FreeBuffers, Close, SessionInv, TypeOK
<1>1. ASSUME NEW ok \in BOOLEAN, ReleaseStream(ok) PROVE SessionInv'
  <2>1. /\ pc' = "unmap" /\ call' = call /\ UNCHANGED <<fd, kernel_buffers, regions, held>>
        /\ failure => failure'
    BY <1>1 DEF ReleaseStream, StreamOff
  <2>2. (held = Owned)'
    BY <1>0, <2>1, OwnedKept
  <2>3. Resting => Resting'
    BY <1>1 DEF ReleaseStream, StreamOff, Resting
  <2> QED
    BY <1>0, <2>1, <2>2, <2>3 DEF SessionInv
<1>2. ASSUME NEW ok \in BOOLEAN, Unmap(ok) PROVE SessionInv'
  <2>1. /\ pc' = "unmap" /\ call' = call /\ UNCHANGED <<fd, kernel_buffers, driver, streaming>>
        /\ failure => failure'
        /\ regions > 0 /\ regions' = regions - 1 /\ held' = held \ {Mapped(regions)}
    BY <1>2 DEF Unmap
  <2>2. (held = Owned)'
    <3>1. 1..regions = 1..regions' \cup {regions} /\ regions \notin 1..regions'
          /\ regions' \in Nat
      BY <1>0, <2>1
    <3>2. {Mapped(b) : b \in 1..regions} = {Mapped(b) : b \in 1..regions'} \cup {Mapped(regions)}
      BY <3>1
    <3>3. \A b \in 1..regions' : Mapped(b) # Mapped(regions)
      BY <1>0, <3>1, ResourcesApart
    <3>4. Mapped(regions) \notin {Descriptor, KernelBuffers}
      BY <1>0, ResourcesApart
    <3>5. Mapped(regions) \notin Owned'
      BY <3>3, <3>4 DEF Owned
    <3>6. Owned = Owned' \cup {Mapped(regions)}
      BY <2>1, <3>2 DEF Owned
    <3> QED
      BY <1>0, <2>1, <3>5, <3>6
  <2> QED
    BY <1>0, <2>1, <2>2 DEF SessionInv, Resting
<1>3. ASSUME NEW ok \in BOOLEAN, FreeBuffers(ok) PROVE SessionInv'
  <2>1. /\ pc' = "close" /\ call' = call /\ UNCHANGED <<fd, regions>> /\ regions = 0
        /\ failure => failure'
        /\ ~kernel_buffers'
        /\ held' = IF kernel_buffers THEN held \ {KernelBuffers} ELSE held
        /\ Resting => Resting'
    BY <1>3 DEF FreeBuffers, Resting
  <2>2. (held = Owned)'
    <3>1. {Mapped(b) : b \in 1..regions} = {}
      BY <2>1
    <3> QED
      BY <1>0, <2>1, <3>1, ResourcesApart DEF Owned
  <2> QED
    BY <1>0, <2>1, <2>2 DEF SessionInv
<1>4. ASSUME NEW ok \in BOOLEAN, Close(ok) PROVE SessionInv'
  <2>1. /\ pc = "close" /\ ~kernel_buffers /\ regions = 0
        /\ UNCHANGED <<kernel_buffers, regions>> /\ ~fd' /\ sys' = "Created"
        /\ held' = IF fd THEN held \ {Descriptor} ELSE held
    BY <1>0, <1>4 DEF Close, SessionInv
  <2>2. Resting' /\ NoSession'
    BY <1>0, <1>4, <2>1 DEF Close, Resting, NoSession
  <2>3. (held = Owned)'
    <3>1. {Mapped(b) : b \in 1..regions} = {}
      BY <2>1
    <3> QED
      BY <1>0, <2>1, <3>1 DEF Owned
  <2>4. /\ pc' = "idle" /\ node' \in {"Error", "Created", "Destroyed"}
        /\ node' \in {"Created", "Destroyed"} => call \in {"reset", "destroy"}
    <3>1. Returns(~failure /\ (fd => ok))
      BY <1>4 DEF Close
    <3> QED
      BY <1>0, <3>1 DEF Returns, NodeAfter
  <2>5. call \in {"reset", "destroy"} => ~formats'
    BY <1>4 DEF Close
  <2> QED
    BY <2>2, <2>3, <2>4, <2>5 DEF SessionInv
<1> QED
  BY <1>1, <1>2, <1>3, <1>4 DEF Releasing

\* A tick leaves the session as it is.
LEMMA TickingSession ==
  ASSUME TypeOK, SessionInv, Ticking
  PROVE  SessionInv'
<1> USE DEF nodeVars, sysVars, callVars, tickVars, deviceVars, Enters, Goes, Continues
<1>0. /\ UNCHANGED <<sys, fd, kernel_buffers, regions, held, streaming, formats>>
      /\ held = Owned
  BY DEF Ticking, DequeueNothing, Requeue, SendPending, Send, Dequeue, SessionInv
<1>1. /\ (held = Owned)'
      /\ WholeSession' <=> WholeSession
  BY <1>0, OwnedKept DEF WholeSession
<1>2. pc = "idle" /\ node = "Running" =>
        /\ WholeSession /\ sys = "Running" /\ streaming /\ driver = Buffers
  BY DEF SessionInv, NoSession
<1>I. ASSUME WholeSession, sys = "Running", pc' = "idle", node' \in {"Running", "Error"},
             node' = "Running" => streaming /\ driver' = Buffers
      PROVE  SessionInv'
  BY <1>0, <1>1, <1>I DEF SessionInv
<1>3. ASSUME NEW ok \in BOOLEAN, NEW also \in BOOLEAN, DequeueNothing(ok, also)
      PROVE  SessionInv'
  <2>1. pc = "idle" /\ node = "Running" /\ pc' = "idle" /\ node' \in {"Running", "Error"}
        /\ driver' = driver
    BY <1>3 DEF DequeueNothing, TickStarts
  <2> QED
    BY <1>2, <1>I, <2>1
<1>4. ASSUME NEW ok \in BOOLEAN, NEW also \in BOOLEAN, Requeue(ok, also)
      PROVE  SessionInv'
  <2>1. pc = "requeue" /\ WholeSession /\ Capturing /\ k \in Buffers /\ driver = Buffers \ {k}
    BY <1>4 DEF Requeue, SessionInv
  <2>2. driver' = IF ok THEN driver \cup {k} ELSE driver
    BY <1>4 DEF Requeue
  <2>3. \/ Returns(FALSE)
        \/ ok /\ pc' = "send" /\ call' = call /\ node' = node
    BY <1>4, Zenon DEF Requeue
  <2>4. CASE Returns(FALSE)
    <3>1. pc' = "idle" /\ node' = "Error"
      BY <2>1, <2>4 DEF Returns, NodeAfter, Capturing
    <3> QED
      BY <1>I, <2>1, <3>1 DEF Capturing
  <2>5. CASE ok /\ pc' = "send" /\ call' = call /\ node' = node
    <3>1. driver' = Buffers
      BY <2>1, <2>2, <2>5
    <3> QED
      BY <1>0, <1>1, <2>1, <2>5, <3>1 DEF SessionInv, Capturing
  <2> QED
    BY <2>3, <2>4, <2>5
<1>5. ASSUME NEW ok \in BOOLEAN, NEW answer \in Answers, SendPending(answer, ok)
      PROVE  SessionInv'
  <2>1. pc = "idle" /\ node = "Running" /\ pc' = "idle" /\ node' \in {"Running", "Error"}
        /\ driver' = driver
    BY <1>5 DEF SendPending, TickStarts, Answers
  <2> QED
    BY <1>2, <1>I, <2>1
<1>6. ASSUME NEW ok \in BOOLEAN, NEW answer \in Answers, Send(answer, ok)
      PROVE  SessionInv'
  <2>1. pc = "send" /\ WholeSession /\ Capturing /\ driver = Buffers /\ driver' = driver
    BY <1>6 DEF Send, SessionInv
  <2>2. Returns(TRUE) \/ Returns(FALSE)
    BY <1>6, CallsReturn DEF Send, Answers
  <2>3. pc' = "idle" /\ node' \in {"Running", "Error"}
    BY <2>1, <2>2 DEF Returns, NodeAfter, Capturing
  <2> QED
    BY <1>I, <2>1, <2>3 DEF Capturing
<1>7. ASSUME NEW ok \in BOOLEAN, NEW b \in Buffers, NEW n \in 1..MaxFrame, NEW t \in 0..MaxPts,
             Dequeue(b, n, t, ok)
      PROVE  SessionInv'
  <2>1. pc = "idle" /\ node = "Running" /\ node' = node /\ driver' = driver \ {b}
        /\ pc' = "requeue" /\ call' = "tick" /\ k' = b
    BY <1>7 DEF Dequeue, TickStarts
  <2> QED
    BY <1>0, <1>1, <1>2, <2>1 DEF SessionInv, Capturing
<1> QED
  BY <1>3, <1>4, <1>5, <1>6, <1>7 DEF Ticking

\* Every step keeps the session.
LEMMA SessionStep ==
  ASSUME TypeOK, TypeOK', SessionInv, Next
  PROVE  SessionInv'
BY NextSteps, CallsSession, PreparingSession, StartingSession, ReleasingSession, TickingSession

------------------------------------------------------------------------------
(***************************************************************************)
(* The frames.                                                             *)
(***************************************************************************)

\* Unsigned subtraction gives the distance of two numbers that are less than a
\* modulus apart, whether or not the sequence has wrapped between them.
LEMMA Unwrapped ==
  ASSUME NEW M \in Nat \ {0}, NEW c \in Int, NEW n \in Int, n - c \in 0..(M - 1)
  PROVE  ((n % M) - (c % M)) % M = n - c
<1> DEFINE a == n \div M
           e == c \div M
<1>1. n = M * a + (n % M) /\ c = M * e + (c % M)
  OBVIOUS
<1>2. (n % M) \in 0..(M - 1) /\ (c % M) \in 0..(M - 1) /\ a \in Int /\ e \in Int
  OBVIOUS
<1> HIDE DEF a, e
<1>3. (n % M) - (c % M) = M * (e - a) + (n - c)
  BY <1>1, <1>2
<1> DEFINE x == (n % M) - (c % M)
<1>4. x \in Int /\ e - a \in Int /\ x = M * (e - a) + (n - c)
  BY <1>2, <1>3
<1> HIDE DEF x
<1>5. \A y \in Int, q \in Int, r \in 0..(M - 1) : y = M * q + r => y % M = r
  OBVIOUS
<1>6. x % M = n - c
  BY <1>4, <1>5
<1> QED
  BY <1>6 DEF x

\* The driver's gap is counted right while it is shorter than its numbers.
LEMMA MissingExact ==
  ASSUME NEW n \in Int, last \in Frames, n - last.n \in 1..Modulus
  PROVE  Missing(n) = n - last.n - 1
<1>1. Modulus \in Nat \ {0}
  BY ModulusAssumption
<1>2. last # None /\ last.n \in Int
  BY FramesTold
<1> DEFINE c == last.n + 1
<1>3. c \in Int /\ n - c \in 0..(Modulus - 1) /\ n - c = n - last.n - 1
  BY <1>1, <1>2
<1>4. Missing(n) = ((n % Modulus) - (c % Modulus)) % Modulus
  BY <1>2 DEF Missing, Ahead, Sequence
<1> HIDE DEF c
<1>5. ((n % Modulus) - (c % Modulus)) % Modulus = n - c
  BY <1>1, <1>3, Unwrapped, Zenon
<1> QED
  BY <1>3, <1>4, <1>5, Zenon

\* The calls but for the ticks: no frame is captured, and none sent.
LEMMA CallsFrames ==
  ASSUME TypeOK, SessionInv, FramesInv, Calls \/ Preparing \/ Starting \/ Releasing
  PROVE  FramesInv'
<1> USE DEF nodeVars, sysVars, callVars, tickVars, deviceVars, Enters, Goes, Fails, Continues,
        Rollback
<1>1. CASE PrepareCalled \/ Destroy \/ \E ok \in BOOLEAN : StopCalled(ok) \/ ResetCalled(ok)
  <2>1. pc' \in {"idle", "open", "streamoff", "off"} /\ (pc' = "idle" => node' # "Running")
    BY <1>1 DEF PrepareCalled, Destroy, StopCalled, ResetCalled
  <2> QED
    BY <2>1 DEF FramesInv
<1>2. CASE StartCalled
  BY <1>2 DEF StartCalled, FramesInv
<1>3. CASE Preparing
  <2>1. pc' \in {"negotiate", "request", "map", "formats", "off", "idle"}
        /\ (pc' = "idle" => node' # "Running")
    BY <1>3 DEF Preparing, SessionPrepared, Open, Negotiate, MapBuffer, KeepFormats, RequestBuffers,
                Returns, NodeAfter, SessionInv
  <2> QED
    BY <2>1 DEF FramesInv
<1>4. CASE Starting
  <2>1. last' = last
    BY <1>4 DEF Starting, QueueBuffer, StreamOn, UndoStart, StopStream, Settle
  <2>2. ASSUME NEW ok \in BOOLEAN, QueueBuffer(ok) \/ StreamOn(ok) \/ Settle(ok)
        PROVE  /\ last = None /\ pc' \in {"queue", "undo", "settle", "idle", "streamoff"}
    BY <2>2 DEF QueueBuffer, StreamOn, Settle, Returns, FramesInv
  <2>3. ASSUME NEW ok \in BOOLEAN, UndoStart(ok)
        PROVE  pc' \in {"idle", "off"} /\ (pc' = "idle" => node' # "Running")
    BY <2>3 DEF UndoStart, UndoFailed, Returns, NodeAfter, SessionInv
  <2>4. ASSUME NEW ok \in BOOLEAN, StopStream(ok)
        PROVE  pc' = "idle" /\ node' # "Running"
    <3>1. Returns(ok /\ ~failure) \/ Returns(~failure)
      BY <2>4 DEF StopStream
    <3>2. call \in {"start", "stop"} /\ (call = "start" => failure)
      BY <2>4 DEF StopStream, SessionInv
    <3> QED
      BY <3>1, <3>2 DEF Returns, NodeAfter
  <2> QED
    BY <1>4, <2>1, <2>2, <2>3, <2>4 DEF Starting, FramesInv
<1>5. CASE Releasing
  <2>1. ASSUME NEW ok \in BOOLEAN, ReleaseStream(ok) \/ Unmap(ok) \/ FreeBuffers(ok)
        PROVE  pc' \in {"unmap", "close"}
    BY <2>1 DEF ReleaseStream, Unmap, FreeBuffers
  <2>2. ASSUME NEW ok \in BOOLEAN, Close(ok)
        PROVE  pc' = "idle" /\ node' # "Running"
    <3>1. Returns(~failure /\ (fd => ok))
      BY <2>2 DEF Close
    <3>2. call \in {"prepare", "start", "reset", "destroy"} /\ (call \in {"prepare", "start"} => failure)
      BY <2>2 DEF Close, SessionInv
    <3> QED
      BY <3>1, <3>2 DEF Returns, NodeAfter
  <2> QED
    BY <1>5, <2>1, <2>2 DEF Releasing, FramesInv
<1> QED
  BY <1>1, <1>2, <1>3, <1>4, <1>5 DEF Calls

\* A tick accounts for the frame it takes.
LEMMA TickingFrames ==
  ASSUME TypeOK, SessionInv, FramesInv, Ticking
  PROVE  FramesInv'
<1> USE DEF nodeVars, sysVars, callVars, tickVars, deviceVars, Enters, Goes, Continues
<1>0. /\ last \in Frames \cup {None} /\ pending \in Frames \cup {None} /\ frame \in Frames \cup {None}
      /\ tally \in Nat /\ produced \in Nat
  BY BoundAssumption DEF TypeOK
<1>1. \A f \in Frames : f # None /\ f.n \in Nat
  BY FramesTold
<1>2. ASSUME NEW ok \in BOOLEAN, NEW also \in BOOLEAN, DequeueNothing(ok, also)
      PROVE  FramesInv'
  <2>1. /\ pc = "idle" /\ pc' = "idle" /\ node = "Running"
        /\ UNCHANGED <<last, pending, produced, tally>>
    BY <1>2 DEF DequeueNothing, TickStarts
  <2> QED
    BY <2>1 DEF FramesInv
<1>3. ASSUME NEW ok \in BOOLEAN, NEW also \in BOOLEAN, Requeue(ok, also)
      PROVE  FramesInv'
  <2>1. /\ pending = None /\ frame # None /\ frame.n = produced
        /\ last # None => tally = last.n /\ frame.n - last.n \in 1..Modulus
    BY <1>3 DEF Requeue, FramesInv
  <2>2. CASE Returns(FALSE)
    <3>1. pc' = "idle" /\ node' = "Error"
      BY <1>3, <2>2 DEF Requeue, Returns, NodeAfter, SessionInv, Capturing
    <3> QED
      BY <3>1 DEF FramesInv
  <2>3. CASE ~Returns(FALSE)
    <3>1. /\ pc' = "send" /\ last' = frame /\ UNCHANGED <<frame, pending, produced>>
          /\ tally' = IF last = None THEN frame.n - 1 ELSE tally + Missing(frame.n)
      BY <1>3, <2>3, Zenon DEF Requeue
    <3>2. frame \in Frames /\ frame.n \in Nat
      BY <1>0, <1>1, <2>1
    <3>3. tally' + 1 = frame.n
      <4>1. CASE last = None
        BY <3>1, <3>2, <4>1
      <4>2. CASE last # None
        <5>1. last \in Frames /\ last.n \in Nat
          BY <1>0, <1>1, <4>2
        <5>2. Missing(frame.n) = frame.n - last.n - 1
          BY <2>1, <3>2, <4>2, <5>1, MissingExact
        <5> QED
          BY <1>0, <2>1, <3>1, <3>2, <4>2, <5>1, <5>2
      <4> QED
        BY <4>1, <4>2
    <3> QED
      BY <2>1, <3>1, <3>3 DEF FramesInv
  <2> QED
    BY <2>2, <2>3
<1>4. ASSUME NEW ok \in BOOLEAN, NEW answer \in Answers, SendPending(answer, ok)
      PROVE  FramesInv'
  <2>1. /\ pc = "idle" /\ pc' = "idle" /\ node = "Running" /\ pending # None
        /\ UNCHANGED <<last, produced>>
    BY <1>4 DEF SendPending, TickStarts
  <2>2. \/ pending' = None /\ tally' = tally + 1
        \/ UNCHANGED <<pending, tally>>
    BY <1>4, Zenon DEF SendPending, Sends, Answers
  <2> QED
    BY <1>0, <2>1, <2>2 DEF FramesInv
<1>5. ASSUME NEW ok \in BOOLEAN, NEW answer \in Answers, Send(answer, ok)
      PROVE  FramesInv'
  <2>1. /\ pending = None /\ last # None /\ frame = last /\ last.n = produced /\ tally + 1 = last.n
        /\ call = "tick"
    BY <1>5 DEF Send, FramesInv, SessionInv, Capturing
  <2>2. UNCHANGED <<last, produced>>
    BY <1>5 DEF Send
  <2>3. /\ pc' = "idle"
        /\ \/ pending' = frame /\ tally' = tally
           \/ pending' = pending /\ tally' = tally + 1
           \/ node' = "Error"
    BY <1>5, <2>1 DEF Send, Sends, Answers, Returns, NodeAfter
  <2> QED
    BY <1>0, <2>1, <2>2, <2>3 DEF FramesInv
<1>6. ASSUME NEW ok \in BOOLEAN, NEW b \in Buffers, NEW n \in 1..MaxFrame, NEW t \in 0..MaxPts,
             Dequeue(b, n, t, ok)
      PROVE  FramesInv'
  <2>1. /\ pc = "idle" /\ node = "Running" /\ pending = None /\ n - produced \in 1..Modulus
        /\ pc' = "requeue" /\ produced' = n /\ frame' = [n |-> n, pts |-> Pts(t)]
        /\ UNCHANGED <<last, pending, tally>>
    BY <1>6 DEF Dequeue, TickStarts, MayDequeue
  <2>2. Pts(t) \in 0..MaxPts
    BY <1>0, FramesTold DEF Pts
  <2>3. frame' # None /\ frame'.n = n
    BY <2>1, <2>2, FramesTold
  <2>4. last # None => last.n = produced /\ tally = last.n
    BY <1>0, <2>1 DEF FramesInv
  <2> QED
    BY <2>1, <2>3, <2>4 DEF FramesInv
<1> QED
  BY <1>2, <1>3, <1>4, <1>5, <1>6 DEF Ticking

------------------------------------------------------------------------------
(***************************************************************************)
(* The invariant, and what follows from it.                                *)
(***************************************************************************)
IInv == TypeOK /\ SessionInv /\ FramesInv

\* The invariant holds at the beginning.
LEMMA InitIInv == Init => IInv
<1> SUFFICES ASSUME Init PROVE IInv
  OBVIOUS
<1>1. TypeOK
  <2>1. /\ fd \in BOOLEAN /\ kernel_buffers \in BOOLEAN /\ formats \in BOOLEAN
        /\ failure \in BOOLEAN /\ corrupt \in BOOLEAN /\ streaming \in BOOLEAN
    BY DEF Init
  <2>2. RestTyped
    BY CountAssumption, BoundAssumption DEF Init, RestTyped, Nodes, Steps, CallNames
  <2> QED
    BY <2>1, <2>2, TypesSplit
<1>2. SessionInv
  <2>1. held = Owned
    BY DEF Init, Owned
  <2> QED
    BY <2>1 DEF Init, SessionInv, NoSession, Resting
<1> QED
  BY <1>1, <1>2 DEF Init, FramesInv, IInv

\* The invariant is inductive.
LEMMA IInvStep == IInv /\ [Next]_vars => IInv'
<1> SUFFICES ASSUME IInv, [Next]_vars PROVE IInv'
  OBVIOUS
<1>1. CASE Next
  <2>1. TypeOK' /\ SessionInv'
    BY <1>1, TypeStep, SessionStep DEF IInv
  <2>2. FramesInv'
    BY <1>1, NextSteps, CallsFrames, TickingFrames DEF IInv
  <2> QED
    BY <2>1, <2>2 DEF IInv
<1>2. CASE UNCHANGED vars
  <2> USE DEF vars, nodeVars, sysVars, callVars, tickVars, deviceVars
  <2>1. TypeOK'
    BY <1>2, ZenonT(60) DEF IInv, TypeOK
  <2>2. SessionInv'
    BY <1>2, Zenon DEF IInv, SessionInv, Owned, NoSession, WholeSession, Resting, Capturing
  <2>3. FramesInv'
    BY <1>2, Zenon DEF IInv, FramesInv
  <2> QED
    BY <2>1, <2>2, <2>3 DEF IInv
<1> QED
  BY <1>1, <1>2

\* The invariant holds of every behaviour.
LEMMA Invariance == Spec => []IInv
BY InitIInv, IInvStep, PTL DEF Spec

\* TypeOK: every variable keeps its type, the tally of frames too, which only
\* grows.
THEOREM TypeCorrect == Spec => []TypeOK
<1>1. IInv => TypeOK
  BY DEF IInv
<1> QED
  BY <1>1, Invariance, PTL

\* SessionAccounted: whichever system call fails on the way, what the node thinks
\* it holds is what it holds; and a node created, reset or destroyed holds nothing.
THEOREM SessionSafety == Spec => []SessionAccounted
<1>1. IInv => SessionAccounted
  <2> SUFFICES ASSUME IInv, pc = "idle"
               PROVE  /\ sys = "Created" <=> held = {}
                      /\ node \in {"Created", "Destroyed"} => sys = "Created" /\ ~formats
    BY DEF IInv, SessionInv, SessionAccounted
  <2>1. held = Owned /\ (NoSession \/ WholeSession)
        /\ (node \in {"Created", "Destroyed"} => NoSession /\ ~formats)
    BY DEF IInv, SessionInv
  <2>2. NoSession => sys = "Created" /\ held = {}
    BY <2>1 DEF NoSession, Owned
  <2>3. WholeSession => sys # "Created" /\ held # {}
    BY <2>1 DEF WholeSession, Owned
  <2> QED
    BY <2>1, <2>2, <2>3
<1> QED
  BY <1>1, Invariance, PTL

\* BuffersInPlace: between calls a running node has every buffer in the driver, and
\* a session that does not run has none there, after a start undone half way too.
THEOREM BuffersSafety == Spec => []BuffersInPlace
<1>1. IInv => BuffersInPlace
  BY DEF IInv, SessionInv, BuffersInPlace, Resting
<1> QED
  BY <1>1, Invariance, PTL

\* FramesAccounted: no frame the driver has produced is lost in silence; the gaps
\* are counted right across the wrap of the sequence, for every even modulus.
THEOREM FramesSafety == Spec => []FramesAccounted
<1>1. IInv => FramesAccounted
  BY DEF IInv, FramesInv, FramesAccounted
<1> QED
  BY <1>1, Invariance, PTL
==============================================================================
