----------------------------- MODULE V4L2Capture -----------------------------
(***************************************************************************)
(* V4L2SourceNode over V4L2System over a capture device: the session's     *)
(* descriptor, kernel buffers and mappings, acquired and released one      *)
(* system call at a time with any call able to fail; the buffers going     *)
(* round between the driver and the node; and the frames the node sends.   *)
(*                                                                         *)
(* One thread makes every call.  The methods are those of MediaNode with   *)
(* the hooks they call; whether the queues downstream have room, and what  *)
(* the driver and the observer answer, is left open.                       *)
(***************************************************************************)
EXTENDS Integers, FiniteSets

CONSTANTS
  Count,      \* buffers the driver grants, at least two
  Modulus,    \* the driver's sequence numbers wrap here: 2^32
  MaxFrame,   \* bound: frames the driver produces in a session
  MaxPts      \* bound: timestamps are 0..MaxPts

ASSUME CountAssumption == Count \in Nat \ {0, 1}
ASSUME ModulusAssumption == Modulus \in Nat \ {0} /\ Modulus % 2 = 0
ASSUME BoundAssumption == MaxFrame \in Nat /\ MaxPts \in Nat

VARIABLES
  node,            \* MediaNode::state_
  sys,             \* V4L2System::state_
  fd,              \* fd_ >= 0
  kernel_buffers,  \* kernel_buffers_allocated_
  regions,         \* size of regions_
  formats,         \* actual_format and cpu_format are set
  pending,         \* the frame that waits for room downstream
  last,            \* has_pts, last_pts, has_sequence: the newest captured frame
  pc, call,        \* the step of the call that runs
  k,               \* position of its loop over the buffers
  failure,         \* a failure to return once the call is through
  frame, corrupt,  \* in a tick: the frame dequeued, and whether copying it failed
  \* the device
  held,            \* what the node has acquired and not yet tried to release
  driver,          \* the buffers queued in the driver
  streaming,
  produced,        \* frames it has produced since it streams
  \* history, for the properties
  sent,            \* the newest frame sent
  tally            \* how many frames up to the newest captured one the node has
                   \* sent or reported missing

nodeVars   == <<formats, pending, last>>
sysVars    == <<sys, fd, kernel_buffers, regions>>
callVars   == <<pc, call, k, failure>>
tickVars   == <<frame, corrupt, sent, tally>>
deviceVars == <<held, driver, streaming, produced>>
vars == <<node, nodeVars, sysVars, callVars, tickVars, deviceVars>>

Buffers == 1..Count
Descriptor == <<"fd", 0>>
KernelBuffers == <<"buffers", 0>>
Mapped(b) == <<"mapping", b>>
Resources == {Descriptor, KernelBuffers} \cup {Mapped(b) : b \in Buffers}
None   == [n |-> 0, pts |-> 0]
Frames == [n : 1..MaxFrame, pts : 0..MaxPts]

Init ==
  /\ node = "Created" /\ sys = "Created"
  /\ fd = FALSE /\ kernel_buffers = FALSE /\ regions = 0
  /\ formats = FALSE /\ pending = None /\ last = None
  /\ pc = "idle" /\ call = "none" /\ k = 0 /\ failure = FALSE
  /\ frame = None /\ corrupt = FALSE /\ sent = None /\ tally = 0
  /\ held = {} /\ driver = {} /\ streaming = FALSE /\ produced = 0

Enters(phase, c, n, failed) == pc' = phase /\ call' = c /\ k' = n /\ failure' = failed
Goes(phase) == Enters(phase, call, 0, failure)
Fails(phase) == Enters(phase, call, 0, TRUE)

\* MediaNode's state after a hook, and the return of the call
NodeAfter(ok) ==
  CASE ~ok -> "Error"
    [] ok /\ call = "prepare" -> "Prepared"
    [] ok /\ call = "start"   -> "Running"
    [] ok /\ call = "stop"    -> "Stopped"
    [] ok /\ call = "reset"   -> "Created"
    [] ok /\ call = "tick"    -> node
Returns(ok) ==
  /\ node' = IF call = "destroy" THEN "Destroyed" ELSE NodeAfter(ok)
  /\ Enters("idle", "none", 0, FALSE)
Continues == UNCHANGED node

------------------------------------------------------------------------------
(***************************************************************************)
(* prepare: the session is acquired step by step; a failure resets it.     *)
(***************************************************************************)
\* Formats that a stop has kept make prepare return at once
PrepareCalled ==
  /\ pc = "idle" /\ node \in {"Created", "Stopped"}
  /\ IF formats THEN node' = "Prepared" /\ UNCHANGED callVars
     ELSE /\ IF sys = "Created" THEN Enters("open", "prepare", 0, FALSE) /\ Continues
             ELSE node' = "Error" /\ UNCHANGED callVars
  /\ UNCHANGED <<nodeVars, sysVars, tickVars, deviceVars>>

\* Mutant: a failed preparation is returned without releasing anything
Rollback_Skipped == Returns(FALSE)
\* V4L2System::rollback resets the session, whatever of it exists
Rollback == Fails("off") /\ Continues

Open(ok) ==
  /\ pc = "open"
  /\ fd' = ok /\ held' = IF ok THEN held \cup {Descriptor} ELSE held
  /\ IF ok THEN Goes("negotiate") /\ Continues ELSE Rollback
  /\ UNCHANGED <<nodeVars, sys, kernel_buffers, regions, tickVars, driver, streaming, produced>>

\* Capabilities, format and frame interval; nothing is acquired
Negotiate(ok) ==
  /\ pc = "negotiate"
  /\ IF ok THEN Goes("request") /\ Continues ELSE Rollback
  /\ UNCHANGED <<nodeVars, sysVars, tickVars, deviceVars>>

\* REQBUFS; the driver may also grant buffers the node cannot use
RequestBuffers(ok, usable) ==
  /\ pc = "request"
  /\ kernel_buffers' = ok
  /\ held' = IF ok THEN held \cup {KernelBuffers} ELSE held
  /\ IF ok /\ usable THEN Goes("map") /\ Continues ELSE Rollback
  /\ UNCHANGED <<nodeVars, sys, fd, regions, tickVars, driver, streaming, produced>>

AllMapped == regions = Count

\* QUERYBUF and mmap of one buffer
MapBuffer(ok) ==
  /\ pc = "map" /\ ~AllMapped
  /\ regions' = IF ok THEN regions + 1 ELSE regions
  /\ held' = IF ok THEN held \cup {Mapped(regions + 1)} ELSE held
  /\ IF ok THEN Goes("map") /\ Continues ELSE Rollback
  /\ UNCHANGED <<nodeVars, sys, fd, kernel_buffers, tickVars, driver, streaming, produced>>

SessionPrepared ==
  /\ pc = "map" /\ AllMapped
  /\ sys' = "Prepared" /\ Goes("formats") /\ Continues
  /\ UNCHANGED <<nodeVars, fd, kernel_buffers, regions, tickVars, deviceVars>>

\* on_prepare keeps the negotiated formats, or resets the session itself
KeepFormats(ok) ==
  /\ pc = "formats"
  /\ formats' = ok
  /\ IF ok THEN Returns(TRUE) ELSE Rollback
  /\ UNCHANGED <<pending, last, sysVars, tickVars, deviceVars>>

------------------------------------------------------------------------------
(***************************************************************************)
(* start and stop.                                                         *)
(***************************************************************************)
StartCalled ==
  /\ pc = "idle" /\ node = "Prepared"
  /\ pending' = None /\ last' = None /\ sent' = None /\ tally' = 0
  /\ IF sys = "Prepared" THEN Enters("queue", "start", 0, FALSE) /\ Continues
     ELSE node' = "Error" /\ UNCHANGED callVars
  /\ UNCHANGED <<formats, sysVars, frame, corrupt, deviceVars>>

\* QBUF; the kernel refuses a buffer that is queued already
QueueBuffer(ok) ==
  /\ pc = "queue" /\ k < Count
  /\ LET accepted == ok /\ k + 1 \notin driver
     IN  /\ driver' = IF accepted THEN driver \cup {k + 1} ELSE driver
         /\ IF accepted THEN Enters("queue", call, k + 1, failure) /\ Continues
            ELSE IF k = 0 THEN Returns(FALSE)
            ELSE Fails("undo") /\ Continues
  /\ UNCHANGED <<nodeVars, sysVars, tickVars, held, streaming, produced>>

StreamOn(ok) ==
  /\ pc = "queue" /\ k = Count
  /\ streaming' = ok /\ produced' = 0
  /\ IF ok THEN sys' = "Running" /\ Goes("settle") ELSE UNCHANGED sys /\ Fails("undo")
  /\ Continues
  /\ UNCHANGED <<nodeVars, fd, kernel_buffers, regions, tickVars, held, driver>>

\* STREAMOFF gives every buffer back
StreamOff(ok) ==
  /\ streaming' = (streaming /\ ~ok)
  /\ driver' = IF ok THEN {} ELSE driver
  /\ UNCHANGED <<held, produced>>

\* Mutant: a start that cannot be undone keeps the session
UndoFailed_Keeps == Returns(FALSE)
UndoFailed == Rollback

\* rollback_start: the session is prepared again, or released altogether
UndoStart(ok) ==
  /\ pc = "undo"
  /\ StreamOff(ok)
  /\ IF ok THEN Returns(FALSE) ELSE UndoFailed
  /\ UNCHANGED <<nodeVars, sysVars, tickVars>>

\* The observer's failure at the end of on_start stops the device again
Settle(observed) ==
  /\ pc = "settle"
  /\ IF observed THEN Returns(TRUE) ELSE Fails("streamoff") /\ Continues
  /\ UNCHANGED <<nodeVars, sysVars, tickVars, deviceVars>>

\* stop, from every state but Created and Stopped.  A pending frame is dropped.
StopCalled(observed) ==
  /\ pc = "idle"
  /\ \/ /\ node \in {"Prepared", "Running", "Error"}
        /\ node' = "Draining" /\ pending' = None
        /\ Enters("streamoff", "stop", 0, pending # None /\ ~observed)
     \/ /\ node = "Created" /\ node' = "Stopped" /\ UNCHANGED <<pending, callVars>>
  /\ UNCHANGED <<formats, last, sysVars, tickVars, deviceVars>>

\* V4L2System::stop
StopStream(ok) ==
  /\ pc = "streamoff"
  /\ IF sys = "Running"
     THEN /\ StreamOff(ok) /\ sys' = IF ok THEN "Prepared" ELSE sys
          /\ Returns(ok /\ ~failure)
     ELSE Returns(~failure) /\ UNCHANGED <<sys, deviceVars>>
  /\ UNCHANGED <<nodeVars, fd, kernel_buffers, regions, tickVars>>

------------------------------------------------------------------------------
(***************************************************************************)
(* reset, and the destructor, which releases the same way.                 *)
(***************************************************************************)
ResetCalled(observed) ==
  /\ pc = "idle" /\ node \notin {"Created", "Destroyed"}
  /\ pending' = None
  /\ Enters("off", "reset", 0, pending # None /\ ~observed)
  /\ UNCHANGED <<node, formats, last, sysVars, tickVars, deviceVars>>

Destroy ==
  /\ pc = "idle" /\ node # "Destroyed"
  /\ Enters("off", "destroy", 0, FALSE)
  /\ UNCHANGED <<node, nodeVars, sysVars, tickVars, deviceVars>>

\* Every release below is tried once, whether or not it succeeds
ReleaseStream(ok) ==
  /\ pc = "off"
  /\ sys' = "Prepared"
  /\ IF sys = "Running" THEN StreamOff(ok) /\ Enters("unmap", call, 0, failure \/ ~ok)
     ELSE UNCHANGED deviceVars /\ Goes("unmap")
  /\ UNCHANGED <<node, nodeVars, fd, kernel_buffers, regions, tickVars>>

Unmap(ok) ==
  /\ pc = "unmap" /\ regions > 0
  /\ regions' = regions - 1 /\ held' = held \ {Mapped(regions)}
  /\ Enters("unmap", call, 0, failure \/ ~ok)
  /\ UNCHANGED <<node, nodeVars, sys, fd, kernel_buffers, tickVars, driver, streaming, produced>>

\* REQBUFS(0), which also ends the streaming
FreeBuffers(ok) ==
  /\ pc = "unmap" /\ regions = 0
  /\ IF kernel_buffers
     THEN /\ held' = held \ {KernelBuffers}
          /\ driver' = IF ok THEN {} ELSE driver
          /\ streaming' = (streaming /\ ~ok)
          /\ Enters("close", call, 0, failure \/ ~ok)
     ELSE Goes("close") /\ UNCHANGED <<held, driver, streaming>>
  /\ kernel_buffers' = FALSE
  /\ UNCHANGED <<node, nodeVars, sys, fd, regions, tickVars, produced>>

\* close ends whatever is left of the session; then the call returns
Close(ok) ==
  /\ pc = "close"
  /\ fd' = FALSE /\ sys' = "Created"
  /\ IF fd THEN held' = held \ {Descriptor} /\ driver' = {} /\ streaming' = FALSE
     ELSE UNCHANGED <<held, driver, streaming>>
  /\ formats' = (formats /\ call \notin {"reset", "destroy"})
  /\ last' = IF call = "reset" THEN None ELSE last
  /\ pending' = IF call = "destroy" THEN None ELSE pending
  /\ Returns(~failure /\ (fd => ok))
  /\ UNCHANGED <<kernel_buffers, regions, tickVars, produced>>

------------------------------------------------------------------------------
(***************************************************************************)
(* tick: a pending frame first; else one buffer is dequeued, copied and    *)
(* queued again, and the copy sent.                                        *)
(***************************************************************************)
TickStarts == pc = "idle" /\ node = "Running"

\* OutputPort::send: done, no room downstream, or failed
Answers == {"ok", "blocked", "failed"}
Sends(f) == sent' = f /\ tally' = tally + 1

MayDequeue == pending = None

SendPending(answer, observed) ==
  /\ TickStarts /\ pending # None
  /\ CASE answer = "ok" ->
            /\ Sends(pending) /\ pending' = None
            /\ node' = IF observed THEN node ELSE "Error"
       [] answer = "blocked" -> UNCHANGED <<node, pending, sent, tally>>
       [] answer = "failed" -> node' = "Error" /\ UNCHANGED <<pending, sent, tally>>
  /\ UNCHANGED <<formats, last, sysVars, callVars, frame, corrupt, deviceVars>>

\* DQBUF finds nothing: EAGAIN, or an error
DequeueNothing(fatal, observed) ==
  /\ TickStarts /\ MayDequeue
  /\ node' = IF fatal \/ ~observed THEN "Error" ELSE node
  /\ UNCHANGED <<nodeVars, sysVars, callVars, tickVars, deviceVars>>

\* timestamp_for: never below the newest frame's
Pts(candidate) == IF last # None /\ candidate < last.pts THEN last.pts ELSE candidate

\* DQBUF hands over a filled buffer.  The driver may have dropped frames since
\* the last one, if fewer than its sequence numbers.
Dequeue(b, n, candidate, damaged) ==
  /\ TickStarts /\ MayDequeue
  /\ streaming /\ b \in driver /\ n - produced \in 1..Modulus
  /\ driver' = driver \ {b} /\ produced' = n
  /\ frame' = [n |-> n, pts |-> Pts(candidate)] /\ corrupt' = damaged
  /\ Enters("requeue", "tick", b, FALSE)
  /\ UNCHANGED <<node, nodeVars, sysVars, sent, tally, held, streaming>>

Sequence(n) == n % Modulus
Ahead(n) == Sequence(n) - Sequence(last.n + 1)
\* Mutant: a sequence that has wrapped is taken for one without a gap
Missing_Plain(n) == IF last = None \/ Ahead(n) < 0 THEN 0 ELSE Ahead(n)
\* The frames missing before this one, by unsigned arithmetic on the sequence
Missing(n) == IF last = None THEN 0 ELSE Ahead(n) % Modulus
\* A gap of half the range or more is one that goes back: sequence_for
Backwards(n) == 2 * Missing(n) >= Modulus

\* The buffer is queued again whatever became of the copy; then the frame counts
Requeue(ok, observed) ==
  /\ pc = "requeue"
  /\ driver' = IF ok THEN driver \cup {k} ELSE driver
  /\ IF ~ok \/ corrupt \/ Backwards(frame.n)
     THEN Returns(FALSE) /\ frame' = None /\ UNCHANGED <<last, tally>>
     ELSE /\ last' = frame /\ UNCHANGED frame
          /\ tally' = IF last = None THEN frame.n - 1 ELSE tally + Missing(frame.n)
          /\ IF observed THEN Goes("send") /\ Continues ELSE Returns(FALSE)
  /\ corrupt' = FALSE
  /\ UNCHANGED <<formats, pending, sysVars, sent, held, streaming, produced>>

Send(answer, observed) ==
  /\ pc = "send"
  /\ CASE answer = "ok" -> Sends(frame) /\ UNCHANGED pending /\ Returns(TRUE)
       [] answer = "blocked" -> pending' = frame /\ Returns(observed) /\ UNCHANGED <<sent, tally>>
       [] answer = "failed" -> Returns(FALSE) /\ UNCHANGED <<pending, sent, tally>>
  /\ frame' = None
  /\ UNCHANGED <<formats, last, sysVars, corrupt, deviceVars>>

------------------------------------------------------------------------------
Next ==
  \/ PrepareCalled \/ SessionPrepared \/ StartCalled \/ Destroy
  \/ \E ok \in BOOLEAN :
       \/ Open(ok) \/ Negotiate(ok) \/ MapBuffer(ok) \/ KeepFormats(ok)
       \/ QueueBuffer(ok) \/ StreamOn(ok) \/ UndoStart(ok) \/ StopStream(ok)
       \/ ReleaseStream(ok) \/ Unmap(ok) \/ FreeBuffers(ok) \/ Close(ok)
       \/ Settle(ok) \/ StopCalled(ok) \/ ResetCalled(ok)
       \/ \E also \in BOOLEAN :
            RequestBuffers(ok, also) \/ DequeueNothing(ok, also) \/ Requeue(ok, also)
       \/ \E answer \in Answers : SendPending(answer, ok) \/ Send(answer, ok)
       \/ \E b \in Buffers, n \in 1..MaxFrame, t \in 0..MaxPts : Dequeue(b, n, t, ok)

Spec == Init /\ [][Next]_vars

------------------------------------------------------------------------------
(***************************************************************************)
(* Properties.                                                             *)
(***************************************************************************)
\* What the node's own variables say it holds.
Owned == (IF fd THEN {Descriptor} ELSE {}) \cup (IF kernel_buffers THEN {KernelBuffers} ELSE {})
           \cup {Mapped(b) : b \in 1..regions}

\* Whatever call failed on the way, the node's idea of its session is the
\* device's: no resource is lost track of and none is released twice; and a node
\* that is created, reset or destroyed has no session left.
SessionAccounted ==
  /\ held = Owned
  /\ pc = "idle" =>
       /\ sys = "Created" <=> held = {}
       /\ node \in {"Created", "Destroyed"} => sys = "Created" /\ ~formats

\* Between calls, a running node has every buffer back in the driver, and a
\* session that does not run has none there: after a start undone half way too.
BuffersInPlace ==
  pc = "idle" =>
     /\ node = "Running" => sys = "Running" /\ streaming /\ driver = Buffers
     /\ sys # "Running" => ~streaming /\ driver = {}

\* While the node runs, each frame the driver has produced since the first one
\* captured is sent, pending or reported missing: none is lost in silence, across
\* the wrap of the sequence too.
FramesAccounted ==
  pc = "idle" /\ node = "Running" /\ last # None =>
     tally + (IF pending # None THEN 1 ELSE 0) = last.n

------------------------------------------------------------------------------
(***************************************************************************)
(* The inductive invariants behind the safety properties.                  *)
(***************************************************************************)

\* Every variable has its type.
TypeOK ==
  /\ node \in {"Created", "Prepared", "Running", "Draining", "Stopped", "Error", "Destroyed"}
  /\ sys \in {"Created", "Prepared", "Running"}
  /\ {fd, kernel_buffers, formats, failure, corrupt, streaming} \subseteq BOOLEAN
  /\ regions \in 0..Count /\ k \in 0..Count
  /\ {pending, last, frame, sent} \subseteq Frames \cup {None}
  /\ pc \in {"idle", "open", "negotiate", "request", "map", "formats", "queue", "undo", "settle"}
              \cup {"streamoff", "off", "unmap", "close", "requeue", "send"}
  /\ call \in {"none", "prepare", "start", "stop", "reset", "destroy", "tick"}
  /\ driver \subseteq Buffers /\ produced \in 0..MaxFrame /\ tally \in Nat

NoSession    == ~fd /\ ~kernel_buffers /\ regions = 0 /\ sys = "Created"
WholeSession == fd /\ kernel_buffers /\ regions = Count /\ sys # "Created"
Resting      == ~streaming /\ driver = {}
Capturing    == node = "Running" /\ sys = "Running" /\ streaming /\ call = "tick"

\* How far each call has come at each of its steps.  Between calls, and while the
\* device is started or stopped, the session is there as a whole or not at all.
SessionInv ==
  /\ held = Owned
  /\ pc \in {"idle", "streamoff"} =>
       /\ NoSession \/ WholeSession
       /\ sys # "Running" => Resting
  /\ pc = "idle" =>
       /\ node \in {"Created", "Destroyed"} => NoSession /\ ~formats
       /\ node = "Running" => sys = "Running" /\ streaming /\ driver = Buffers
  /\ pc \in {"open", "negotiate", "request", "map"} =>
       /\ call = "prepare" /\ Resting /\ sys = "Created"
       /\ fd <=> pc # "open"
       /\ kernel_buffers <=> pc = "map"
       /\ pc # "map" => regions = 0
  /\ pc = "formats" => call = "prepare" /\ Resting /\ WholeSession /\ sys = "Prepared"
  /\ pc \in {"queue", "undo"} => /\ call = "start" /\ WholeSession /\ sys = "Prepared"
                                 /\ ~streaming /\ (pc = "queue" => driver = 1..k)
  /\ pc = "settle" => /\ call = "start" /\ WholeSession /\ sys = "Running"
                      /\ streaming /\ driver = Buffers
  /\ pc = "streamoff" => call \in {"start", "stop"} /\ (call = "start" => failure)
  /\ pc \in {"off", "unmap", "close"} =>
       /\ call \in {"prepare", "start", "reset", "destroy"}
       /\ call \in {"prepare", "start"} => failure
       /\ ~fd => Resting /\ ~kernel_buffers
       /\ ~kernel_buffers => regions = 0
       /\ pc = "close" => ~kernel_buffers
  /\ pc = "requeue" => WholeSession /\ Capturing /\ k \in Buffers /\ driver = Buffers \ {k}
  /\ pc = "send" => WholeSession /\ Capturing /\ driver = Buffers

\* The newest captured frame is the newest the device has produced, and those up
\* to it are accounted for; but for the one on its way through a tick.
FramesInv ==
  /\ pc \in {"queue", "settle"} => last = None
  /\ pc = "idle" /\ node = "Running" /\ last # None =>
       last.n = produced /\ tally + (IF pending # None THEN 1 ELSE 0) = last.n
  /\ pc = "requeue" =>
       /\ pending = None /\ frame # None /\ frame.n = produced
       /\ last # None => tally = last.n /\ frame.n - last.n \in 1..Modulus
  /\ pc = "send" =>
       pending = None /\ last # None /\ frame = last /\ last.n = produced /\ tally + 1 = last.n
==============================================================================
