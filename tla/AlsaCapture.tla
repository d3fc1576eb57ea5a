----------------------------- MODULE AlsaCapture -----------------------------
(***************************************************************************)
(* AlsaSourceNode over AlsaSystem over a PCM capture device: blocks of     *)
(* samples read from the device's ring are put together into frames, whose *)
(* timestamps follow from one anchor and the number of samples sent since. *)
(* An overrun or a suspend ends the timeline and starts another.           *)
(*                                                                         *)
(* One thread makes every call, while the device captures on its own: one  *)
(* sample per unit of time, named by the time at which it was captured.    *)
(***************************************************************************)
EXTENDS Integers, SequencesExt

CONSTANTS
  SamplesPerFrame,
  BufferFrames,    \* negotiated buffer_frames: samples the ring can hold
  MaxTime          \* bound: the clock runs up to here

ASSUME SizeAssumption == SamplesPerFrame \in Nat \ {0} /\ BufferFrames \in Nat \ {0}
\* The clock has run for as long as the ring holds when a device can be opened
ASSUME TimeAssumption == MaxTime \in Nat /\ BufferFrames <= MaxTime

VARIABLES
  node,            \* MediaNode::state_
  sys,             \* AlsaSystem::state_
  suspended,       \* suspended_
  partial,         \* the samples accumulated in partial_buffer
  pending,         \* the frame that waits for room downstream
  emitted,         \* emitted_samples
  anchor,          \* anchor_pts_us and its origin, once has_anchor
  candidate,       \* anchor_candidate of the tick that runs
  discontinuity,   \* discontinuity_pending
  pc, now,         \* the step of the tick that runs; monotonic_now in it
  \* the device
  pcm, clock,
  ring,            \* the samples it has captured and nobody has read
  \* history, of this session
  sent,            \* the newest frame sent
  spliced          \* the times at which a resume left older samples in the ring

nodeVars   == <<partial, pending, emitted, anchor, discontinuity>>
tickVars   == <<pc, now, candidate>>
deviceVars == <<pcm, clock, ring>>
sessionVars == <<sent, spliced>>
vars == <<node, sys, suspended, nodeVars, tickVars, deviceVars, sessionVars>>

NoAnchor == [pts |-> 0, fallback |-> FALSE, set |-> FALSE]
NoFrame  == [samples |-> <<>>, pts |-> 0, discontinuity |-> FALSE, fallback |-> FALSE]

Init ==
  /\ node = "Created" /\ sys = "Created" /\ suspended = FALSE
  /\ partial = <<>> /\ pending = NoFrame /\ emitted = 0
  /\ anchor = NoAnchor /\ discontinuity = FALSE
  /\ pc = "idle" /\ now = 0 /\ candidate = NoAnchor
  /\ pcm = "closed" /\ clock = BufferFrames /\ ring = <<>>
  /\ sent = NoFrame /\ spliced = {}

------------------------------------------------------------------------------
(***************************************************************************)
(* The device.                                                             *)
(***************************************************************************)
Available == Len(ring)

\* A sample more, or one too many: an overrun stops the device, whose ring cannot be
\* read any more
Elapse ==
  /\ clock < MaxTime /\ clock' = clock + 1
  /\ IF pcm # "capturing" THEN UNCHANGED <<pcm, ring>>
     ELSE IF Available = BufferFrames THEN pcm' = "xrun" /\ ring' = <<>>
     ELSE ring' = Append(ring, clock) /\ UNCHANGED pcm
  /\ UNCHANGED <<node, sys, suspended, nodeVars, tickVars, sessionVars>>

Suspend ==
  /\ pcm = "capturing" /\ pcm' = "suspended"
  /\ UNCHANGED <<node, sys, suspended, nodeVars, tickVars, clock, ring, sessionVars>>

\* snd_pcm_start on a prepared device: the ring is empty
Captures == pcm' = "capturing" /\ ring' = <<>> /\ UNCHANGED clock
Closes   == pcm' = "closed" /\ sys' = "Created" /\ suspended' = FALSE
             /\ ring' = <<>> /\ UNCHANGED clock

\* snd_pcm_resume loses no sample: what was captured before the suspend and not
\* read is still in the ring, before what is captured from now on
Resumes ==
  /\ pcm' = "capturing" /\ UNCHANGED <<clock, ring>>
  /\ spliced' = IF ring = <<>> THEN spliced ELSE spliced \cup {clock}

------------------------------------------------------------------------------
(***************************************************************************)
(* The lifecycle.  Outside a tick the calls do not meet the device's       *)
(* samples, so each is one step, its system calls able to fail.            *)
(***************************************************************************)
\* discard_capture_data
Discards ==
  /\ partial' = <<>> /\ pending' = NoFrame /\ emitted' = 0
  /\ anchor' = NoAnchor /\ discontinuity' = FALSE

\* A failed open or negotiation closes the device; so does a failed allocation
Prepare(ok, allocated) ==
  /\ pc = "idle" /\ node \in {"Created", "Stopped"}
  /\ IF sys = "Created" /\ ok /\ allocated
     THEN /\ node' = "Prepared" /\ sys' = "Prepared" /\ pcm' = "prepared"
          /\ UNCHANGED <<suspended, clock, ring>>
     ELSE /\ node' = "Error"
          /\ IF sys = "Created" THEN Closes ELSE UNCHANGED <<sys, suspended, deviceVars>>
  /\ UNCHANGED <<nodeVars, tickVars, sessionVars>>

\* The observer's failure leaves the device running
Start(allocated, ok, observed) ==
  /\ pc = "idle" /\ node = "Prepared"
  /\ Discards /\ sent' = NoFrame /\ spliced' = {}
  /\ IF allocated /\ sys = "Prepared" /\ ok
     THEN sys' = "Running" /\ Captures /\ node' = IF observed THEN "Running" ELSE "Error"
     ELSE node' = "Error" /\ UNCHANGED <<sys, deviceVars>>
  /\ UNCHANGED <<suspended, tickVars>>

\* Mutant: a device that does not stop is left open
StopsSystem_IfDropped(dropped) ==
  IF sys = "Created" \/ ~dropped THEN UNCHANGED <<sys, suspended, deviceVars>> ELSE Closes
\* AlsaSystem::stop closes the device though the drop failed
StopsSystem(dropped) ==
  IF sys = "Created" THEN UNCHANGED <<sys, suspended, deviceVars>> ELSE Closes
Stopped(dropped, closed) == sys = "Created" \/ (dropped /\ closed)

Stop(dropped, closed) ==
  /\ pc = "idle"
  /\ \/ /\ node \in {"Prepared", "Running", "Error"}
        /\ Discards /\ StopsSystem(dropped)
        /\ node' = IF Stopped(dropped, closed) THEN "Stopped" ELSE "Error"
     \/ node = "Created" /\ node' = "Stopped" /\ UNCHANGED <<sys, suspended, nodeVars, deviceVars>>
  /\ UNCHANGED <<tickVars, sessionVars>>

Reset(dropped, closed, observed) ==
  /\ pc = "idle" /\ node \notin {"Created", "Destroyed"}
  /\ Discards /\ StopsSystem(dropped)
  /\ node' = IF Stopped(dropped, closed) /\ observed THEN "Created" ELSE "Error"
  /\ UNCHANGED <<tickVars, sessionVars>>

\* ~Impl stops the system; what that returns is lost
Destroy(dropped) ==
  /\ pc = "idle" /\ node # "Destroyed" /\ node' = "Destroyed"
  /\ Discards /\ StopsSystem(dropped)
  /\ UNCHANGED <<tickVars, sessionVars>>

------------------------------------------------------------------------------
(***************************************************************************)
(* tick.                                                                   *)
(***************************************************************************)
TickStarts == pc = "idle" /\ node = "Running"
Goes(phase) == pc' = phase
Returns(ok) == pc' = "idle" /\ now' = 0 /\ candidate' = NoAnchor
                /\ node' = IF ok THEN node ELSE "Error"

\* Mutant: what was read before the interruption is kept
PartialAfterGap_Kept == partial
PartialAfterGap == <<>>
\* Mutant: the first frame after the interruption is not marked
MarkAfterGap_Forgotten == FALSE
MarkAfterGap == TRUE
\* reset_timeline_after_discontinuity
EndsTimeline ==
  /\ partial' = PartialAfterGap /\ pending' = NoFrame /\ emitted' = 0
  /\ anchor' = NoAnchor /\ discontinuity' = MarkAfterGap

\* Any call into a device that has overrun or been suspended finds that out.  An
\* overrun is recovered from at once, a suspend by the ticks that follow.
Interrupted(recovered, observed) ==
  \/ /\ pcm = "xrun"
     /\ IF recovered THEN Captures /\ EndsTimeline ELSE UNCHANGED <<nodeVars, deviceVars>>
     /\ Returns(recovered /\ observed) /\ UNCHANGED suspended
  \/ /\ pcm = "suspended"
     /\ suspended' = TRUE /\ EndsTimeline /\ Returns(observed) /\ UNCHANGED deviceVars

\* The suspended branch of read_interleaved: the device is resumed or, if it cannot
\* be, prepared and started again
Resume(answer, observed) ==
  /\ TickStarts /\ pending = NoFrame /\ suspended
  /\ CASE answer = "ok" -> suspended' = FALSE /\ Resumes /\ Returns(observed)
       [] answer = "restarted" ->
            suspended' = FALSE /\ Captures /\ UNCHANGED spliced /\ Returns(observed)
       [] answer = "blocked" -> UNCHANGED <<suspended, deviceVars, spliced>> /\ Returns(observed)
       [] answer = "failed" -> UNCHANGED <<suspended, deviceVars, spliced>> /\ Returns(FALSE)
  /\ UNCHANGED <<sys, nodeVars, sent>>

\* The reading begins: with the clock, if there is no anchor yet
TickReads(allocated) ==
  /\ TickStarts /\ pending = NoFrame /\ ~suspended
  /\ IF ~allocated THEN Returns(FALSE)
     ELSE /\ IF anchor.set THEN Goes("read") /\ UNCHANGED now
             ELSE Goes("anchor") /\ now' = clock
          /\ UNCHANGED <<node, candidate>>
  /\ UNCHANGED <<sys, suspended, nodeVars, deviceVars, sessionVars>>

\* first_unread_pts
FirstUnread(time) == time - Available

\* capture_anchor: htimestamp gives the ring's time with what it holds, the
\* fallback sets what it holds now against the clock as read before
CaptureAnchor(fallback, answer, observed) ==
  /\ pc = "anchor" /\ pcm = "capturing"
  /\ CASE answer = "ok" ->
            /\ candidate' = [pts |-> FirstUnread(IF fallback THEN now ELSE clock),
                             fallback |-> fallback, set |-> TRUE]
            /\ Goes("read") /\ UNCHANGED <<node, now>>
       [] answer = "blocked" -> fallback /\ Returns(observed)
       [] answer = "failed" -> Returns(FALSE)
  /\ UNCHANGED <<sys, suspended, nodeVars, deviceVars, sessionVars>>

AnchorInterrupted(recovered, observed) ==
  /\ pc = "anchor" /\ Interrupted(recovered, observed)
  /\ UNCHANGED <<sys, sessionVars>>

ReadInterrupted(recovered, observed) ==
  /\ pc = "read" /\ Interrupted(recovered, observed)
  /\ UNCHANGED <<sys, sessionVars>>

\* Nothing to read yet, or a failure
ReadNothing(fatal, observed) ==
  /\ pc = "read" /\ pcm = "capturing"
  /\ Returns(~fatal /\ observed)
  /\ UNCHANGED <<sys, suspended, nodeVars, deviceVars, sessionVars>>

Missing == SamplesPerFrame - Len(partial)

\* n samples: the anchor holds from the first of them on, and a full block
\* becomes the pending frame
Read(n, created, observed) ==
  /\ pc = "read" /\ pcm = "capturing"
  /\ n <= Available /\ n <= Missing
  /\ ring' = SubSeq(ring, n + 1, Len(ring)) /\ UNCHANGED <<pcm, clock>>
  /\ anchor' = IF anchor.set THEN anchor ELSE candidate
  /\ LET block == partial \o SubSeq(ring, 1, n)
     IN IF Len(block) < SamplesPerFrame \/ ~created
        THEN /\ partial' = block /\ UNCHANGED <<pending, discontinuity>>
             /\ Returns(Len(block) < SamplesPerFrame /\ observed)
        ELSE /\ pending' = [samples |-> block, pts |-> anchor'.pts + emitted,
                            discontinuity |-> discontinuity, fallback |-> anchor'.fallback]
             /\ partial' = <<>> /\ discontinuity' = FALSE
             /\ IF observed THEN Goes("send") /\ UNCHANGED <<node, now, candidate>>
                ELSE Returns(FALSE)
  /\ UNCHANGED <<sys, suspended, emitted, sessionVars>>

\* The pending frame, in the tick that completed it or in a later one.  A port
\* takes it, has no room, or fails.
SendPending(answer, observed) ==
  /\ pc = "send" \/ (TickStarts /\ pending # NoFrame)
  /\ CASE answer = "ok" -> /\ sent' = pending /\ pending' = NoFrame
                           /\ emitted' = emitted + SamplesPerFrame /\ Returns(observed)
       [] answer = "blocked" -> Returns(observed) /\ UNCHANGED <<sent, pending, emitted>>
       [] answer = "failed" -> Returns(FALSE) /\ UNCHANGED <<sent, pending, emitted>>
  /\ UNCHANGED <<sys, suspended, partial, anchor, discontinuity, deviceVars, spliced>>

------------------------------------------------------------------------------
Answers == {"ok", "blocked", "failed"}

Next ==
  \/ Elapse \/ Suspend
  \/ \E ok, also \in BOOLEAN :
       \/ Prepare(ok, also) \/ Stop(ok, also) \/ Destroy(ok) \/ TickReads(ok)
       \/ AnchorInterrupted(ok, also) \/ ReadInterrupted(ok, also) \/ ReadNothing(ok, also)
       \/ \E observed \in BOOLEAN : Start(ok, also, observed) \/ Reset(ok, also, observed)
       \/ \E n \in 1..SamplesPerFrame : Read(n, ok, also)
  \/ \E answer \in Answers, observed \in BOOLEAN :
       \/ SendPending(answer, observed)
       \/ \E fallback \in BOOLEAN : CaptureAnchor(fallback, answer, observed)
  \/ \E answer \in Answers \cup {"restarted"}, observed \in BOOLEAN : Resume(answer, observed)

Spec == Init /\ [][Next]_vars

------------------------------------------------------------------------------
(***************************************************************************)
(* Properties.                                                             *)
(***************************************************************************)

\* Whatever failed on the way, a node that is created, stopped or destroyed has
\* closed its device, one that is prepared has it ready and one that runs has it
\* started.  It waits for a resume only while the device is suspended.
DeviceAccounted ==
  /\ sys = "Created" <=> pcm = "closed"
  /\ sys = "Prepared" <=> pcm = "prepared"
  /\ node \in {"Created", "Stopped", "Destroyed"} => sys = "Created"
  /\ node = "Prepared" => sys = "Prepared"
  /\ node = "Running" => sys = "Running"
  /\ suspended => pcm = "suspended"

\* By how much a timestamp may be early: what the ring holds, by the fallback
Lag(fallback) == IF fallback THEN BufferFrames ELSE 0

\* The time at which a frame says that its i-th sample was captured
Date(f, i) == f.pts + i - 1
\* Whether a sample is one that a resume left in the ring
Kept(t) == \E s \in spliced : t < s

\* Every sample of a frame was captured when the frame's timestamp and its place in
\* the frame say, however many short reads and frames ago the anchor was taken.  The
\* fallback dates it too early by what the ring holds at most; and only a sample that
\* a resume left in the ring was captured earlier than it is dated.
TimelineExact ==
  \A f \in {pending, sent} \ {NoFrame} : \A i \in 1..SamplesPerFrame :
     /\ f.samples[i] - Date(f, i) <= Lag(f.fallback)
     /\ ~Kept(f.samples[i]) => f.samples[i] >= Date(f, i)

\* Frames leave in order, and where samples are missing between two that follow each
\* other the second one begins a frame marked as a discontinuity, also if the frames
\* before the gap waited for room - unless a resume joined the two in the ring.
GapsMarked ==
  [][sent' # sent /\ NoFrame \notin {sent, sent'} =>
        LET all == sent.samples \o sent'.samples
        IN  \A i \in 1..(2 * SamplesPerFrame - 1) :
               /\ all[i] < all[i + 1]
               /\ all[i] + 1 < all[i + 1] =>
                    all[i + 1] \in spliced \/ (i = SamplesPerFrame /\ sent'.discontinuity)]_vars

------------------------------------------------------------------------------
(***************************************************************************)
(* The inductive invariants behind the safety properties.                  *)
(***************************************************************************)
Anchors == [pts : Int, fallback : BOOLEAN, set : BOOLEAN]
Frames  == [samples : [1..SamplesPerFrame -> Int], pts : Int,
            discontinuity : BOOLEAN, fallback : BOOLEAN]

\* Every variable has its type, and only a tick that failed leaves a full block.
TypeOK ==
  /\ node \in {"Created", "Prepared", "Running", "Stopped", "Error", "Destroyed"}
  /\ sys \in {"Created", "Prepared", "Running"}
  /\ pcm \in {"closed", "prepared", "capturing", "xrun", "suspended"}
  /\ pc \in {"idle", "anchor", "read", "send"}
  /\ suspended \in BOOLEAN /\ discontinuity \in BOOLEAN
  /\ partial \in Seq(Int)
  /\ Len(partial) <= SamplesPerFrame /\ (node = "Running" => Len(partial) < SamplesPerFrame)
  /\ pending \in Frames \cup {NoFrame} /\ sent \in Frames \cup {NoFrame}
  /\ anchor \in Anchors /\ candidate \in Anchors /\ emitted \in Nat
  /\ now \in 0..MaxTime /\ clock \in BufferFrames..MaxTime
  /\ ring \in Seq(Int) /\ spliced \subseteq Int

\* A tick runs in a running node whose device is not known to be suspended.  The
\* ring of a device that captures holds no more than it can.
DeviceInv ==
  /\ DeviceAccounted
  /\ pc # "idle" => node = "Running" /\ ~suspended
  /\ Available <= BufferFrames /\ (pcm \in {"closed", "prepared", "xrun"} => ring = <<>>)

\* The time that an anchor taken now gives the ring's first sample
Origin == clock - Len(ring)

\* The samples captured and not sent yet, in the order in which they will be
Stream == pending.samples \o partial \o ring

\* Each is captured later than those before it, and right after the last of them
\* unless a resume joined the two.
Joined(s) ==
  /\ \A i, j \in 1..Len(s) : i < j => s[i] < s[j]
  /\ \A i \in 1..(Len(s) - 1) : s[i] + 1 < s[i + 1] => s[i + 1] \in spliced

\* A sample dated as TimelineExact wants it
Dated(t, date, fallback) == t - date <= Lag(fallback) /\ (~Kept(t) => t >= date)

\* What the ring holds was captured before now, and while the device captures all of
\* it that a resume did not keep was captured just before now.
RingInv ==
  /\ \A s \in spliced : s <= clock
  /\ \A i \in 1..Len(ring) :
       /\ ring[i] <= Origin + i - 1
       /\ pcm = "capturing" /\ ~Kept(ring[i]) => ring[i] = Origin + i - 1
  /\ \A i \in 1..Len(Stream) : Stream[i] < clock
  /\ Joined(sent.samples) /\ Joined(Stream)
  /\ pcm = "capturing" => Joined(Append(Stream, clock))

Held == Len(partial) + (IF pending = NoFrame THEN 0 ELSE SamplesPerFrame)

\* While the device captures, the anchor moved on by the samples sent dates the first
\* sample not sent yet, and so every one that follows it.
TimelineInv ==
  /\ pending # NoFrame =>
       partial = <<>> /\ pending.pts = anchor.pts + emitted /\ pending.fallback = anchor.fallback
  /\ IF anchor.set
     THEN pcm = "capturing" =>
            /\ Origin - Held - (anchor.pts + emitted) \in 0..Lag(anchor.fallback)
            /\ \A i \in 1..Len(partial) :
                 Dated(partial[i], anchor.pts + emitted + i - 1, anchor.fallback)
     ELSE partial = <<>> /\ pending = NoFrame /\ emitted = 0
  /\ suspended => ~anchor.set /\ discontinuity
  /\ pc \in {"anchor", "read"} => pending = NoFrame
  /\ pc = "anchor" => ~anchor.set
  /\ pc = "anchor" /\ pcm = "capturing" => now \in Origin..clock
  /\ pc = "read" /\ ~anchor.set =>
       candidate.set /\ (pcm = "capturing" => Origin - candidate.pts \in 0..Lag(candidate.fallback))
  /\ pc = "send" => pending # NoFrame
  /\ TimelineExact

\* The sample that follows the newest one sent: one captured already, or the one that
\* is captured next.
Upcoming == Append(Stream, clock)[1]

\* The upcoming sample is later than the newest one sent, and if any is missing
\* between the two, the frame that comes next knows.
GapsInv ==
  node = "Running" /\ sent # NoFrame =>
    LET last   == sent.samples[SamplesPerFrame]
        marked == IF pending = NoFrame THEN discontinuity ELSE pending.discontinuity
    IN  /\ last < Upcoming
        /\ last + 1 < Upcoming /\ (pcm = "capturing" \/ Stream # <<>>) =>
             Upcoming \in spliced \/ marked
==============================================================================
