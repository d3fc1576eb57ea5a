---------------------------- MODULE AlsaCaptureProofs ----------------------------
(***************************************************************************)
(* Proofs about AlsaCapture: for every size of a frame and of the device's *)
(* ring, any failures and any interruptions.                               *)
(***************************************************************************)
EXTENDS AlsaCapture, SequenceTheorems, TLAPS

\* The sizes of block and ring buffer are positive, and the ring fits in the time there is.
LEMMA SizesTold ==
  /\ SamplesPerFrame \in Nat /\ SamplesPerFrame >= 1 /\ BufferFrames \in Nat /\ BufferFrames >= 1
  /\ MaxTime \in Nat /\ BufferFrames <= MaxTime
BY SizeAssumption, TimeAssumption

------------------------------------------------------------------------------
(***************************************************************************)
(* Frames, anchors and blocks.                                             *)
(***************************************************************************)

\* No frame has all its samples, and a full block makes a frame.
LEMMA FramesTold ==
  /\ NoFrame \notin Frames
  /\ \A f \in Frames : /\ f.samples \in [1..SamplesPerFrame -> Int] /\ f.pts \in Int
                       /\ f.discontinuity \in BOOLEAN /\ f.fallback \in BOOLEAN
                       /\ \A i \in 1..SamplesPerFrame : f.samples[i] \in Int
<1>1. <<>> \notin [1..SamplesPerFrame -> Int]
  <2> SUFFICES ASSUME <<>> \in [1..SamplesPerFrame -> Int] PROVE FALSE
    OBVIOUS
  <2>1. DOMAIN <<>> = 1..SamplesPerFrame
    OBVIOUS
  <2>2. DOMAIN <<>> = {}
    OBVIOUS
  <2>3. 1 \in 1..SamplesPerFrame
    BY SizesTold
  <2> QED
    BY <2>1, <2>2, <2>3
<1>2. NoFrame.samples = <<>>
  BY DEF NoFrame
<1>3. \A f \in Frames : /\ f.samples \in [1..SamplesPerFrame -> Int] /\ f.pts \in Int
                        /\ f.discontinuity \in BOOLEAN /\ f.fallback \in BOOLEAN
  BY DEF Frames
<1> QED
  BY <1>1, <1>2, <1>3

\* What an anchor is, set or not.
LEMMA AnchorsTold ==
  /\ NoAnchor \in Anchors /\ ~NoAnchor.set
  /\ \A a \in Anchors : a.pts \in Int /\ a.fallback \in BOOLEAN /\ a.set \in BOOLEAN
  /\ \A p \in Int, f \in BOOLEAN :
        LET a == [pts |-> p, fallback |-> f, set |-> TRUE]
        IN  a \in Anchors /\ a.pts = p /\ a.fallback = f /\ a.set
BY DEF NoAnchor, Anchors

\* A block is full when it has all its samples.
LEMMA BlockFull ==
  ASSUME NEW b \in Seq(Int), Len(b) = SamplesPerFrame
  PROVE  b \in [1..SamplesPerFrame -> Int]
BY SizesTold

------------------------------------------------------------------------------
(***************************************************************************)
(* Sequences of samples.                                                   *)
(***************************************************************************)

\* Two sequences behind each other.
LEMMA Joining ==
  ASSUME NEW s \in Seq(Int), NEW t \in Seq(Int)
  PROVE  /\ s \o t \in Seq(Int) /\ Len(s) \in Nat /\ Len(t) \in Nat
         /\ Len(s \o t) = Len(s) + Len(t)
         /\ \A i \in 1..Len(s) : (s \o t)[i] = s[i] /\ s[i] \in Int
         /\ \A i \in 1..Len(t) : (s \o t)[Len(s) + i] = t[i] /\ t[i] \in Int
<1>1. s \o t \in Seq(Int) /\ Len(s) \in Nat /\ Len(t) \in Nat
  BY ConcatProperties
<1>2. /\ Len(s \o t) = Len(s) + Len(t)
      /\ \A i \in 1..(Len(s) + Len(t)) : (s \o t)[i] = IF i <= Len(s) THEN s[i] ELSE t[i - Len(s)]
  BY ConcatProperties
<1>3. \A i \in 1..Len(s) : (s \o t)[i] = s[i] /\ s[i] \in Int
  BY <1>1, <1>2, ElementOfSeq
<1>4. \A i \in 1..Len(t) : (s \o t)[Len(s) + i] = t[i] /\ t[i] \in Int
  <2> SUFFICES ASSUME NEW i \in 1..Len(t) PROVE (s \o t)[Len(s) + i] = t[i] /\ t[i] \in Int
    OBVIOUS
  <2>1. Len(s) + i \in 1..(Len(s) + Len(t)) /\ ~(Len(s) + i <= Len(s)) /\ Len(s) + i - Len(s) = i
    BY <1>1
  <2> QED
    BY <1>2, <2>1, ElementOfSeq
<1> QED
  BY <1>1, <1>2, <1>3, <1>4

\* A sequence and one sample more.
LEMMA Appending ==
  ASSUME NEW s \in Seq(Int), NEW c \in Int
  PROVE  /\ Append(s, c) \in Seq(Int) /\ Len(s) \in Nat /\ Len(Append(s, c)) = Len(s) + 1
         /\ \A i \in 1..Len(s) : Append(s, c)[i] = s[i] /\ s[i] \in Int
         /\ Append(s, c)[Len(s) + 1] = c
BY AppendProperties, ElementOfSeq, LenProperties

\* The two parts in which a sequence is read.
LEMMA Parting ==
  ASSUME NEW s \in Seq(Int), NEW n \in Nat, n <= Len(s)
  PROVE  LET t == SubSeq(s, 1, n)
             u == SubSeq(s, n + 1, Len(s))
         IN  /\ t \in Seq(Int) /\ Len(t) = n /\ u \in Seq(Int) /\ Len(u) = Len(s) - n
             /\ \A i \in 1..n : t[i] = s[i]
             /\ \A i \in 1..(Len(s) - n) : u[i] = s[n + i]
             /\ t \o u = s
<1>1. Len(s) \in Nat /\ \A i \in 1..Len(s) : s[i] \in Int
  BY LenProperties, ElementOfSeq
<1>2. /\ SubSeq(s, 1, n) \in Seq(Int) /\ Len(SubSeq(s, 1, n)) = n
      /\ \A i \in 1..n : SubSeq(s, 1, n)[i] = s[i]
  BY <1>1
<1>3. /\ SubSeq(s, n + 1, Len(s)) \in Seq(Int) /\ Len(SubSeq(s, n + 1, Len(s))) = Len(s) - n
      /\ \A i \in 1..(Len(s) - n) : SubSeq(s, n + 1, Len(s))[i] = s[n + i]
  BY <1>1
<1>4. SubSeq(s, 1, n) \o SubSeq(s, n + 1, Len(s)) = s
  <2>1. 1 \in 1..(Len(s) + 1) /\ n \in (1 - 1)..Len(s) /\ Len(s) \in n..Len(s)
    BY <1>1
  <2>2. SubSeq(s, 1, n) \o SubSeq(s, n + 1, Len(s)) = SubSeq(s, 1, Len(s))
    BY <2>1, ConcatAdjacentSubSeq
  <2> QED
    BY <2>2, SubSeqFull
<1> QED
  BY <1>2, <1>3, <1>4

\* The first of a sequence that ends with one sample more.
LEMMA FirstOf ==
  ASSUME NEW s \in Seq(Int), NEW c \in Int
  PROVE  /\ Append(s, c)[1] \in Int
         /\ s = <<>> => Append(s, c)[1] = c
         /\ s # <<>> => Append(s, c)[1] = s[1] /\ 1 \in 1..Len(s)
<1>1. CASE s = <<>>
  <2>1. Len(s) = 0
    BY <1>1
  <2>2. Append(s, c)[0 + 1] = c
    BY <2>1, Appending
  <2> QED
    BY <1>1, <2>2
<1>2. CASE s # <<>>
  <2>1. Len(s) \in Nat \ {0}
    BY <1>2, EmptySeq
  <2>2. 1 \in 1..Len(s)
    BY <2>1
  <2> QED
    BY <1>2, <2>2, Appending
<1> QED
  BY <1>1, <1>2

\* The first of two sequences behind each other is the first of the first.
LEMMA FirstOfJoining ==
  ASSUME NEW s \in Seq(Int), NEW t \in Seq(Int), s # <<>>
  PROVE  s \o t # <<>> /\ (s \o t)[1] = s[1]
<1>1. Len(s) \in Nat \ {0} /\ Len(t) \in Nat
  BY EmptySeq, LenProperties
<1>2. 1 \in 1..Len(s) /\ Len(s) + Len(t) # 0
  BY <1>1
<1>3. (s \o t)[1] = s[1] /\ Len(s \o t) # 0
  BY <1>2, Joining
<1>4. Len(<<>>) = 0
  OBVIOUS
<1> QED
  BY <1>3, <1>4

\* Either part of what is joined is joined.
LEMMA PartsJoined ==
  ASSUME NEW s \in Seq(Int), NEW t \in Seq(Int), Joined(s \o t)
  PROVE  Joined(s) /\ Joined(t)
<1> DEFINE a == s \o t
<1>1. /\ a \in Seq(Int) /\ Len(s) \in Nat /\ Len(t) \in Nat /\ Len(a) = Len(s) + Len(t)
      /\ \A i \in 1..Len(s) : a[i] = s[i] /\ s[i] \in Int
      /\ \A i \in 1..Len(t) : a[Len(s) + i] = t[i] /\ t[i] \in Int
  BY Joining
<1>2. /\ \A i, j \in 1..Len(a) : i < j => a[i] < a[j]
      /\ \A i \in 1..(Len(a) - 1) : a[i] + 1 < a[i + 1] => a[i + 1] \in spliced
  BY DEF Joined
<1> HIDE DEF a
<1>3. Joined(s)
  <2>1. \A i, j \in 1..Len(s) : i < j => s[i] < s[j]
    BY <1>1, <1>2
  <2>2. \A i \in 1..(Len(s) - 1) : s[i] + 1 < s[i + 1] => s[i + 1] \in spliced
    <3> SUFFICES ASSUME NEW i \in 1..(Len(s) - 1), s[i] + 1 < s[i + 1] PROVE s[i + 1] \in spliced
      OBVIOUS
    <3>1. i \in 1..Len(s) /\ i + 1 \in 1..Len(s) /\ i \in 1..(Len(a) - 1)
      BY <1>1
    <3> QED
      BY <1>1, <1>2, <3>1
  <2> QED
    BY <2>1, <2>2 DEF Joined
<1>4. Joined(t)
  <2>1. \A i, j \in 1..Len(t) : i < j => t[i] < t[j]
    <3> SUFFICES ASSUME NEW i \in 1..Len(t), NEW j \in 1..Len(t), i < j PROVE t[i] < t[j]
      OBVIOUS
    <3>1. /\ Len(s) + i \in 1..Len(a) /\ Len(s) + j \in 1..Len(a) /\ Len(s) + i < Len(s) + j
      BY <1>1
    <3> QED
      BY <1>1, <1>2, <3>1
  <2>2. \A i \in 1..(Len(t) - 1) : t[i] + 1 < t[i + 1] => t[i + 1] \in spliced
    <3> SUFFICES ASSUME NEW i \in 1..(Len(t) - 1), t[i] + 1 < t[i + 1] PROVE t[i + 1] \in spliced
      OBVIOUS
    <3>1. /\ i \in 1..Len(t) /\ i + 1 \in 1..Len(t) /\ Len(s) + i \in 1..(Len(a) - 1)
          /\ Len(s) + (i + 1) = (Len(s) + i) + 1
      BY <1>1
    <3> QED
      BY <1>1, <1>2, <3>1
  <2> QED
    BY <2>1, <2>2 DEF Joined
<1> QED
  BY <1>3, <1>4

\* Nothing, and a single sample, are joined.
LEMMA NothingJoined == Joined(<<>>) /\ \A c \in Int : Joined(Append(<<>>, c))
<1>1. Joined(<<>>)
  BY DEF Joined
<1>2. ASSUME NEW c \in Int PROVE Joined(Append(<<>>, c))
  <2>1. Len(Append(<<>>, c)) = 1
    OBVIOUS
  <2> QED
    BY <2>1 DEF Joined
<1> QED
  BY <1>1, <1>2

\* Another splice joins no less.
LEMMA StillJoined ==
  ASSUME NEW s \in Seq(Int), Joined(s), spliced \subseteq spliced'
  PROVE  /\ \A i, j \in 1..Len(s) : i < j => s[i] < s[j]
         /\ \A i \in 1..(Len(s) - 1) : s[i] + 1 < s[i + 1] => s[i + 1] \in spliced'
BY DEF Joined

------------------------------------------------------------------------------
(***************************************************************************)
(* The actions, in groups.                                                 *)
(***************************************************************************)
Opening == \E ok, also \in BOOLEAN :
             Prepare(ok, also) \/ \E observed \in BOOLEAN : Start(ok, also, observed)
Closing == \E ok, also \in BOOLEAN :
             \/ Stop(ok, also) \/ Destroy(ok)
             \/ \E observed \in BOOLEAN : Reset(ok, also, observed)
Interrupting == \E ok, also \in BOOLEAN : AnchorInterrupted(ok, also) \/ ReadInterrupted(ok, also)
Reading == \E ok, also \in BOOLEAN :
             \/ TickReads(ok) \/ ReadNothing(ok, also)
             \/ \E n \in 1..SamplesPerFrame : Read(n, ok, also)
Answering == \E answer \in Answers, observed \in BOOLEAN :
               \/ SendPending(answer, observed)
               \/ \E fallback \in BOOLEAN : CaptureAnchor(fallback, answer, observed)
Resuming == \E answer \in Answers \cup {"restarted"}, observed \in BOOLEAN : Resume(answer, observed)

\* The steps, sorted by what they do to the session.
LEMMA NextSteps ==
  Next => \/ Elapse \/ Suspend \/ Opening \/ Closing
          \/ Interrupting \/ Reading \/ Answering \/ Resuming
BY Zenon DEF Next, Opening, Closing, Interrupting, Reading, Answering, Resuming

IInv == TypeOK /\ DeviceInv /\ RingInv /\ TimelineInv /\ GapsInv

------------------------------------------------------------------------------
(***************************************************************************)
(* What is captured and not sent.                                          *)
(***************************************************************************)

\* The samples of a frame, or of none.
LEMMA SamplesTold ==
  ASSUME NEW f \in Frames \cup {NoFrame}
  PROVE  /\ f.samples \in Seq(Int)
         /\ f = NoFrame => f.samples = <<>> /\ Len(f.samples) = 0
         /\ f # NoFrame => f \in Frames /\ Len(f.samples) = SamplesPerFrame
<1>1. CASE f = NoFrame
  BY <1>1 DEF NoFrame
<1>2. CASE f # NoFrame
  <2>1. f \in Frames /\ f.samples \in [1..SamplesPerFrame -> Int]
    BY <1>2, FramesTold
  <2>2. f.samples \in Seq(Int) /\ Len(f.samples) = SamplesPerFrame
    BY <2>1, SizesTold
  <2> QED
    BY <1>2, <2>1, <2>2
<1> QED
  BY <1>1, <1>2

\* What is captured and not sent.
LEMMA StreamTold ==
  ASSUME TypeOK
  PROVE  /\ pending.samples \in Seq(Int) /\ partial \in Seq(Int) /\ ring \in Seq(Int)
         /\ pending.samples \o partial \in Seq(Int) /\ Stream \in Seq(Int)
         /\ Len(ring) \in Nat /\ Len(partial) \in Nat /\ Len(Stream) \in Nat
         /\ clock \in Nat /\ sent.samples \in Seq(Int) /\ spliced \subseteq Int /\ Origin \in Int
<1>1. /\ pending.samples \in Seq(Int) /\ partial \in Seq(Int) /\ ring \in Seq(Int)
      /\ sent.samples \in Seq(Int) /\ clock \in Nat /\ spliced \subseteq Int
  <2>1. pending \in Frames \cup {NoFrame} /\ sent \in Frames \cup {NoFrame}
    BY DEF TypeOK
  <2>2. clock \in BufferFrames..MaxTime /\ partial \in Seq(Int) /\ ring \in Seq(Int) /\ spliced \subseteq Int
    BY DEF TypeOK
  <2>3. clock \in Nat
    BY <2>2, SizesTold
  <2> QED
    BY <2>1, <2>2, <2>3, SamplesTold
<1>2. pending.samples \o partial \in Seq(Int)
  BY <1>1, Joining
<1>3. Stream \in Seq(Int)
  BY <1>1, <1>2, Joining DEF Stream
<1>4. Len(ring) \in Nat /\ Len(partial) \in Nat /\ Len(Stream) \in Nat
  BY <1>1, <1>3, LenProperties
<1> QED
  BY <1>1, <1>2, <1>3, <1>4 DEF Origin

\* Appending to the last part appends to the whole.
LEMMA AppendBehind ==
  ASSUME NEW s \in Seq(Int), NEW t \in Seq(Int), NEW c \in Int
  PROVE  Append(s \o t, c) = s \o Append(t, c)
<1>1. s \o t \in Seq(Int) /\ <<c>> \in Seq(Int)
  BY Joining
<1>2. Append(s \o t, c) = (s \o t) \o <<c>> /\ Append(t, c) = t \o <<c>>
  BY <1>1, AppendIsConcat
<1>3. (s \o t) \o <<c>> = s \o (t \o <<c>>)
  BY <1>1, ConcatAssociative
<1> QED
  BY <1>2, <1>3

\* When no frame waits and no block is begun, the ring is all there is.
LEMMA StreamOfRing ==
  ASSUME TypeOK, pending = NoFrame, partial = <<>>
  PROVE  Stream = ring
<1>1. pending.samples = <<>>
  BY DEF NoFrame
<1>2. <<>> \o <<>> = <<>> /\ <<>> \o ring = ring
  BY StreamTold, ConcatEmptySeq
<1> QED
  BY <1>1, <1>2 DEF Stream

\* The parts of the stream are joined as the whole is, and before now.
LEMMA StreamJoined ==
  ASSUME TypeOK, RingInv
  PROVE  /\ Joined(pending.samples) /\ Joined(pending.samples \o partial) /\ Joined(ring)
         /\ pcm = "capturing" => Joined(Append(ring, clock))
         /\ \A i \in 1..Len(pending.samples \o partial) : (pending.samples \o partial)[i] < clock
         /\ \A i \in 1..Len(ring) : ring[i] < clock
<1> DEFINE s == pending.samples \o partial
<1>1. s \in Seq(Int) /\ ring \in Seq(Int) /\ clock \in Int /\ Stream = s \o ring
  BY StreamTold DEF Stream
<1>2. Joined(s \o ring) /\ \A i \in 1..Len(s \o ring) : (s \o ring)[i] < clock
  BY <1>1 DEF RingInv
<1>3. Joined(s) /\ Joined(ring)
  BY <1>1, <1>2, PartsJoined
<1>4. Joined(pending.samples)
  BY <1>3, StreamTold, PartsJoined
<1>5. ASSUME pcm = "capturing" PROVE Joined(Append(ring, clock))
  <2>1. Joined(Append(s \o ring, clock))
    BY <1>1, <1>5 DEF RingInv
  <2>2. Append(s \o ring, clock) = s \o Append(ring, clock) /\ Append(ring, clock) \in Seq(Int)
    BY <1>1, AppendBehind, Appending
  <2> QED
    BY <1>1, <2>1, <2>2, PartsJoined
<1> HIDE DEF s
<1>6. /\ Len(s) \in Nat /\ Len(ring) \in Nat /\ Len(s \o ring) = Len(s) + Len(ring)
      /\ \A i \in 1..Len(s) : (s \o ring)[i] = s[i]
      /\ \A i \in 1..Len(ring) : (s \o ring)[Len(s) + i] = ring[i]
  BY <1>1, Joining
<1>7. \A i \in 1..Len(s) : s[i] < clock
  BY <1>2, <1>6
<1>8. \A i \in 1..Len(ring) : ring[i] < clock
  <2> SUFFICES ASSUME NEW i \in 1..Len(ring) PROVE ring[i] < clock
    OBVIOUS
  <2>1. Len(s) + i \in 1..Len(s \o ring)
    BY <1>6
  <2> QED
    BY <1>2, <1>6, <2>1
<1> QED
  BY <1>3, <1>4, <1>5, <1>7, <1>8 DEF s

\* The sample that follows: the first one captured and not sent, or the next.
LEMMA UpcomingTold ==
  ASSUME TypeOK
  PROVE  /\ Stream = <<>> => Upcoming = clock
         /\ Stream # <<>> => Upcoming = Stream[1] /\ 1 \in 1..Len(Stream)
         /\ Upcoming \in Int
<1>1. Stream \in Seq(Int) /\ clock \in Int
  BY StreamTold
<1> QED
  BY <1>1, FirstOf DEF Upcoming

------------------------------------------------------------------------------
(***************************************************************************)
(* Types.                                                                  *)
(***************************************************************************)
LEMMA FlagsTyped ==
  ASSUME TypeOK, Next
  PROVE  suspended' \in BOOLEAN /\ discontinuity' \in BOOLEAN
<1>0. suspended \in BOOLEAN /\ discontinuity \in BOOLEAN
  BY DEF TypeOK
<1> USE DEF nodeVars, tickVars, deviceVars, sessionVars, Returns, Goes, Closes, Discards
<1>1. CASE Elapse \/ Suspend
  BY <1>0, <1>1, Zenon DEF Elapse, Suspend
<1>2. CASE Opening
  BY <1>0, <1>2, Zenon DEF Opening, Prepare, Start
<1>3. CASE Closing
  BY <1>0, <1>3, Zenon DEF Closing, Stop, Reset, Destroy, StopsSystem
<1>4. CASE Interrupting
  BY <1>0, <1>4, Zenon DEF Interrupting, AnchorInterrupted, ReadInterrupted, Interrupted,
                           EndsTimeline, MarkAfterGap
<1>5. CASE Reading
  <2>1. suspended' = suspended /\ (discontinuity' = discontinuity \/ discontinuity' = FALSE)
    BY <1>5, Zenon DEF Reading, TickReads, ReadNothing, Read
  <2> QED
    BY <1>0, <2>1, Zenon
<1>6. CASE Answering
  <2>1. discontinuity' = discontinuity /\ suspended' = suspended
    BY <1>6, Zenon DEF Answering, SendPending, CaptureAnchor
  <2> QED
    BY <1>0, <2>1, Zenon
<1>7. CASE Resuming
  <2>1. discontinuity' = discontinuity
    BY <1>7, Zenon DEF Resuming, Resume
  <2>2. suspended' = suspended \/ suspended' = FALSE
    BY <1>7, Zenon DEF Resuming, Resume, Answers
  <2> QED
    BY <1>0, <2>1, <2>2, Zenon
<1> QED
  BY <1>1, <1>2, <1>3, <1>4, <1>5, <1>6, <1>7, NextSteps, Zenon

\* The types but for the flags.
RestTyped ==
  /\ node \in {"Created", "Prepared", "Running", "Stopped", "Error", "Destroyed"}
  /\ sys \in {"Created", "Prepared", "Running"}
  /\ pcm \in {"closed", "prepared", "capturing", "xrun", "suspended"}
  /\ pc \in {"idle", "anchor", "read", "send"}
  /\ partial \in Seq(Int)
  /\ Len(partial) <= SamplesPerFrame /\ (node = "Running" => Len(partial) < SamplesPerFrame)
  /\ pending \in Frames \cup {NoFrame} /\ sent \in Frames \cup {NoFrame}
  /\ anchor \in Anchors /\ candidate \in Anchors /\ emitted \in Nat
  /\ now \in 0..MaxTime /\ clock \in BufferFrames..MaxTime
  /\ ring \in Seq(Int) /\ spliced \subseteq Int

\* The flags, apart from the rest of the type: the provers take Booleans badly.
LEMMA TypesSplit == TypeOK <=> RestTyped /\ suspended \in BOOLEAN /\ discontinuity \in BOOLEAN
BY Zenon DEF TypeOK, RestTyped

\* A step that puts nothing into the block and may fail the node, or discard.
LEMMA HeldTyped ==
  ASSUME RestTyped, partial' \in {partial, <<>>}, node' = "Running" => node = "Running" \/ partial' = <<>>
  PROVE  /\ partial' \in Seq(Int) /\ Len(partial') <= SamplesPerFrame
         /\ node' = "Running" => Len(partial') < SamplesPerFrame
<1>1. <<>> \in Seq(Int) /\ Len(<<>>) = 0
  OBVIOUS
<1>2. CASE partial' = <<>>
  BY <1>1, <1>2, SizesTold
<1>3. CASE partial' = partial /\ partial' # <<>>
  BY <1>3 DEF RestTyped
<1> QED
  BY <1>2, <1>3

\* What a read leaves in the node: more of the block, or a frame.
LEMMA ReadTells ==
  ASSUME TypeOK, DeviceInv, TimelineInv, NEW n \in 1..SamplesPerFrame,
         NEW created \in BOOLEAN, NEW observed \in BOOLEAN, Read(n, created, observed)
  PROVE  LET block == partial \o SubSeq(ring, 1, n)
         IN  /\ anchor' \in Anchors /\ anchor'.set /\ n \in Nat /\ n <= Len(ring)
             /\ ring' = SubSeq(ring, n + 1, Len(ring)) /\ ring' \in Seq(Int)
             /\ UNCHANGED <<sys, suspended, emitted, sent, spliced, pcm, clock>>
             /\ block \in Seq(Int) /\ Len(block) = Len(partial) + n
             /\ \/ /\ partial' = block /\ UNCHANGED <<pending, discontinuity>>
                   /\ pc' = "idle" /\ now' = 0 /\ candidate' = NoAnchor
                   /\ \/ Len(block) < SamplesPerFrame /\ node' \in {node, "Error"}
                      \/ Len(block) <= SamplesPerFrame /\ node' = "Error"
                \/ /\ Len(block) = SamplesPerFrame
                   /\ partial' = <<>> /\ discontinuity' = FALSE /\ pending' \in Frames
                   /\ pending'.samples = block
                   /\ pending'.pts = anchor'.pts + emitted /\ pending'.fallback = anchor'.fallback
                   /\ pending'.discontinuity = discontinuity
                   /\ \/ pc' = "send" /\ UNCHANGED <<node, now, candidate>>
                      \/ pc' = "idle" /\ now' = 0 /\ candidate' = NoAnchor /\ node' = "Error"
<1> USE DEF nodeVars, tickVars, deviceVars, sessionVars, Returns, Goes
<1> DEFINE block == partial \o SubSeq(ring, 1, n)
<1>1. /\ pc = "read" /\ n <= Len(ring) /\ n <= Missing
      /\ ring' = SubSeq(ring, n + 1, Len(ring))
      /\ UNCHANGED <<sys, suspended, emitted, sent, spliced, pcm, clock>>
      /\ anchor' = IF anchor.set THEN anchor ELSE candidate
  BY DEF Read, Available
<1>2. /\ partial \in Seq(Int) /\ Len(partial) \in Nat /\ ring \in Seq(Int)
      /\ n \in Nat /\ anchor \in Anchors /\ candidate \in Anchors /\ emitted \in Nat
      /\ discontinuity \in BOOLEAN /\ pending = NoFrame
  BY <1>1, SizesTold DEF TypeOK, TimelineInv
<1>3. anchor' \in Anchors /\ anchor'.set
  BY <1>1, <1>2 DEF TimelineInv
<1>4. Len(partial) + n <= SamplesPerFrame
  BY <1>1, <1>2, SizesTold DEF Missing
<1>5. ring' \in Seq(Int) /\ SubSeq(ring, 1, n) \in Seq(Int) /\ Len(SubSeq(ring, 1, n)) = n
  BY <1>1, <1>2, Parting
<1>6. block \in Seq(Int) /\ Len(block) = Len(partial) + n
  BY <1>2, <1>5, Joining
<1>7. IF Len(block) < SamplesPerFrame \/ ~created
      THEN /\ partial' = block /\ UNCHANGED <<pending, discontinuity>>
           /\ Returns(Len(block) < SamplesPerFrame /\ observed)
      ELSE /\ pending' = [samples |-> block, pts |-> anchor'.pts + emitted,
                          discontinuity |-> discontinuity, fallback |-> anchor'.fallback]
           /\ partial' = <<>> /\ discontinuity' = FALSE
           /\ IF observed THEN Goes("send") /\ UNCHANGED <<node, now, candidate>>
              ELSE Returns(FALSE)
  BY Zenon DEF Read
<1> HIDE DEF block
<1>8. CASE Len(block) < SamplesPerFrame \/ ~created
  <2>1. /\ partial' = block /\ UNCHANGED <<pending, discontinuity>>
        /\ pc' = "idle" /\ now' = 0 /\ candidate' = NoAnchor
        /\ node' = IF Len(block) < SamplesPerFrame /\ observed THEN node ELSE "Error"
    BY <1>7, <1>8
  <2>2. \/ Len(block) < SamplesPerFrame /\ node' \in {node, "Error"}
        \/ Len(block) <= SamplesPerFrame /\ node' = "Error"
    BY <1>4, <1>6, <2>1
  <2> QED
    BY <1>1, <1>2, <1>3, <1>5, <1>6, <2>1, <2>2 DEF block
<1>9. CASE ~(Len(block) < SamplesPerFrame \/ ~created)
  <2>1. /\ pending' = [samples |-> block, pts |-> anchor'.pts + emitted,
                       discontinuity |-> discontinuity, fallback |-> anchor'.fallback]
        /\ partial' = <<>> /\ discontinuity' = FALSE
        /\ \/ pc' = "send" /\ UNCHANGED <<node, now, candidate>>
           \/ pc' = "idle" /\ now' = 0 /\ candidate' = NoAnchor /\ node' = "Error"
    BY <1>7, <1>9
  <2>2. Len(block) = SamplesPerFrame
    <3>1. \A x \in Nat, y \in Nat : x <= y /\ ~(x < y) => x = y
      OBVIOUS
    <3>2. Len(block) \in Nat /\ Len(block) <= SamplesPerFrame
      BY <1>2, <1>4, <1>6
    <3> QED
      BY <1>9, <3>1, <3>2, SizesTold, Zenon
  <2>3. block \in [1..SamplesPerFrame -> Int]
    BY <1>6, <2>2, BlockFull
  <2>4. /\ pending'.samples = block /\ pending'.pts = anchor'.pts + emitted
        /\ pending'.discontinuity = discontinuity /\ pending'.fallback = anchor'.fallback
    BY <2>1
  <2>5. anchor'.pts + emitted \in Int /\ anchor'.fallback \in BOOLEAN
    BY <1>2, <1>3, AnchorsTold
  <2>6. pending' \in Frames
    BY <1>2, <2>1, <2>3, <2>5, Zenon DEF Frames
  <2> QED
    BY <1>1, <1>2, <1>3, <1>5, <1>6, <2>1, <2>2, <2>4, <2>6 DEF block
<1> QED
  BY <1>8, <1>9

\* Every step keeps the types.
LEMMA TypeStep ==
  ASSUME IInv, Next
  PROVE  TypeOK'
<1>0. RestTyped /\ NoAnchor \in Anchors /\ SamplesPerFrame \in Nat /\ BufferFrames \in Nat /\ MaxTime \in Nat
  BY TypesSplit, AnchorsTold, SizesTold DEF IInv
<1> USE DEF nodeVars, tickVars, deviceVars, sessionVars, Returns, Goes, Closes, Discards, Captures
<1> SUFFICES RestTyped'
  BY FlagsTyped, Zenon DEF IInv, TypeOK, RestTyped
<1>e. <<>> \in Seq(Int) /\ clock \in Int
  BY <1>0 DEF RestTyped
<1>1. CASE Elapse \/ Suspend
  <2>1. Append(ring, clock) \in Seq(Int)
    BY <1>0, <1>e DEF RestTyped
  <2>2. /\ ring' \in {ring, <<>>, Append(ring, clock)} /\ pcm' \in {pcm, "xrun", "suspended"}
        /\ clock' \in {clock, clock + 1} /\ (clock' # clock => clock < MaxTime)
        /\ UNCHANGED <<node, sys, nodeVars, tickVars, sessionVars>>
    BY <1>0, <1>1 DEF Elapse, Suspend
  <2>3. ring' \in Seq(Int) /\ clock' \in BufferFrames..MaxTime
    <3>1. ring' \in Seq(Int)
      BY <1>0, <1>e, <2>1, <2>2, Zenon DEF RestTyped
    <3>2. clock' \in BufferFrames..MaxTime
      BY <1>0, <2>2 DEF RestTyped
    <3> QED
      BY <3>1, <3>2
  <2>4. /\ node' \in {"Created", "Prepared", "Running", "Stopped", "Error", "Destroyed"}
        /\ pcm' \in {"closed", "prepared", "capturing", "xrun", "suspended"}
        /\ sys' \in {"Created", "Prepared", "Running"} /\ pc' \in {"idle", "anchor", "read", "send"}
    BY <1>0, <2>2 DEF RestTyped
  <2>5. /\ partial' \in Seq(Int) /\ Len(partial') <= SamplesPerFrame
        /\ node' = "Running" => Len(partial') < SamplesPerFrame
        /\ UNCHANGED <<pending, emitted, anchor, now, candidate, sent, spliced>>
    BY <1>0, <2>2 DEF RestTyped
  <2> QED
    BY <1>0, <2>3, <2>4, <2>5, Zenon DEF RestTyped
<1>2. CASE Opening
  <2>1. ASSUME NEW ok \in BOOLEAN, NEW also \in BOOLEAN, Prepare(ok, also) PROVE RestTyped'
    <3>1. /\ partial' = partial /\ node' \in {"Prepared", "Error"}
          /\ sys' \in {sys, "Created", "Prepared"} /\ pcm' \in {pcm, "closed", "prepared"}
          /\ ring' \in {ring, <<>>}
      BY <2>1 DEF Prepare
    <3> QED
      BY <1>0, <1>e, <2>1, <3>1 DEF Prepare, RestTyped
  <2>2. ASSUME NEW ok \in BOOLEAN, NEW also \in BOOLEAN, NEW observed \in BOOLEAN,
               Start(ok, also, observed)
        PROVE  RestTyped'
    <3>1. /\ partial' = <<>> /\ pending' = NoFrame /\ emitted' = 0 /\ anchor' = NoAnchor
          /\ sent' = NoFrame /\ spliced' = {} /\ UNCHANGED <<pc, now, candidate, clock>>
          /\ node' \in {"Running", "Error"}
      BY <2>2 DEF Start
    <3>2. sys' \in {sys, "Running"} /\ pcm' \in {pcm, "capturing"} /\ ring' \in {ring, <<>>}
      BY <2>2 DEF Start
    <3> QED
      BY <1>0, <1>e, <3>1, <3>2, HeldTyped DEF RestTyped
  <2> QED
    BY <1>2, <2>1, <2>2 DEF Opening
<1>3. CASE Closing
  <2>1. /\ UNCHANGED <<pc, now, candidate, clock, sent, spliced>>
        /\ \/ UNCHANGED <<partial, pending, emitted, anchor>>
           \/ partial' = <<>> /\ pending' = NoFrame /\ emitted' = 0 /\ anchor' = NoAnchor
        /\ node' \in {"Created", "Stopped", "Destroyed", "Error"}
        /\ sys' \in {sys, "Created"} /\ pcm' \in {pcm, "closed"} /\ ring' \in {ring, <<>>}
    BY <1>3 DEF Closing, Stop, Destroy, Reset, StopsSystem
  <2>2. partial' \in {partial, <<>>} /\ node' # "Running"
    BY <2>1
  <2>3. /\ partial' \in Seq(Int) /\ Len(partial') <= SamplesPerFrame
        /\ node' = "Running" => Len(partial') < SamplesPerFrame
    BY <1>0, <2>1, <2>2, HeldTyped
  <2>4. ring' \in Seq(Int) /\ now' \in 0..MaxTime /\ pending' \in Frames \cup {NoFrame}
    <3>1. ring' \in Seq(Int)
      BY <1>0, <1>e, <2>1, Zenon DEF RestTyped
    <3>2. now' \in 0..MaxTime /\ pending' \in Frames \cup {NoFrame}
      BY <1>0, <2>1 DEF RestTyped
    <3> QED
      BY <3>1, <3>2
  <2> QED
    BY <1>0, <2>1, <2>2, <2>3, <2>4 DEF RestTyped
<1>4. CASE Interrupting
  <2>1. /\ UNCHANGED <<sys, clock, sent, spliced>>
        /\ \/ UNCHANGED <<partial, pending, emitted, anchor>>
           \/ partial' = <<>> /\ pending' = NoFrame /\ emitted' = 0 /\ anchor' = NoAnchor
        /\ node' \in {node, "Error"} /\ pc' = "idle" /\ now' = 0 /\ candidate' = NoAnchor
        /\ pcm' \in {pcm, "capturing"} /\ ring' \in {ring, <<>>}
    BY <1>4 DEF Interrupting, AnchorInterrupted, ReadInterrupted, Interrupted, EndsTimeline,
                PartialAfterGap
  <2>2. partial' \in {partial, <<>>} /\ (node' = "Running" => node = "Running")
    BY <2>1
  <2>3. /\ partial' \in Seq(Int) /\ Len(partial') <= SamplesPerFrame
        /\ node' = "Running" => Len(partial') < SamplesPerFrame
    BY <1>0, <2>1, <2>2, HeldTyped
  <2>4. ring' \in Seq(Int) /\ now' \in 0..MaxTime /\ pending' \in Frames \cup {NoFrame}
    <3>1. ring' \in Seq(Int)
      BY <1>0, <1>e, <2>1, Zenon DEF RestTyped
    <3>2. now' \in 0..MaxTime /\ pending' \in Frames \cup {NoFrame}
      BY <1>0, <2>1 DEF RestTyped
    <3> QED
      BY <3>1, <3>2
  <2>5. /\ node' \in {"Created", "Prepared", "Running", "Stopped", "Error", "Destroyed"}
        /\ pcm' \in {"closed", "prepared", "capturing", "xrun", "suspended"}
        /\ sys' \in {"Created", "Prepared", "Running"} /\ pc' \in {"idle", "anchor", "read", "send"}
    BY <1>0, <2>1 DEF RestTyped
  <2>6. emitted' \in Nat /\ anchor' \in Anchors /\ candidate' \in Anchors
    BY <1>0, <2>1 DEF RestTyped
  <2>7. UNCHANGED <<clock, sent, spliced>>
    BY <2>1
  <2> QED
    BY <1>0, <2>3, <2>4, <2>5, <2>6, <2>7, Zenon DEF RestTyped
<1>5. CASE Reading
  <2>1. ASSUME NEW ok \in BOOLEAN, TickReads(ok) PROVE RestTyped'
    BY <1>0, <2>1 DEF TickReads, RestTyped
  <2>2. ASSUME NEW ok \in BOOLEAN, NEW also \in BOOLEAN, ReadNothing(ok, also) PROVE RestTyped'
    BY <1>0, <2>2 DEF ReadNothing, RestTyped
  <2>3. ASSUME NEW ok \in BOOLEAN, NEW also \in BOOLEAN, NEW n \in 1..SamplesPerFrame,
               Read(n, ok, also)
        PROVE  RestTyped'
    <3>1. /\ anchor' \in Anchors /\ ring' \in Seq(Int)
          /\ UNCHANGED <<sys, suspended, emitted, sent, spliced, pcm, clock>>
      BY <2>3, ReadTells DEF IInv
    <3>2. /\ partial' \in Seq(Int) /\ Len(partial') <= SamplesPerFrame
          /\ node' = "Running" => Len(partial') < SamplesPerFrame
          /\ pending' \in Frames \cup {NoFrame}
          /\ pc' \in {"idle", "send"} /\ now' \in {now, 0} /\ candidate' \in {candidate, NoAnchor}
          /\ node' \in {node, "Error"}
      <4>1. <<>> \in Seq(Int) /\ Len(<<>>) = 0 /\ 0 < SamplesPerFrame /\ 0 <= SamplesPerFrame
        BY SizesTold
      <4>2. pending \in Frames \cup {NoFrame}
        BY <1>0 DEF RestTyped
      <4>3. \A x \in Nat : x < SamplesPerFrame => x <= SamplesPerFrame
        BY <1>0
      <4>4. \A q \in Seq(Int) : Len(q) \in Nat
        OBVIOUS
      <4>5. node \in {"Running"}
        BY <2>3 DEF Read, IInv, DeviceInv
      <4> QED
        BY <2>3, <4>1, <4>2, <4>3, <4>4, <4>5, ReadTells DEF IInv
    <3> QED
      BY <1>0, <3>1, <3>2 DEF RestTyped
  <2> QED
    BY <1>5, <2>1, <2>2, <2>3 DEF Reading
<1>6. CASE Answering
  <2>2. ASSUME NEW answer \in Answers, NEW observed \in BOOLEAN, SendPending(answer, observed)
        PROVE  RestTyped'
    <3>1. /\ UNCHANGED <<sys, partial, anchor, pcm, clock, ring, spliced>>
          /\ node' \in {node, "Error"} /\ pc' = "idle" /\ now' = 0 /\ candidate' = NoAnchor
          /\ sent' \in {sent, pending} /\ pending' \in {pending, NoFrame}
          /\ emitted' \in {emitted, emitted + SamplesPerFrame}
      BY <2>2 DEF SendPending, Answers
    <3> QED
      BY <1>0, <3>1 DEF RestTyped
  <2>3. ASSUME NEW answer \in Answers, NEW observed \in BOOLEAN, NEW fallback \in BOOLEAN,
               CaptureAnchor(fallback, answer, observed)
        PROVE  RestTyped'
    <3>1. /\ UNCHANGED <<sys, partial, pending, emitted, anchor, sent, spliced, pcm, clock, ring>>
          /\ node' \in {node, "Error"} /\ pc' \in {"idle", "read"} /\ now' \in {now, 0}
      BY <2>3 DEF CaptureAnchor, Answers
    <3>2. candidate' \in Anchors
      <4>1. \/ candidate' = NoAnchor
            \/ candidate' = [pts |-> FirstUnread(IF fallback THEN now ELSE clock),
                             fallback |-> fallback, set |-> TRUE]
        BY <2>3 DEF CaptureAnchor, Answers
      <4>2. FirstUnread(IF fallback THEN now ELSE clock) \in Int
        <5>1. Len(ring) \in Nat /\ now \in Int /\ clock \in Int
          BY <1>0, <1>e DEF RestTyped
        <5> QED
          BY <5>1 DEF FirstUnread, Available
      <4> QED
        BY <4>1, <4>2, AnchorsTold
    <3> QED
      BY <1>0, <3>1, <3>2 DEF RestTyped
  <2> QED
    BY <1>6, <2>2, <2>3 DEF Answering
<1>7. CASE Resuming
  <2>1. /\ UNCHANGED <<sys, partial, pending, emitted, anchor, sent, clock>>
        /\ node' \in {node, "Error"} /\ pc' = "idle" /\ now' = 0 /\ candidate' = NoAnchor
        /\ pcm' \in {pcm, "capturing"} /\ ring' \in {ring, <<>>}
        /\ spliced' \in {spliced, spliced \cup {clock}}
    BY <1>7 DEF Resuming, Resume, Resumes, Answers
  <2>2. ring' \in Seq(Int) /\ spliced' \subseteq Int /\ now' \in 0..MaxTime
    <3>1. ring' \in Seq(Int)
      BY <1>0, <1>e, <2>1, Zenon DEF RestTyped
    <3>2. spliced' \subseteq Int /\ now' \in 0..MaxTime
      BY <1>0, <1>e, <2>1 DEF RestTyped
    <3> QED
      BY <3>1, <3>2
  <2>3. Len(partial') <= SamplesPerFrame /\ (node' = "Running" => Len(partial') < SamplesPerFrame)
    BY <1>0, <2>1 DEF RestTyped
  <2>4. /\ node' \in {"Created", "Prepared", "Running", "Stopped", "Error", "Destroyed"}
        /\ pcm' \in {"closed", "prepared", "capturing", "xrun", "suspended"}
        /\ sys' \in {"Created", "Prepared", "Running"} /\ pc' \in {"idle", "anchor", "read", "send"}
    BY <1>0, <2>1 DEF RestTyped
  <2>5. UNCHANGED <<partial, pending, emitted, anchor, sent, clock>> /\ candidate' = NoAnchor
    BY <2>1
  <2> QED
    BY <1>0, <2>2, <2>3, <2>4, <2>5, Zenon DEF RestTyped
<1> QED
  BY <1>1, <1>2, <1>3, <1>4, <1>5, <1>6, <1>7, NextSteps

------------------------------------------------------------------------------
(***************************************************************************)
(* The device.                                                             *)
(***************************************************************************)
LEMMA DeviceStep ==
  ASSUME IInv, Next
  PROVE  DeviceInv'
<1> USE DEF nodeVars, tickVars, deviceVars, sessionVars, Returns, Goes, Closes, Available
<1>0. /\ DeviceAccounted /\ (pc # "idle" => node = "Running" /\ ~suspended)
      /\ Len(ring) <= BufferFrames /\ (pcm \in {"closed", "prepared", "xrun"} => ring = <<>>)
      /\ RestTyped /\ ring \in Seq(Int) /\ Len(ring) \in Nat /\ clock \in Nat /\ BufferFrames \in Nat
      /\ Len(<<>>) = 0 /\ 0 <= BufferFrames
  BY SizesTold, TypesSplit DEF IInv, DeviceInv, TypeOK
<1>1. CASE Elapse
  <2>1. Len(Append(ring, clock)) = Len(ring) + 1
    BY <1>0, Appending
  <2>2. /\ UNCHANGED <<node, sys, suspended, pc>>
        /\ \/ pcm # "capturing" /\ UNCHANGED <<pcm, ring>>
           \/ pcm = "capturing" /\ pcm' = "xrun" /\ ring' = <<>>
           \/ pcm = "capturing" /\ pcm' = pcm /\ ring' = Append(ring, clock) /\ Len(ring) # BufferFrames
    BY <1>1, Zenon DEF Elapse
  <2> QED
    BY <1>0, <2>1, <2>2 DEF DeviceInv, DeviceAccounted
<1>2. CASE Suspend
  BY <1>0, <1>2 DEF Suspend, DeviceInv, DeviceAccounted, RestTyped
<1>3. CASE Opening
  <2>1. ASSUME NEW ok \in BOOLEAN, NEW also \in BOOLEAN, Prepare(ok, also) PROVE DeviceInv'
    <3>1. sys = "Created" /\ pcm = "closed" /\ ~suspended /\ pc = "idle"
      BY <1>0, <2>1 DEF Prepare, DeviceAccounted
    <3>2. \/ node' = "Prepared" /\ sys' = "Prepared" /\ pcm' = "prepared" /\ suspended' = suspended
          \/ node' = "Error" /\ sys' = "Created" /\ pcm' = "closed" /\ suspended' = FALSE
      BY <2>1, <3>1 DEF Prepare
    <3>3. pc' = pc /\ ring' = <<>>
      BY <1>0, <2>1, <3>1 DEF Prepare
    <3> QED
      BY <1>0, <3>1, <3>2, <3>3 DEF DeviceInv, DeviceAccounted
  <2>2. ASSUME NEW ok \in BOOLEAN, NEW also \in BOOLEAN, NEW observed \in BOOLEAN,
               Start(ok, also, observed)
        PROVE  DeviceInv'
    <3>1. sys = "Prepared" /\ pcm = "prepared" /\ pc = "idle" /\ ~suspended
      BY <1>0, <2>2 DEF Start, DeviceAccounted
    <3>2. /\ UNCHANGED <<pc, clock, suspended>>
          /\ \/ sys' = "Running" /\ pcm' = "capturing" /\ ring' = <<>> /\ node' \in {"Running", "Error"}
             \/ node' = "Error" /\ UNCHANGED <<sys, pcm, ring>>
      BY <2>2 DEF Start, Captures
    <3> QED
      BY <1>0, <3>1, <3>2 DEF DeviceInv, DeviceAccounted
  <2> QED
    BY <1>3, <2>1, <2>2 DEF Opening
<1>4. CASE Closing
  <2>1. /\ pc = "idle" /\ UNCHANGED <<pc, clock>>
        /\ node' \in {"Created", "Stopped", "Destroyed", "Error"}
        /\ \/ sys' = "Created" /\ pcm' = "closed" /\ suspended' = FALSE /\ ring' = <<>>
           \/ sys = "Created" /\ UNCHANGED <<sys, pcm, suspended, ring>>
    BY <1>0, <1>4 DEF Closing, Stop, Destroy, Reset, StopsSystem, DeviceAccounted
  <2> QED
    BY <1>0, <2>1 DEF DeviceInv, DeviceAccounted
<1>5. CASE Interrupting
  <2>1. /\ pc' = "idle" /\ UNCHANGED <<sys, clock>> /\ node' \in {node, "Error"} /\ node = "Running"
        /\ ~suspended
        /\ \/ pcm = "xrun" /\ pcm' = "capturing" /\ ring' = <<>> /\ suspended' = suspended
           \/ pcm = "xrun" /\ UNCHANGED <<pcm, ring, suspended>>
           \/ pcm = "suspended" /\ suspended' = TRUE /\ UNCHANGED <<pcm, ring>>
    BY <1>0, <1>5 DEF Interrupting, AnchorInterrupted, ReadInterrupted, Interrupted, Captures
  <2> QED
    BY <1>0, <2>1 DEF DeviceInv, DeviceAccounted
<1>6. CASE Reading
  <2>1. ASSUME NEW ok \in BOOLEAN, TickReads(ok) PROVE DeviceInv'
    <3>1. /\ UNCHANGED <<sys, clock, ring, pcm, suspended>> /\ ~suspended /\ node = "Running"
          /\ \/ node' = node
             \/ pc' = "idle" /\ node' = "Error"
      BY <2>1 DEF TickReads, TickStarts
    <3> QED
      BY <1>0, <3>1 DEF DeviceInv, DeviceAccounted
  <2>2. ASSUME NEW ok \in BOOLEAN, NEW also \in BOOLEAN, ReadNothing(ok, also) PROVE DeviceInv'
    <3>1. UNCHANGED <<sys, clock, ring, pcm, suspended>> /\ node' \in {node, "Error"} /\ pc' = "idle"
          /\ node = "Running"
      BY <1>0, <2>2 DEF ReadNothing
    <3> QED
      BY <1>0, <3>1 DEF DeviceInv, DeviceAccounted
  <2>3. ASSUME NEW ok \in BOOLEAN, NEW also \in BOOLEAN, NEW n \in 1..SamplesPerFrame,
               Read(n, ok, also)
        PROVE  DeviceInv'
    <3>1. node = "Running" /\ ~suspended /\ n \in Nat /\ pcm = "capturing"
      BY <1>0, <2>3, SizesTold DEF Read
    <3>2. /\ UNCHANGED <<sys, suspended, pcm, clock>> /\ n <= Len(ring)
          /\ ring' = SubSeq(ring, n + 1, Len(ring))
          /\ \/ node' = node
             \/ pc' = "idle" /\ node' = "Error"
      BY <2>3, ReadTells DEF IInv
    <3>3. Len(ring') = Len(ring) - n
      BY <1>0, <3>1, <3>2, Parting
    <3> QED
      BY <1>0, <3>1, <3>2, <3>3 DEF DeviceInv, DeviceAccounted
  <2> QED
    BY <1>6, <2>1, <2>2, <2>3 DEF Reading
<1>7. CASE Answering
  <2>1. /\ UNCHANGED <<sys, clock, pcm, ring, suspended>> /\ node = "Running" /\ node' \in {node, "Error"}
        /\ \/ pc' = "idle"
           \/ pc' # "idle" /\ node' = node /\ ~suspended
    BY <1>0, <1>7, ZenonT(60) DEF Answering, SendPending, CaptureAnchor, Answers, TickStarts
  <2> QED
    BY <1>0, <2>1 DEF DeviceInv, DeviceAccounted
<1>8. CASE Resuming
  <2>1. /\ sys' = sys /\ node = "Running" /\ node' \in {node, "Error"} /\ pc' = "idle"
        /\ \/ UNCHANGED <<pcm, ring, suspended>>
           \/ suspended /\ suspended' = FALSE /\ pcm' = "capturing" /\ ring' \in {ring, <<>>}
    BY <1>8, ZenonT(60) DEF Resuming, Resume, Resumes, Answers, TickStarts, Captures
  <2> QED
    BY <1>0, <2>1 DEF DeviceInv, DeviceAccounted
<1> QED
  BY <1>1, <1>2, <1>3, <1>4, <1>5, <1>6, <1>7, <1>8, NextSteps

------------------------------------------------------------------------------
(***************************************************************************)
(* The samples captured: order, joints and dates.                          *)
(***************************************************************************)

\* One sample more, later than the others and next to the last or a joint.
LEMMA JoinedMore ==
  ASSUME NEW s \in Seq(Int), NEW c \in Int, NEW S,
         \A i, j \in 1..Len(s) : i < j => s[i] < s[j],
         \A i \in 1..(Len(s) - 1) : s[i] + 1 < s[i + 1] => s[i + 1] \in S,
         \A i \in 1..Len(s) : s[i] < c,
         c \in S \/ \A i \in 1..Len(s) : i = Len(s) => s[i] + 1 = c
  PROVE  LET a == Append(s, c)
         IN  /\ \A i, j \in 1..Len(a) : i < j => a[i] < a[j]
             /\ \A i \in 1..(Len(a) - 1) : a[i] + 1 < a[i + 1] => a[i + 1] \in S
<1> DEFINE a == Append(s, c)
<1>1. /\ Len(s) \in Nat /\ Len(a) = Len(s) + 1 /\ a[Len(s) + 1] = c
      /\ \A i \in 1..Len(s) : a[i] = s[i] /\ s[i] \in Int
  BY Appending
<1> HIDE DEF a
<1>2. \A i, j \in 1..Len(a) : i < j => a[i] < a[j]
  <2> SUFFICES ASSUME NEW i \in 1..Len(a), NEW j \in 1..Len(a), i < j PROVE a[i] < a[j]
    OBVIOUS
  <2>0. i \in 1..(Len(s) + 1) /\ j \in 1..(Len(s) + 1)
    BY <1>1, Zenon
  <2>1. i \in 1..Len(s) /\ (j \in 1..Len(s) \/ j = Len(s) + 1)
    <3>1. \A m \in Nat : \A x, y \in 1..(m + 1) :
             x < y => x \in 1..m /\ (y \in 1..m \/ y = m + 1)
      OBVIOUS
    <3> QED
      BY <1>1, <2>0, <3>1, Zenon
  <2> QED
    BY <1>1, <2>1
<1>3. \A i \in 1..(Len(a) - 1) : a[i] + 1 < a[i + 1] => a[i + 1] \in S
  <2> SUFFICES ASSUME NEW i \in 1..(Len(a) - 1), a[i] + 1 < a[i + 1] PROVE a[i + 1] \in S
    OBVIOUS
  <2>1. CASE i = Len(s)
    <3>1. i \in 1..Len(s) /\ a[i] = s[i] /\ a[i + 1] = c /\ s[i] \in Int
      BY <1>1, <2>1
    <3> QED
      BY <2>1, <3>1
  <2>2. CASE i # Len(s)
    <3>1. i \in 1..Len(s) /\ i + 1 \in 1..Len(s) /\ i \in 1..(Len(s) - 1)
      BY <1>1, <2>2
    <3> QED
      BY <1>1, <3>1
  <2> QED
    BY <2>1, <2>2
<1> QED
  BY <1>2, <1>3 DEF a

\* Nothing captured and not sent.
LEMMA RingEmpty ==
  ASSUME TypeOK', ring' = <<>>, Stream' = <<>>,
         Joined(sent.samples)', \A s \in spliced' : s <= clock'
  PROVE  RingInv'
<1>1. clock' \in Int /\ Len(ring') = 0 /\ Len(Stream') = 0
  BY SizesTold DEF TypeOK
<1>2. Joined(Stream)'
  BY <1>1 DEF Joined
<1>3. Len(Append(Stream, clock)') = 1
  OBVIOUS
<1>4. Joined(Append(Stream, clock))'
  BY <1>3 DEF Joined
<1> QED
  BY <1>1, <1>2, <1>4 DEF RingInv

\* What is captured stays, or the node forgets its part, or all of it is gone.
LEMMA RingMoved ==
  ASSUME TypeOK, TypeOK', RingInv, UNCHANGED <<clock, spliced>>, Joined(sent'.samples),
         ring' \in {ring, <<>>}, Stream' \in {Stream, ring, <<>>},
         pcm' = "capturing" => pcm = "capturing" \/ (ring' = <<>> /\ Stream' = <<>>)
  PROVE  RingInv'
<1>1. Joined(sent.samples)' /\ \A s \in spliced' : s <= clock'
  BY DEF Joined, RingInv
<1>2. CASE ring' = <<>> /\ Stream' = <<>>
  BY <1>1, <1>2, RingEmpty
<1>3. CASE ~(ring' = <<>> /\ Stream' = <<>>)
  <2>1. pcm' = "capturing" => pcm = "capturing"
    BY <1>3
  <2>2. /\ \A i \in 1..Len(Stream') : Stream'[i] < clock
        /\ Joined(Stream') /\ (pcm = "capturing" => Joined(Append(Stream', clock)))
    <3>1. CASE Stream' = Stream
      BY <3>1, Zenon DEF RingInv
    <3>2. CASE Stream' = ring
      BY <3>2, StreamJoined, Zenon
    <3>3. CASE Stream' = <<>>
      <4>1. Len(<<>>) = 0 /\ clock \in Int
        BY StreamTold
      <4>2. \A i \in 1..Len(<<>>) : <<>>[i] < clock
        BY <4>1
      <4> QED
        BY <3>3, <4>1, <4>2, NothingJoined, Zenon
    <3> QED
      BY <3>1, <3>2, <3>3
  <2>3. Joined(Stream)' /\ (pcm' = "capturing" => Joined(Append(Stream, clock))')
    BY <2>1, <2>2 DEF Joined
  <2>4. /\ \A i \in 1..Len(ring') :
             /\ ring'[i] <= Origin' + i - 1
             /\ pcm' = "capturing" /\ ~Kept(ring[i])' => ring'[i] = Origin' + i - 1
    <3>1. CASE ring' = ring
      <4>1. Origin' = Origin
        BY <3>1 DEF Origin
      <4>2. \A i \in 1..Len(ring) : Kept(ring[i])' = Kept(ring[i])
        BY <3>1, Zenon DEF Kept
      <4> QED
        BY <2>1, <3>1, <4>1, <4>2, Zenon DEF RingInv
    <3>2. CASE ring' = <<>>
      BY <3>2
    <3> QED
      BY <3>1, <3>2
  <2> QED
    BY <1>1, <2>2, <2>3, <2>4, Zenon DEF RingInv
<1> QED
  BY <1>2, <1>3

\* The stream when the node has discarded its part.
LEMMA StreamDiscarded ==
  ASSUME TypeOK', pending' = NoFrame, partial' = <<>>
  PROVE  Stream' = ring'
<1>1. pending'.samples = <<>>
  BY DEF NoFrame
<1>2. <<>> \o <<>> = <<>> /\ <<>> \o ring' = ring'
  <2>1. ring' \in Seq(Int)
    BY DEF TypeOK
  <2> QED
    BY <2>1, ConcatEmptySeq
<1> QED
  BY <1>1, <1>2 DEF Stream

\* A read moves samples from the ring to the node and nothing else.
LEMMA StreamRead ==
  ASSUME TypeOK, DeviceInv, TimelineInv, TypeOK', NEW n \in 1..SamplesPerFrame,
         NEW created \in BOOLEAN, NEW observed \in BOOLEAN, Read(n, created, observed)
  PROVE  Stream' = Stream
<1> DEFINE t == SubSeq(ring, 1, n)
           u == SubSeq(ring, n + 1, Len(ring))
<1>1. /\ n \in Nat /\ n <= Len(ring) /\ ring' = u
      /\ \/ partial' = partial \o t /\ pending' = pending
         \/ partial' = <<>> /\ pending'.samples = partial \o t
  BY ReadTells
<1>2. pending = NoFrame /\ pending.samples = <<>> /\ partial \in Seq(Int) /\ ring \in Seq(Int)
  BY StreamTold DEF Read, TimelineInv, NoFrame
<1>3. t \in Seq(Int) /\ u \in Seq(Int) /\ t \o u = ring
  BY <1>1, <1>2, Parting
<1> HIDE DEF t, u
<1>4. /\ partial \o t \in Seq(Int) /\ <<>> \o partial = partial
      /\ <<>> \o (partial \o t) = partial \o t /\ (partial \o t) \o <<>> = partial \o t
  <2>1. partial \o t \in Seq(Int)
    BY <1>2, <1>3, Joining
  <2> QED
    BY <1>2, <2>1, ConcatEmptySeq
<1>5. (partial \o t) \o u = partial \o (t \o u)
  <2>1. partial \in Seq(Int) /\ t \in Seq(Int) /\ u \in Seq(Int)
    BY <1>2, <1>3
  <2> QED
    BY <2>1, ConcatAssociative
<1>6. Stream = partial \o ring
  BY <1>2, <1>4, Zenon DEF Stream
<1>7. pending'.samples \o partial' = partial \o t
  BY <1>1, <1>2, <1>4, Zenon
<1> QED
  BY <1>1, <1>3, <1>5, <1>6, <1>7, Zenon DEF Stream

\* A resume leaves the ring as it is, and notes where it goes on.
LEMMA RingResumed ==
  ASSUME TypeOK, TypeOK', RingInv, UNCHANGED <<pending, partial, ring, clock, sent>>, Stream = ring,
         spliced' = IF ring = <<>> THEN spliced ELSE spliced \cup {clock}
  PROVE  RingInv'
<1>0. /\ Stream' = Stream /\ clock \in Int /\ ring \in Seq(Int) /\ sent.samples \in Seq(Int)
      /\ Origin' = Origin /\ spliced \subseteq spliced' /\ spliced \subseteq Int
  BY StreamTold DEF Stream, Origin
<1>1. Joined(sent.samples)' /\ \A s \in spliced' : s <= clock'
  <2>1. Joined(sent.samples)'
    BY <1>0, StillJoined DEF RingInv, Joined
  <2>2. \A s \in spliced' : s <= clock'
    <3>1. (\A s \in spliced : s <= clock) /\ clock <= clock /\ clock' = clock
      BY <1>0 DEF RingInv
    <3> QED
      BY <3>1, Zenon
  <2> QED
    BY <2>1, <2>2
<1>2. CASE ring = <<>>
  BY <1>0, <1>1, <1>2, RingEmpty
<1>3. CASE ring # <<>>
  <2>1. clock \in spliced' /\ Joined(ring) /\ \A i \in 1..Len(ring) : ring[i] < clock
    BY <1>3, StreamJoined
  <2>2. Joined(ring)'
    BY <1>0, <2>1, StillJoined DEF Joined
  <2>3. Joined(Append(ring, clock))'
    <3> DEFINE a == Append(ring, clock)
    <3>1. /\ \A i, j \in 1..Len(ring) : i < j => ring[i] < ring[j]
          /\ \A i \in 1..(Len(ring) - 1) : ring[i] + 1 < ring[i + 1] => ring[i + 1] \in spliced'
      BY <1>0, <2>1, StillJoined
    <3>2. /\ \A i, j \in 1..Len(a) : i < j => a[i] < a[j]
          /\ \A i \in 1..(Len(a) - 1) : a[i] + 1 < a[i + 1] => a[i + 1] \in spliced'
      BY <1>0, <2>1, <3>1, JoinedMore
    <3>3. Append(ring, clock)' = a
      OBVIOUS
    <3> HIDE DEF a
    <3> QED
      BY <3>2, <3>3 DEF Joined
  <2>4. \A i \in 1..Len(ring) : Kept(ring[i])'
    BY <2>1 DEF Kept
  <2>5. \A i \in 1..Len(ring) : ring[i] <= Origin + i - 1
    BY DEF RingInv
  <2> QED
    BY <1>0, <1>1, <2>1, <2>2, <2>3, <2>4, <2>5, Zenon DEF RingInv
<1> QED
  BY <1>2, <1>3

\* Time passes: the device captures a sample more, or stops in an overrun.
LEMMA RingElapses ==
  ASSUME TypeOK, TypeOK', RingInv, Elapse
  PROVE  RingInv'
<1> USE DEF nodeVars, sessionVars
<1>0. /\ clock \in Int /\ ring \in Seq(Int) /\ Stream \in Seq(Int) /\ clock' = clock + 1
      /\ pending.samples \o partial \in Seq(Int) /\ UNCHANGED <<pending, partial, sent, spliced>>
      /\ Len(ring) \in Nat
  BY StreamTold DEF Elapse
<1>1. Joined(sent.samples)' /\ \A s \in spliced' : s <= clock'
  <2>1. /\ \A s \in spliced : s <= clock
        /\ \A s \in Int : s <= clock => s <= clock + 1
    BY <1>0 DEF RingInv
  <2>2. \A s \in spliced' : s <= clock'
    <3>1. spliced \subseteq Int
      BY StreamTold
    <3> QED
      BY <1>0, <2>1, <3>1, Zenon
  <2> QED
    BY <1>0, <2>2 DEF RingInv, Joined
<1>2. CASE ring' = ring /\ pcm' # "capturing"
  <2>1. Stream' = Stream /\ Origin' = Origin + 1 /\ Origin \in Int
    BY <1>0, <1>2 DEF Stream, Origin
  <2>2. \A i \in 1..Len(Stream') : Stream'[i] < clock'
    <3> SUFFICES ASSUME NEW i \in 1..Len(Stream) PROVE Stream[i] < clock + 1
      BY <1>0, <2>1, Zenon
    <3>1. Stream[i] < clock /\ Stream[i] \in Int
      BY <1>0, ElementOfSeq DEF RingInv
    <3> QED
      BY <1>0, <3>1
  <2>3. \A i \in 1..Len(ring') : ring'[i] <= Origin' + i - 1
    <3> SUFFICES ASSUME NEW i \in 1..Len(ring) PROVE ring[i] <= Origin + 1 + i - 1
      BY <1>2, <2>1
    <3>1. ring[i] <= Origin + i - 1 /\ ring[i] \in Int
      BY <1>0, ElementOfSeq DEF RingInv
    <3> QED
      BY <2>1, <3>1
  <2>4. Joined(Stream)'
    BY <1>0, <2>1 DEF RingInv, Joined
  <2> QED
    BY <1>1, <1>2, <2>2, <2>3, <2>4, Zenon DEF RingInv
<1>3. CASE ring' = <<>> /\ pcm' # "capturing"
  <2> DEFINE s == pending.samples \o partial
  <2>1. s \o <<>> = s /\ Joined(s) /\ \A i \in 1..Len(s) : s[i] < clock
    BY <1>0, ConcatEmptySeq, StreamJoined
  <2>2. Stream' = s
    BY <1>0, <1>3, <2>1, Zenon DEF Stream
  <2> HIDE DEF s
  <2>3. \A i \in 1..Len(Stream') : Stream'[i] < clock'
    <3> SUFFICES ASSUME NEW i \in 1..Len(s) PROVE s[i] < clock + 1
      BY <1>0, <2>2, Zenon
    <3>1. s[i] < clock /\ s[i] \in Int
      <4>1. s \in Seq(Int)
        BY <1>0 DEF s
      <4> QED
        BY <2>1, <4>1, ElementOfSeq
    <3> QED
      BY <1>0, <3>1
  <2>4. Joined(Stream)'
    BY <1>0, <2>1, <2>2 DEF Joined
  <2>5. \A i \in 1..Len(ring') : ring'[i] <= Origin' + i - 1
    BY <1>3
  <2> QED
    BY <1>1, <1>3, <2>3, <2>4, <2>5, Zenon DEF RingInv
<1>4. CASE ring' = Append(ring, clock) /\ pcm = "capturing"
  <2> DEFINE a == Append(Stream, clock)
  <2>1. Stream' = a
    <3>1. Append((pending.samples \o partial) \o ring, clock)
            = (pending.samples \o partial) \o Append(ring, clock)
      BY <1>0, AppendBehind
    <3> QED
      BY <1>0, <1>4, <3>1, Zenon DEF Stream
  <2>2. /\ a \in Seq(Int) /\ Len(Stream) \in Nat /\ Len(a) = Len(Stream) + 1
        /\ a[Len(Stream) + 1] = clock
        /\ \A i \in 1..Len(Stream) : a[i] = Stream[i] /\ a[i] \in Int
    BY <1>0, Appending
  <2>3. Joined(a) /\ \A i \in 1..Len(Stream) : Stream[i] < clock
    BY <1>4 DEF RingInv
  <2> HIDE DEF a
  <2>4. \A i \in 1..Len(a) : a[i] < clock + 1
    <3> SUFFICES ASSUME NEW i \in 1..Len(a) PROVE a[i] < clock + 1
      OBVIOUS
    <3>1. i \in 1..Len(Stream) \/ i = Len(Stream) + 1
      BY <2>2
    <3>2. CASE i \in 1..Len(Stream)
      <4>1. a[i] < clock /\ a[i] \in Int
        BY <2>2, <2>3, <3>2
      <4> QED
        BY <1>0, <4>1
    <3>3. CASE i = Len(Stream) + 1
      BY <1>0, <2>2, <3>3
    <3> QED
      BY <3>1, <3>2, <3>3
  <2>5. /\ \A i, j \in 1..Len(a) : i < j => a[i] < a[j]
        /\ \A i \in 1..(Len(a) - 1) : a[i] + 1 < a[i + 1] => a[i + 1] \in spliced
    BY <2>3 DEF Joined
  <2>6. \A i \in 1..Len(a) : i = Len(a) => a[i] + 1 = clock + 1
    BY <1>0, <2>2
  <2>7. LET b == Append(a, clock + 1)
        IN  /\ \A i, j \in 1..Len(b) : i < j => b[i] < b[j]
            /\ \A i \in 1..(Len(b) - 1) : b[i] + 1 < b[i + 1] => b[i + 1] \in spliced
    <3>1. a \in Seq(Int) /\ clock + 1 \in Int
      BY <1>0, <2>2
    <3> QED
      BY <2>4, <2>5, <2>6, <3>1, JoinedMore, Zenon
  <2>8. Joined(Append(Stream, clock))'
    <3> DEFINE b == Append(a, clock + 1)
    <3>1. Append(Stream, clock)' = b /\ spliced' = spliced
      BY <1>0, <2>1
    <3>2. /\ \A i, j \in 1..Len(b) : i < j => b[i] < b[j]
          /\ \A i \in 1..(Len(b) - 1) : b[i] + 1 < b[i + 1] => b[i + 1] \in spliced
      BY <2>7
    <3> HIDE DEF b
    <3> QED
      BY <3>1, <3>2 DEF Joined
  <2>9. Joined(Stream)'
    BY <1>0, <2>1, <2>3 DEF Joined
  <2>10. /\ Len(ring') = Len(ring) + 1 /\ ring'[Len(ring) + 1] = clock
         /\ \A i \in 1..Len(ring) : ring'[i] = ring[i] /\ ring[i] \in Int
    BY <1>0, <1>4, Appending
  <2>11. Origin' = Origin /\ Origin = clock - Len(ring)
    BY <1>0, <2>10 DEF Origin
  <2>12. \A i \in 1..Len(ring') :
           /\ ring'[i] <= Origin' + i - 1
           /\ pcm' = "capturing" /\ ~Kept(ring[i])' => ring'[i] = Origin' + i - 1
    <3> SUFFICES ASSUME NEW i \in 1..Len(ring')
                 PROVE  /\ ring'[i] <= Origin + i - 1
                        /\ ~Kept(ring[i])' => ring'[i] = Origin + i - 1
      BY <2>11
    <3>1. CASE i \in 1..Len(ring)
      <4>1. Kept(ring[i])' = Kept(ring[i])
        BY <1>0, <2>10, <3>1, Zenon DEF Kept
      <4>2. /\ ring[i] <= Origin + i - 1
            /\ ~Kept(ring[i]) => ring[i] = Origin + i - 1
        BY <1>4, <3>1, Zenon DEF RingInv
      <4>3. ring'[i] = ring[i]
        BY <2>10, <3>1
      <4> QED
        BY <4>1, <4>2, <4>3, Zenon
    <3>2. CASE i = Len(ring) + 1
      <4>1. ring'[i] = Origin + i - 1
        BY <1>0, <2>10, <2>11, <3>2
      <4>2. Origin + i - 1 <= Origin + i - 1
        BY <1>0, <2>11, <3>2
      <4> QED
        BY <4>1, <4>2, Zenon
    <3>3. i \in 1..Len(ring) \/ i = Len(ring) + 1
      BY <1>0, <2>10
    <3> QED
      BY <3>1, <3>2, <3>3
  <2> QED
    BY <1>0, <1>1, <2>1, <2>4, <2>8, <2>9, <2>12, Zenon DEF RingInv
<1>5. \/ ring' = ring /\ pcm' # "capturing"
      \/ ring' = <<>> /\ pcm' # "capturing"
      \/ ring' = Append(ring, clock) /\ pcm = "capturing"
  BY DEF Elapse
<1> QED
  BY <1>2, <1>3, <1>4, <1>5

\* Every step keeps what is known of the samples captured.
LEMMA RingStep ==
  ASSUME IInv, Next
  PROVE  RingInv'
<1>0. TypeOK /\ TypeOK' /\ RingInv /\ DeviceInv /\ TimelineInv
  BY TypeStep DEF IInv
<1>k. ASSUME UNCHANGED <<pending, partial, ring, sent, clock, spliced>>,
             pcm' = "capturing" => pcm = "capturing"
      PROVE  RingInv'
  <2>1. Stream' = Stream /\ ring' = ring /\ Joined(sent'.samples)
    BY <1>0, <1>k DEF Stream, RingInv
  <2> QED
    BY <1>0, <1>k, <2>1, RingMoved
<1>d. ASSUME pending' = NoFrame, partial' = <<>>, ring' \in {ring, <<>>},
             UNCHANGED <<sent, clock, spliced>>,
             pcm' = "capturing" => pcm = "capturing" \/ ring' = <<>>
      PROVE  RingInv'
  <2>1. Stream' = ring' /\ Joined(sent'.samples)
    BY <1>0, <1>d, StreamDiscarded DEF RingInv
  <2> QED
    BY <1>0, <1>d, <2>1, RingMoved
<1> USE DEF nodeVars, tickVars, deviceVars, sessionVars
<1>1. CASE Elapse
  BY <1>0, <1>1, RingElapses
<1>2. CASE Suspend
  BY <1>2, <1>k DEF Suspend
<1>3. CASE Opening
  <2>1. ASSUME NEW ok \in BOOLEAN, NEW also \in BOOLEAN, Prepare(ok, also) PROVE RingInv'
    <3>1. sys = "Created" => ring = <<>>
      BY <1>0 DEF DeviceInv, DeviceAccounted
    <3>2. /\ UNCHANGED <<pending, partial, sent, clock, spliced>> /\ pcm' \in {pcm, "prepared", "closed"}
          /\ \/ ring' = ring
             \/ sys = "Created" /\ ring' = <<>>
      BY <2>1 DEF Prepare, Closes
    <3> QED
      BY <1>k, <3>1, <3>2
  <2>2. ASSUME NEW ok \in BOOLEAN, NEW also \in BOOLEAN, NEW observed \in BOOLEAN,
               Start(ok, also, observed)
        PROVE  RingInv'
    <3>1. ring = <<>>
      BY <1>0, <2>2 DEF Start, DeviceInv, DeviceAccounted
    <3>2. /\ pending' = NoFrame /\ partial' = <<>> /\ sent' = NoFrame /\ spliced' = {}
          /\ ring' \in {ring, <<>>}
      BY <2>2 DEF Start, Captures, Discards
    <3>3. Stream' = <<>>
      BY <1>0, <3>1, <3>2, StreamDiscarded
    <3>4. sent'.samples = <<>>
      BY <3>2 DEF NoFrame
    <3>5. Joined(sent.samples)'
      BY <3>4 DEF Joined
    <3> QED
      BY <1>0, <3>1, <3>2, <3>3, <3>5, RingEmpty
  <2> QED
    BY <1>3, <2>1, <2>2 DEF Opening
<1>4. CASE Closing
  <2>1. /\ UNCHANGED <<sent, clock, spliced>> /\ pcm' \in {pcm, "closed"} /\ ring' \in {ring, <<>>}
        /\ \/ UNCHANGED <<pending, partial, ring>>
           \/ pending' = NoFrame /\ partial' = <<>>
    BY <1>4 DEF Closing, Stop, Destroy, Reset, StopsSystem, Closes, Discards
  <2> QED
    BY <1>k, <1>d, <2>1
<1>5. CASE Interrupting
  <2>1. /\ UNCHANGED <<sent, clock, spliced>>
        /\ \/ UNCHANGED <<pending, partial, ring, pcm>>
           \/ /\ pending' = NoFrame /\ partial' = <<>>
              /\ \/ ring' = <<>>
                 \/ UNCHANGED <<pcm, ring>>
    BY <1>5 DEF Interrupting, AnchorInterrupted, ReadInterrupted, Interrupted, EndsTimeline, Captures,
                PartialAfterGap
  <2> QED
    BY <1>k, <1>d, <2>1
<1>6. CASE Reading
  <2>1. ASSUME NEW ok \in BOOLEAN, TickReads(ok) PROVE RingInv'
    BY <1>k, <2>1 DEF TickReads
  <2>2. ASSUME NEW ok \in BOOLEAN, NEW also \in BOOLEAN, ReadNothing(ok, also) PROVE RingInv'
    BY <1>k, <2>2 DEF ReadNothing
  <2>3. ASSUME NEW ok \in BOOLEAN, NEW also \in BOOLEAN, NEW n \in 1..SamplesPerFrame,
               Read(n, ok, also)
        PROVE  RingInv'
    <3>1. /\ UNCHANGED <<sent, spliced, pcm, clock>> /\ ring' = SubSeq(ring, n + 1, Len(ring))
          /\ n \in Nat /\ n <= Len(ring)
      BY <1>0, <2>3, ReadTells
    <3>2. Stream' = Stream
      BY <1>0, <2>3, StreamRead
    <3>3. /\ ring \in Seq(Int) /\ Len(ring) \in Nat /\ clock \in Int
      BY <1>0, StreamTold
    <3>4. /\ Len(ring') = Len(ring) - n /\ \A i \in 1..(Len(ring) - n) : ring'[i] = ring[n + i]
      BY <3>1, <3>3, Parting
    <3>5. Origin' = Origin + n /\ Origin \in Int
      BY <3>1, <3>3, <3>4 DEF Origin
    <3>6. \A i \in 1..Len(ring') :
             /\ ring'[i] <= Origin' + i - 1
             /\ pcm' = "capturing" /\ ~Kept(ring[i])' => ring'[i] = Origin' + i - 1
      <4> SUFFICES ASSUME NEW i \in 1..Len(ring')
                   PROVE  /\ ring'[i] <= Origin' + i - 1
                          /\ pcm' = "capturing" /\ ~Kept(ring[i])' => ring'[i] = Origin' + i - 1
        OBVIOUS
      <4>1. n + i \in 1..Len(ring) /\ i \in 1..(Len(ring) - n) /\ Origin + (n + i) - 1 = Origin' + i - 1
        BY <3>1, <3>3, <3>4, <3>5
      <4>2. ring'[i] = ring[n + i]
        BY <3>4, <4>1
      <4>3. Kept(ring[i])' = Kept(ring[n + i])
        BY <3>1, <4>2, Zenon DEF Kept
      <4>4. /\ ring[n + i] <= Origin + (n + i) - 1
            /\ pcm = "capturing" /\ ~Kept(ring[n + i]) => ring[n + i] = Origin + (n + i) - 1
        BY <1>0, <4>1, Zenon DEF RingInv
      <4> QED
        BY <3>1, <4>1, <4>2, <4>3, <4>4, Zenon
    <3>7. Joined(sent.samples)' /\ Joined(Stream)' /\ (pcm' = "capturing" => Joined(Append(Stream, clock))')
      BY <1>0, <3>1, <3>2 DEF RingInv, Joined
    <3> QED
      BY <1>0, <3>1, <3>2, <3>6, <3>7, Zenon DEF RingInv
  <2> QED
    BY <1>6, <2>1, <2>2, <2>3 DEF Reading
<1>7. CASE Answering
  <2>1. ASSUME NEW answer \in Answers, NEW observed \in BOOLEAN, SendPending(answer, observed)
        PROVE  RingInv'
    <3>1. /\ UNCHANGED <<partial, pcm, clock, ring, spliced>>
          /\ \/ UNCHANGED <<pending, sent>>
             \/ pending # NoFrame /\ pending' = NoFrame /\ sent' = pending
      BY <1>0, <2>1 DEF SendPending, Answers, TimelineInv
    <3>2. CASE pending # NoFrame /\ pending' = NoFrame /\ sent' = pending
      <4>1. partial' = <<>>
        BY <1>0, <3>1, <3>2 DEF TimelineInv
      <4>2. Stream' = ring /\ Joined(sent'.samples)
        BY <1>0, <3>1, <3>2, <4>1, StreamDiscarded, StreamJoined
      <4> QED
        BY <1>0, <3>1, <4>2, RingMoved
    <3> QED
      BY <1>k, <3>1, <3>2
  <2>2. ASSUME NEW answer \in Answers, NEW observed \in BOOLEAN, NEW fallback \in BOOLEAN,
               CaptureAnchor(fallback, answer, observed)
        PROVE  RingInv'
    BY <1>k, <2>2 DEF CaptureAnchor
  <2> QED
    BY <1>7, <2>1, <2>2 DEF Answering
<1>8. CASE Resuming
  <2>1. /\ UNCHANGED <<pending, partial, sent, clock>> /\ pending = NoFrame /\ suspended
        /\ \/ UNCHANGED <<ring, spliced, pcm>>
           \/ ring' = <<>> /\ UNCHANGED spliced
           \/ ring' = ring /\ spliced' = IF ring = <<>> THEN spliced ELSE spliced \cup {clock}
    BY <1>8 DEF Resuming, Resume, Resumes, Captures, Answers
  <2>2. partial = <<>>
    BY <1>0, <2>1 DEF TimelineInv
  <2>3. CASE ring' = ring /\ spliced' = IF ring = <<>> THEN spliced ELSE spliced \cup {clock}
    <3>1. Stream = ring
      BY <1>0, <2>1, <2>2, StreamOfRing
    <3> QED
      BY <1>0, <2>1, <2>3, <3>1, RingResumed
  <2> QED
    BY <1>k, <1>d, <2>1, <2>2, <2>3
<1> QED
  BY <1>1, <1>2, <1>3, <1>4, <1>5, <1>6, <1>7, <1>8, NextSteps

------------------------------------------------------------------------------
(***************************************************************************)
(* Timestamps.                                                             *)
(***************************************************************************)

\* Frames that are there stay dated: a splice only frees samples.
LEMMA ExactKept ==
  ASSUME TimelineExact, pending' \in {pending, NoFrame}, sent' \in {sent, pending, NoFrame},
         sent' # NoFrame \/ pending' # NoFrame => spliced \subseteq spliced'
  PROVE  TimelineExact'
<1> SUFFICES ASSUME NEW f \in {pending', sent'} \ {NoFrame}, NEW i \in 1..SamplesPerFrame
             PROVE  /\ f.samples[i] - Date(f, i) <= Lag(f.fallback)
                    /\ ~Kept(f.samples[i])' => f.samples[i] >= Date(f, i)
  BY DEF TimelineExact, Date, Lag
<1>1. f \in {pending, sent} \ {NoFrame} /\ spliced \subseteq spliced'
  BY Zenon
<1>2. Kept(f.samples[i]) => Kept(f.samples[i])'
  BY <1>1, Zenon DEF Kept
<1> QED
  BY <1>1, <1>2, Zenon DEF TimelineExact

\* A step that leaves the timeline alone keeps what is known of it.
LEMMA TimelineKept ==
  ASSUME IInv, UNCHANGED <<partial, pending, emitted, anchor, sent, spliced>>,
         clock' \in Int, clock <= clock',
         pcm' = "capturing" => pcm = "capturing" /\ Origin' = Origin,
         suspended' => suspended /\ discontinuity' = discontinuity,
         \/ pc' = "idle"
         \/ UNCHANGED <<pc, now, candidate>>
         \/ pc' = "read" /\ pending = NoFrame /\ anchor.set
         \/ pc' = "anchor" /\ pending = NoFrame /\ ~anchor.set /\ now' = clock
         \/ /\ pc' = "read" /\ pending = NoFrame /\ candidate'.set
            /\ pcm = "capturing" => Origin - candidate'.pts \in 0..Lag(candidate'.fallback)
  PROVE  TimelineInv'
<1>0. TimelineInv /\ TypeOK /\ clock \in Int /\ Origin \in Int /\ Len(ring) \in Nat
  BY StreamTold DEF IInv
<1>1. TimelineExact'
  BY <1>0, ExactKept DEF TimelineInv
<1>2. Held' = Held
  BY DEF Held
<1>3. \A t, d, f : Dated(t, d, f)' = Dated(t, d, f)
  BY Zenon DEF Dated, Kept, Lag
<1>4. IF anchor'.set
      THEN pcm' = "capturing" =>
             /\ Origin' - Held' - (anchor'.pts + emitted') \in 0..Lag(anchor'.fallback)
             /\ \A i \in 1..Len(partial') :
                  Dated(partial[i], anchor.pts + emitted + i - 1, anchor.fallback)'
      ELSE partial' = <<>> /\ pending' = NoFrame /\ emitted' = 0
  <2>1. CASE anchor.set
    <3>1. ASSUME pcm' = "capturing"
          PROVE  /\ Origin - Held - (anchor.pts + emitted) \in 0..Lag(anchor.fallback)
                 /\ \A i \in 1..Len(partial) :
                      Dated(partial[i], anchor.pts + emitted + i - 1, anchor.fallback)
      BY <1>0, <2>1, <3>1, Zenon DEF TimelineInv
    <3>2. \A i : Dated(partial[i], anchor.pts + emitted + i - 1, anchor.fallback)'
                   = Dated(partial[i], anchor.pts + emitted + i - 1, anchor.fallback)
      BY Zenon DEF Dated, Kept
    <3> QED
      BY <1>2, <2>1, <3>1, <3>2, Zenon
  <2>2. CASE ~anchor.set
    BY <1>0, <2>2, Zenon DEF TimelineInv
  <2> QED
    BY <2>1, <2>2
<1>5. ASSUME NEW x \in Int, x \in Origin..clock, pcm' = "capturing" PROVE x \in Origin'..clock'
  BY <1>0, <1>5
<1>6. clock \in Origin..clock
  BY <1>0 DEF Origin
<1>7. /\ pc' \in {"anchor", "read"} => pending' = NoFrame
      /\ pc' = "anchor" => ~anchor'.set
      /\ pc' = "send" => pending' # NoFrame
  BY <1>0, Zenon DEF TimelineInv
<1>8. pc' = "anchor" /\ pcm' = "capturing" => now' \in Origin'..clock'
  <2>1. now \in Int
    BY <1>0, SizesTold DEF TypeOK
  <2> QED
    BY <1>0, <1>5, <1>6, <2>1, Zenon DEF TimelineInv
<1>9. pc' = "read" /\ ~anchor'.set =>
        candidate'.set /\ (pcm' = "capturing" => Origin' - candidate'.pts \in 0..Lag(candidate'.fallback))
  BY <1>0, Zenon DEF TimelineInv
<1>10. suspended' => ~anchor'.set /\ discontinuity'
  BY <1>0, Zenon DEF TimelineInv
<1>11. pending' # NoFrame =>
         partial' = <<>> /\ pending'.pts = anchor'.pts + emitted' /\ pending'.fallback = anchor'.fallback
  BY <1>0, Zenon DEF TimelineInv
<1> QED
  BY <1>1, <1>4, <1>7, <1>8, <1>9, <1>10, <1>11, Zenon DEF TimelineInv

\* A node that has no timeline has nothing wrong with it.
LEMMA TimelineForgotten ==
  ASSUME IInv, partial' = <<>>, pending' = NoFrame, emitted' = 0, ~anchor'.set, pc' = "idle",
         sent' \in {sent, NoFrame}, sent' # NoFrame => spliced \subseteq spliced',
         suspended' => discontinuity'
  PROVE  TimelineInv'
<1>1. TimelineExact'
  BY ExactKept DEF IInv, TimelineInv
<1> QED
  BY <1>1, Zenon DEF TimelineInv

\* A read moves the date of the ring's first sample on by what it takes, and dates
\* what it takes.
LEMMA TimelineRead ==
  ASSUME IInv, NEW n \in 1..SamplesPerFrame,
         NEW created \in BOOLEAN, NEW observed \in BOOLEAN, Read(n, created, observed)
  PROVE  TimelineInv'
<1> DEFINE t == SubSeq(ring, 1, n)
           block == partial \o t
           start == anchor'.pts + emitted
<1>0. /\ TypeOK /\ DeviceInv /\ TimelineInv /\ RingInv /\ clock \in Int /\ Origin \in Int
      /\ ring \in Seq(Int) /\ partial \in Seq(Int) /\ Len(ring) \in Nat /\ Len(partial) \in Nat
      /\ emitted \in Nat /\ SamplesPerFrame \in Nat /\ BufferFrames \in Nat
  BY StreamTold, SizesTold DEF IInv, TypeOK
<1>1. /\ pc = "read" /\ pcm = "capturing" /\ pending = NoFrame /\ ~suspended
      /\ anchor' = IF anchor.set THEN anchor ELSE candidate
  BY <1>0 DEF Read, TimelineInv, DeviceInv
<1>2. /\ anchor' \in Anchors /\ anchor'.set /\ n \in Nat /\ n <= Len(ring)
      /\ ring' = SubSeq(ring, n + 1, Len(ring))
      /\ UNCHANGED <<sys, suspended, emitted, sent, spliced, pcm, clock>>
      /\ block \in Seq(Int) /\ Len(block) = Len(partial) + n
      /\ \/ /\ partial' = block /\ UNCHANGED <<pending, discontinuity>> /\ pc' = "idle"
         \/ /\ Len(block) = SamplesPerFrame /\ partial' = <<>> /\ pending' \in Frames
            /\ pending'.samples = block /\ pc' \in {"send", "idle"}
            /\ pending'.pts = anchor'.pts + emitted /\ pending'.fallback = anchor'.fallback
  BY <1>0, ReadTells, Zenon
<1>3. /\ Len(ring') = Len(ring) - n /\ Origin' = Origin + n
      /\ t \in Seq(Int) /\ Len(t) = n /\ \A i \in 1..n : t[i] = ring[i]
  <2>1. /\ Len(ring') = Len(ring) - n
        /\ t \in Seq(Int) /\ Len(t) = n /\ \A i \in 1..n : t[i] = ring[i]
    BY <1>0, <1>2, Parting
  <2>2. Origin' = clock' - Len(ring') /\ Origin = clock - Len(ring)
    BY DEF Origin
  <2>3. Origin' = Origin + n
    <3>1. clock' = clock /\ Len(ring') = Len(ring) - n
      BY <1>2, <2>1
    <3>2. n \in Int /\ clock \in Int /\ Len(ring) \in Int
      BY <1>0
    <3> QED
      BY <2>2, <3>1, <3>2, SMT
  <2> QED
    BY <2>1, <2>3, Zenon
<1>4. Held = Len(partial)
  BY <1>0, <1>1 DEF Held
<1>5. Held' = Held + n
  <2>1. CASE pending' = pending /\ partial' = block
    BY <1>0, <1>1, <1>2, <1>4, <2>1 DEF Held
  <2>2. CASE pending' \in Frames /\ partial' = <<>> /\ Len(block) = SamplesPerFrame
    <3>1. pending' # NoFrame /\ Len(partial') = 0
      BY <2>2, FramesTold
    <3> QED
      BY <1>0, <1>2, <1>4, <2>2, <3>1 DEF Held
  <2> QED
    BY <1>2, <2>1, <2>2
<1>6. start \in Int /\ Origin - Len(partial) - start \in 0..Lag(anchor'.fallback)
      /\ Lag(anchor'.fallback) \in Int
  <2>1. start \in Int /\ Lag(anchor'.fallback) \in Int
    BY <1>0, <1>2, AnchorsTold DEF Lag
  <2>2. CASE anchor.set
    <3>1. anchor' = anchor /\ Origin - Held - (anchor.pts + emitted) \in 0..Lag(anchor.fallback)
      BY <1>0, <1>1, <2>2, Zenon DEF TimelineInv
    <3> QED
      BY <1>4, <2>1, <3>1
  <2>3. CASE ~anchor.set
    <3>1. anchor' = candidate /\ partial = <<>> /\ emitted = 0
      BY <1>0, <1>1, <2>3, Zenon DEF TimelineInv
    <3>2. Origin - candidate.pts \in 0..Lag(candidate.fallback)
      BY <1>0, <1>1, <2>3, Zenon DEF TimelineInv
    <3>3. Len(partial) = 0 /\ candidate.pts \in Int
      BY <1>2, <3>1, AnchorsTold
    <3>4. start = candidate.pts /\ Origin - 0 - candidate.pts = Origin - candidate.pts
      BY <1>0, <3>1, <3>3
    <3> QED
      BY <2>1, <3>1, <3>2, <3>3, <3>4
  <2> QED
    BY <2>2, <2>3
<1>7. Origin' - Held' - (anchor'.pts + emitted') \in 0..Lag(anchor'.fallback)
  <2>1. Origin' - Held' - start = Origin - Len(partial) - start
    BY <1>0, <1>2, <1>3, <1>4, <1>5, <1>6
  <2> QED
    BY <1>2, <1>6, <2>1
<1>8. \A i \in 1..Len(block) : Dated(block[i], start + i - 1, anchor'.fallback)
  <2>1. /\ \A i \in 1..Len(partial) : block[i] = partial[i] /\ partial[i] \in Int
        /\ \A i \in 1..n : block[Len(partial) + i] = ring[i] /\ ring[i] \in Int
    BY <1>0, <1>3, Joining
  <2>2. ASSUME NEW i \in 1..Len(partial) PROVE Dated(block[i], start + i - 1, anchor'.fallback)
    <3>1. anchor.set
      <4>1. Len(<<>>) = 0
        OBVIOUS
      <4> QED
        BY <1>0, <4>1 DEF TimelineInv
    <3> QED
      BY <1>0, <1>1, <2>1, <3>1, Zenon DEF TimelineInv
  <2>3. ASSUME NEW k \in 1..n
        PROVE  Dated(block[Len(partial) + k], start + (Len(partial) + k) - 1, anchor'.fallback)
    <3>1. k \in 1..Len(ring) /\ k \in Int
      BY <1>0, <1>2
    <3>2. /\ ring[k] <= Origin + k - 1
          /\ ~Kept(ring[k]) => ring[k] = Origin + k - 1
      BY <1>0, <1>1, <3>1, Zenon DEF RingInv
    <3> DEFINE x == ring[k]
               date == start + (Len(partial) + k) - 1
               lag == Lag(anchor'.fallback)
    <3>3. x \in Int /\ date \in Int /\ lag \in Int
      BY <1>0, <1>2, <1>6, <2>1, <3>1
    <3>4. Origin + k - 1 - date \in 0..lag
      <4>1. Origin + k - 1 - date = Origin - Len(partial) - start
        BY <1>0, <1>6, <3>1
      <4> QED
        BY <1>6, <4>1
    <3> HIDE DEF date, lag, start
    <3>5. x - date <= lag
      BY <1>0, <3>1, <3>2, <3>3, <3>4
    <3>6. ~Kept(x) => x >= date
      <4> SUFFICES ASSUME ~Kept(x) PROVE x >= date
        OBVIOUS
      <4>1. x = Origin + k - 1
        BY <3>2
      <4> QED
        BY <1>0, <3>1, <3>3, <3>4, <4>1
    <3>7. block[Len(partial) + k] = x
      BY <2>1
    <3> QED
      BY <3>5, <3>6, <3>7, Zenon DEF Dated, date, lag
  <2> SUFFICES ASSUME NEW i \in 1..Len(block) PROVE Dated(block[i], start + i - 1, anchor'.fallback)
    OBVIOUS
  <2>4. i \in 1..Len(partial) \/ (i - Len(partial) \in 1..n /\ Len(partial) + (i - Len(partial)) = i)
    BY <1>0, <1>2
  <2>5. CASE i \in 1..Len(partial)
    BY <2>2, <2>5
  <2>6. CASE i - Len(partial) \in 1..n /\ Len(partial) + (i - Len(partial)) = i
    <3> DEFINE k == i - Len(partial)
    <3>1. k \in 1..n /\ Len(partial) + k = i
      BY <2>6
    <3> HIDE DEF k
    <3> QED
      BY <2>3, <3>1, Zenon
  <2> QED
    BY <2>4, <2>5, <2>6
<1>9. \A x, d, f : Dated(x, d, f)' = Dated(x, d, f)
  BY <1>2, Zenon DEF Dated, Kept, Lag
<1> HIDE DEF block, start, t
<1>10. CASE partial' = block /\ UNCHANGED <<pending, discontinuity>> /\ pc' = "idle"
  <2>1. TimelineExact'
    BY <1>0, <1>2, <1>10, ExactKept DEF TimelineInv
  <2>2. \A i \in 1..Len(partial') : Dated(partial[i], anchor.pts + emitted + i - 1, anchor.fallback)'
    <3> SUFFICES ASSUME NEW i \in 1..Len(block)
                 PROVE  Dated(partial[i], anchor.pts + emitted + i - 1, anchor.fallback)'
      BY <1>10
    <3>1. Dated(block[i], start + i - 1, anchor'.fallback)
      BY <1>8
    <3> QED
      BY <1>2, <1>10, <3>1, Zenon DEF Dated, Kept, Lag, start
  <2> QED
    BY <1>1, <1>2, <1>7, <1>10, <2>1, <2>2, Zenon DEF TimelineInv
<1>11. CASE /\ Len(block) = SamplesPerFrame /\ partial' = <<>> /\ pending' \in Frames
            /\ pending'.samples = block /\ pc' \in {"send", "idle"}
            /\ pending'.pts = anchor'.pts + emitted /\ pending'.fallback = anchor'.fallback
  <2>1. pending' # NoFrame
    BY <1>11, FramesTold
  <2>2. TimelineExact'
    <3> SUFFICES ASSUME NEW f \in {pending', sent'} \ {NoFrame}, NEW i \in 1..SamplesPerFrame
                 PROVE  /\ f.samples[i] - Date(f, i) <= Lag(f.fallback)
                        /\ ~Kept(f.samples[i])' => f.samples[i] >= Date(f, i)
      BY DEF TimelineExact, Date, Lag
    <3>1. \A x : Kept(x)' = Kept(x)
      BY <1>2, Zenon DEF Kept
    <3>2. CASE f = sent
      BY <1>0, <1>2, <3>1, <3>2, Zenon DEF TimelineInv, TimelineExact
    <3>3. CASE f = pending'
      <4>1. Dated(block[i], start + i - 1, anchor'.fallback)
        BY <1>8, <1>11
      <4>2. f.samples[i] = block[i] /\ Date(f, i) = start + i - 1 /\ f.fallback = anchor'.fallback
        BY <1>11, <3>3 DEF Date, start
      <4> QED
        BY <3>1, <4>1, <4>2, Zenon DEF Dated
    <3> QED
      BY <1>2, <3>2, <3>3
  <2>3. Len(partial') = 0
    BY <1>11
  <2>4. \A i \in 1..Len(partial') : Dated(partial[i], anchor.pts + emitted + i - 1, anchor.fallback)'
    BY <2>3
  <2>5. pc' # "anchor" /\ pc' # "read"
    BY <1>11
  <2> QED
    BY <1>1, <1>2, <1>7, <1>11, <2>1, <2>2, <2>4, <2>5, Zenon DEF TimelineInv
<1> QED
  BY <1>2, <1>10, <1>11, Zenon

\* Every step keeps the timeline.
LEMMA TimelineStep ==
  ASSUME IInv, Next
  PROVE  TimelineInv'
<1>0. /\ TypeOK /\ DeviceInv /\ TimelineInv /\ clock \in Int /\ clock <= clock
      /\ Origin \in Int /\ ring \in Seq(Int) /\ Len(ring) \in Nat
  BY StreamTold DEF IInv
<1>k. ASSUME UNCHANGED <<partial, pending, emitted, anchor, sent, spliced, discontinuity, clock>>,
             pcm' = "capturing" => pcm = "capturing" /\ ring' = ring, suspended' => suspended,
             pc' = "idle" \/ UNCHANGED <<pc, now, candidate>>
      PROVE  TimelineInv'
  <2>1. /\ clock' \in Int /\ clock <= clock' /\ (pcm' = "capturing" => Origin' = Origin)
        /\ suspended' => suspended /\ discontinuity' = discontinuity
    BY <1>0, <1>k DEF Origin
  <2> QED
    BY <1>k, <2>1, TimelineKept
<1>f. ~NoAnchor.set
  BY AnchorsTold
<1> USE DEF nodeVars, tickVars, deviceVars, sessionVars
<1>1. CASE Elapse
  <2>1. /\ UNCHANGED <<partial, pending, emitted, anchor, sent, spliced, pc, now, candidate>>
        /\ suspended' = suspended /\ discontinuity' = discontinuity /\ clock' = clock + 1
        /\ pcm' = "capturing" => pcm = "capturing" /\ ring' = Append(ring, clock)
    BY <1>1, Zenon DEF Elapse
  <2>2. clock' \in Int /\ clock <= clock'
    BY <1>0, <2>1
  <2>3. pcm' = "capturing" => Origin' = Origin
    <3>1. Len(Append(ring, clock)) = Len(ring) + 1
      BY <1>0, Appending
    <3> QED
      BY <1>0, <2>1, <3>1 DEF Origin
  <2> QED
    BY <2>1, <2>2, <2>3, TimelineKept
<1>2. CASE Suspend
  BY <1>2, <1>k, Zenon DEF Suspend
<1>3. CASE Opening
  <2>1. ASSUME NEW ok \in BOOLEAN, NEW also \in BOOLEAN, Prepare(ok, also) PROVE TimelineInv'
    <3>1. /\ UNCHANGED <<partial, pending, emitted, anchor, sent, spliced, discontinuity, clock>>
          /\ pcm' = "capturing" => pcm = "capturing" /\ ring' = ring
          /\ suspended' => suspended
          /\ UNCHANGED <<pc, now, candidate>>
      BY <2>1, Zenon DEF Prepare, Closes
    <3> QED
      BY <1>k, <3>1
  <2>2. ASSUME NEW ok \in BOOLEAN, NEW also \in BOOLEAN, NEW observed \in BOOLEAN,
               Start(ok, also, observed)
        PROVE  TimelineInv'
    <3>1. ~suspended
      BY <1>0, <2>2, Zenon DEF Start, DeviceInv, DeviceAccounted
    <3>2. /\ partial' = <<>> /\ pending' = NoFrame /\ emitted' = 0 /\ anchor' = NoAnchor
          /\ sent' = NoFrame /\ pc' = "idle" /\ suspended' = suspended
      BY <2>2, Zenon DEF Start, Discards
    <3> QED
      BY <1>f, <3>1, <3>2, TimelineForgotten, Zenon
  <2> QED
    BY <1>3, <2>1, <2>2 DEF Opening
<1>4. CASE Closing
  <2>1. /\ UNCHANGED <<sent, clock, spliced, pc, now, candidate>>
        /\ \/ UNCHANGED <<partial, pending, emitted, anchor, discontinuity, pcm, ring, suspended>>
           \/ /\ partial' = <<>> /\ pending' = NoFrame /\ emitted' = 0 /\ anchor' = NoAnchor
              /\ pc = "idle"
              /\ \/ suspended' = FALSE
                 \/ sys = "Created" /\ suspended' = suspended
    BY <1>4, Zenon DEF Closing, Stop, Destroy, Reset, StopsSystem, Closes, Discards
  <2>2. sys = "Created" => ~suspended
    BY <1>0, Zenon DEF DeviceInv, DeviceAccounted
  <2>3. CASE UNCHANGED <<partial, pending, emitted, anchor, discontinuity, pcm, ring, suspended>>
    BY <1>k, <2>1, <2>3, Zenon
  <2>4. CASE /\ partial' = <<>> /\ pending' = NoFrame /\ emitted' = 0 /\ anchor' = NoAnchor
             /\ pc' = "idle" /\ ~suspended'
    <3>1. sent' \in {sent, NoFrame} /\ (sent' # NoFrame => spliced \subseteq spliced')
      BY <2>1
    <3> QED
      BY <1>f, <2>4, <3>1, TimelineForgotten, Zenon
  <2>5. pc = "idle" => pc' = "idle"
    BY <2>1
  <2>6. (suspended' = FALSE \/ (sys = "Created" /\ suspended' = suspended)) => ~suspended'
    BY <2>2, Zenon
  <2>7. \/ UNCHANGED <<partial, pending, emitted, anchor, discontinuity, pcm, ring, suspended>>
        \/ /\ partial' = <<>> /\ pending' = NoFrame /\ emitted' = 0 /\ anchor' = NoAnchor
           /\ pc = "idle" /\ (suspended' = FALSE \/ (sys = "Created" /\ suspended' = suspended))
    BY <2>1, Zenon
  <2> QED
    BY <2>3, <2>4, <2>5, <2>6, <2>7, Zenon
<1>5. CASE Interrupting
  <2>1. /\ UNCHANGED <<sent, clock, spliced>> /\ pc' = "idle"
        /\ \/ UNCHANGED <<partial, pending, emitted, anchor, discontinuity, pcm, ring, suspended>>
           \/ /\ partial' = <<>> /\ pending' = NoFrame /\ emitted' = 0 /\ anchor' = NoAnchor
              /\ discontinuity' = TRUE
    BY <1>5 DEF Interrupting, AnchorInterrupted, ReadInterrupted, Interrupted, EndsTimeline, Captures,
                Returns, PartialAfterGap, MarkAfterGap
  <2>2. CASE UNCHANGED <<partial, pending, emitted, anchor, discontinuity, pcm, ring, suspended>>
    BY <1>k, <2>1, <2>2, Zenon
  <2>3. CASE /\ partial' = <<>> /\ pending' = NoFrame /\ emitted' = 0 /\ anchor' = NoAnchor
             /\ discontinuity' = TRUE
    <3>1. sent' \in {sent, NoFrame} /\ (sent' # NoFrame => spliced \subseteq spliced')
      BY <2>1
    <3> QED
      BY <1>f, <2>1, <2>3, <3>1, TimelineForgotten, Zenon
  <2> QED
    BY <2>1, <2>2, <2>3, Zenon
<1>6. CASE Reading
  <2>1. ASSUME NEW ok \in BOOLEAN, TickReads(ok) PROVE TimelineInv'
    <3>1. /\ UNCHANGED <<partial, pending, emitted, anchor, sent, spliced, discontinuity, clock, pcm, ring>>
          /\ pending = NoFrame /\ suspended' = suspended
          /\ \/ pc' = "idle"
             \/ pc' = "read" /\ anchor.set
             \/ pc' = "anchor" /\ ~anchor.set /\ now' = clock
      BY <2>1, Zenon DEF TickReads, TickStarts, Goes, Returns
    <3>2. Origin' = Origin
      BY <3>1 DEF Origin
    <3> QED
      BY <1>0, <3>1, <3>2, TimelineKept
  <2>2. ASSUME NEW ok \in BOOLEAN, NEW also \in BOOLEAN, ReadNothing(ok, also) PROVE TimelineInv'
    BY <1>k, <2>2, Zenon DEF ReadNothing, Returns
  <2> QED
    BY <1>6, <2>1, <2>2, TimelineRead DEF Reading
<1>7. CASE Answering
  <2>1. ASSUME NEW answer \in Answers, NEW observed \in BOOLEAN, SendPending(answer, observed)
        PROVE  TimelineInv'
    <3>1. /\ UNCHANGED <<partial, anchor, pcm, clock, ring, spliced, suspended, discontinuity>>
          /\ pc' = "idle" /\ pending # NoFrame
          /\ \/ UNCHANGED <<pending, sent, emitted>>
             \/ pending' = NoFrame /\ sent' = pending /\ emitted' = emitted + SamplesPerFrame
      BY <1>0, <2>1 DEF SendPending, Answers, TimelineInv, Returns
    <3>2. CASE UNCHANGED <<pending, sent, emitted>>
      BY <1>k, <3>1, <3>2, Zenon
    <3>3. CASE pending' = NoFrame /\ sent' = pending /\ emitted' = emitted + SamplesPerFrame
      <4>1. /\ partial = <<>> /\ anchor.set
            /\ pcm = "capturing" =>
                 Origin - Held - (anchor.pts + emitted) \in 0..Lag(anchor.fallback)
        BY <1>0, <3>1, Zenon DEF TimelineInv
      <4>2. TimelineExact'
        BY <1>0, <3>1, <3>3, ExactKept DEF TimelineInv
      <4>3. Held = SamplesPerFrame /\ Held' = 0 /\ Len(partial') = 0
        <5>1. Len(partial) = 0 /\ Len(partial') = 0
          BY <3>1, <4>1
        <5> QED
          BY <3>1, <3>3, <5>1, SizesTold DEF Held
      <4>4. pcm' = "capturing" =>
              Origin' - Held' - (anchor'.pts + emitted') \in 0..Lag(anchor'.fallback)
        <5>1. anchor.pts \in Int /\ emitted \in Int /\ SamplesPerFrame \in Int
          BY <1>0, AnchorsTold, SizesTold DEF TypeOK
        <5>2. /\ Origin' = Origin /\ anchor' = anchor
              /\ Origin - 0 - (anchor.pts + (emitted + SamplesPerFrame))
                   = Origin - SamplesPerFrame - (anchor.pts + emitted)
          BY <1>0, <3>1, <5>1 DEF Origin
        <5> QED
          BY <3>1, <3>3, <4>1, <4>3, <5>2, Zenon
      <4>5. \A i \in 1..Len(partial') :
              Dated(partial[i], anchor.pts + emitted + i - 1, anchor.fallback)'
        BY <4>3
      <4> QED
        BY <1>0, <3>1, <3>3, <4>1, <4>2, <4>4, <4>5, Zenon DEF TimelineInv
    <3> QED
      BY <3>1, <3>2, <3>3
  <2>2. ASSUME NEW answer \in Answers, NEW observed \in BOOLEAN, NEW fallback \in BOOLEAN,
               CaptureAnchor(fallback, answer, observed)
        PROVE  TimelineInv'
    <3>1. /\ UNCHANGED <<partial, pending, emitted, anchor, sent, spliced, discontinuity, clock, pcm, ring>>
          /\ suspended' = suspended /\ pending = NoFrame /\ pcm = "capturing"
          /\ now \in Origin..clock /\ Available <= BufferFrames
      BY <1>0, <2>2, Zenon DEF CaptureAnchor, TimelineInv, DeviceInv
    <3>2. CASE answer # "ok"
      <4>1. pc' = "idle"
        BY <2>2, <3>2, Zenon DEF CaptureAnchor, Answers, Returns
      <4> QED
        BY <1>k, <3>1, <4>1, Zenon
    <3>3. CASE answer = "ok"
      <4> DEFINE time == IF fallback THEN now ELSE clock
      <4>1. pc' = "read" /\ candidate' = [pts |-> FirstUnread(time), fallback |-> fallback, set |-> TRUE]
        BY <2>2, <3>3 DEF CaptureAnchor, Goes
      <4>2. now \in Int /\ time \in Origin..clock /\ time \in Int /\ BufferFrames \in Int
        BY <1>0, <3>1, SizesTold DEF Origin
      <4>3. FirstUnread(time) \in Int /\ Origin - FirstUnread(time) = clock - time
        BY <1>0, <4>2 DEF FirstUnread, Available, Origin
      <4>4. clock - time \in 0..Lag(fallback)
        <5>1. CASE fallback
          BY <1>0, <3>1, <4>2, <5>1 DEF Lag, Available, Origin
        <5>2. CASE ~fallback
          BY <1>0, <5>2 DEF Lag
        <5> QED
          BY <5>1, <5>2
      <4>5. candidate'.set /\ candidate'.pts = FirstUnread(time) /\ candidate'.fallback = fallback
        BY <4>1, <4>3, AnchorsTold
      <4> HIDE DEF time
      <4>6. Origin - candidate'.pts \in 0..Lag(candidate'.fallback)
        BY <4>3, <4>4, <4>5
      <4>7. Origin' = Origin
        BY <3>1 DEF Origin
      <4> QED
        BY <1>0, <3>1, <4>1, <4>5, <4>6, <4>7, TimelineKept
    <3> QED
      BY <3>2, <3>3
  <2> QED
    BY <1>7, <2>1, <2>2 DEF Answering
<1>8. CASE Resuming
  <2>1. /\ UNCHANGED <<partial, pending, emitted, anchor, sent, discontinuity>> /\ pc' = "idle"
        /\ pending = NoFrame /\ suspended /\ spliced \subseteq spliced'
    <3>1. spliced' \in {spliced, spliced \cup {clock}}
      BY <1>8 DEF Resuming, Resume, Resumes, Answers
    <3> QED
      BY <1>8, <3>1, Zenon DEF Resuming, Resume, Returns, Answers
  <2>2. ~anchor.set /\ discontinuity /\ partial = <<>> /\ emitted = 0
    BY <1>0, <2>1, Zenon DEF TimelineInv
  <2> QED
    BY <2>1, <2>2, TimelineForgotten, Zenon
<1> QED
  BY <1>1, <1>2, <1>3, <1>4, <1>5, <1>6, <1>7, <1>8, NextSteps

------------------------------------------------------------------------------
(***************************************************************************)
(* Gaps.                                                                   *)
(***************************************************************************)

\* The upcoming sample does not change for what is captured behind the stream.
LEMMA UpcomingSame ==
  ASSUME TypeOK, TypeOK', Stream' = Stream, clock' = clock
  PROVE  Upcoming' = Upcoming
BY DEF Upcoming

\* When the node forgets what it holds, the upcoming sample is a later one.
LEMMA UpcomingLater ==
  ASSUME TypeOK, TypeOK', RingInv, Stream' \in {ring, <<>>}, clock' = clock
  PROVE  Upcoming \in Int /\ Upcoming' \in Int /\ Upcoming <= Upcoming'
<1> DEFINE s == pending.samples \o partial
<1>0. /\ s \in Seq(Int) /\ ring \in Seq(Int) /\ clock \in Int /\ Stream = s \o ring
      /\ Upcoming \in Int /\ Len(s) \in Nat /\ Len(ring) \in Nat
  BY StreamTold, UpcomingTold, LenProperties DEF Stream
<1>1. /\ Upcoming' \in Int
      /\ Stream' = <<>> => Upcoming' = clock
      /\ Stream' # <<>> => Upcoming' = Stream'[1] /\ 1 \in 1..Len(Stream')
  <2>1. <<>> \in Seq(Int)
    OBVIOUS
  <2>2. Stream' \in Seq(Int) /\ clock' = clock
    BY <1>0, <2>1, Zenon
  <2> QED
    BY <1>0, <2>2, FirstOf DEF Upcoming
<1>2. Upcoming <= clock
  <2>1. CASE Stream = <<>>
    BY <1>0, <2>1, UpcomingTold
  <2>2. CASE Stream # <<>>
    BY <1>0, <2>2, UpcomingTold DEF RingInv
  <2> QED
    BY <2>1, <2>2
<1>3. CASE Stream' = <<>>
  BY <1>0, <1>1, <1>2, <1>3
<1>4. CASE Stream' # <<>>
  <2>1. Stream' = ring /\ Upcoming' = ring[1] /\ 1 \in 1..Len(ring)
    BY <1>1, <1>4, Zenon
  <2> HIDE DEF s
  <2>2. /\ Len(Stream) = Len(s) + Len(ring)
        /\ \A i \in 1..Len(ring) : Stream[Len(s) + i] = ring[i]
    BY <1>0, Joining
  <2>3. Stream[Len(s) + 1] = ring[1] /\ Len(s) + 1 \in 1..Len(Stream) /\ 1 \in 1..Len(Stream)
    BY <1>0, <2>1, <2>2
  <2>4. Stream # <<>> /\ Upcoming = Stream[1]
    <3>1. Stream # <<>>
      <4>1. Len(<<>>) = 0
        OBVIOUS
      <4> QED
        BY <1>0, <2>2, <2>3, <4>1
    <3> QED
      BY <3>1, UpcomingTold
  <2>5. 1 < Len(s) + 1 => Stream[1] < Stream[Len(s) + 1]
    BY <2>3 DEF RingInv, Joined
  <2>6. CASE Len(s) = 0
    BY <1>0, <1>1, <2>1, <2>3, <2>4, <2>6
  <2>7. CASE Len(s) # 0
    <3>1. Upcoming < Upcoming'
      BY <1>0, <2>1, <2>3, <2>4, <2>5, <2>7
    <3> QED
      BY <1>0, <1>1, <3>1
  <2> QED
    BY <2>6, <2>7
<1> QED
  BY <1>0, <1>1, <1>3, <1>4

Marked == IF pending = NoFrame THEN discontinuity ELSE pending.discontinuity

\* A step that sends nothing, with an upcoming sample no earlier than before.
LEMMA GapsKept ==
  ASSUME IInv, sent' = sent, node' = "Running" => node = "Running",
         sent # NoFrame => spliced \subseteq spliced',
         Upcoming' \in Int, Upcoming <= Upcoming',
         \/ pcm' # "capturing" /\ Stream' = <<>>
         \/ discontinuity' /\ pending' = NoFrame
         \/ /\ Upcoming' = Upcoming /\ Marked' = Marked
            /\ pcm' = "capturing" \/ Stream' # <<>> => pcm = "capturing" \/ Stream # <<>>
  PROVE  GapsInv'
<1> DEFINE last == sent.samples[SamplesPerFrame]
<1> SUFFICES ASSUME node' = "Running", sent' # NoFrame
             PROVE  /\ last < Upcoming'
                    /\ last + 1 < Upcoming' /\ (pcm' = "capturing" \/ Stream' # <<>>) =>
                         Upcoming' \in spliced' \/ Marked'
  BY Zenon DEF GapsInv, Marked
<1>1. /\ node = "Running" /\ sent # NoFrame /\ GapsInv /\ TypeOK
  BY Zenon DEF IInv
<1>2. /\ last < Upcoming
      /\ last + 1 < Upcoming /\ (pcm = "capturing" \/ Stream # <<>>) => Upcoming \in spliced \/ Marked
  BY <1>1, Zenon DEF GapsInv, Marked
<1>3. last \in Int /\ Upcoming \in Int
  <2>1. sent \in Frames /\ SamplesPerFrame \in 1..SamplesPerFrame
    BY <1>1, SizesTold DEF TypeOK
  <2> QED
    BY <1>1, <2>1, FramesTold, UpcomingTold
<1> HIDE DEF last
<1>4. last < Upcoming'
  BY <1>2, <1>3
<1>5. discontinuity' /\ pending' = NoFrame => Marked'
  BY Zenon DEF Marked
<1> QED
  BY <1>1, <1>2, <1>4, <1>5, Zenon

\* Sending: what follows is the next of the stream.
LEMMA GapsSent ==
  ASSUME IInv, TypeOK', pending # NoFrame, sent' = pending, pending' = NoFrame,
         UNCHANGED <<partial, pcm, clock, ring, spliced>>
  PROVE  GapsInv'
<1> DEFINE n == SamplesPerFrame
           s == pending.samples
           a == Append(ring, clock)
<1>0. /\ TypeOK /\ TimelineInv /\ RingInv /\ partial = <<>> /\ partial' = <<>>
  BY DEF IInv, TimelineInv
<1>1. /\ s \in Seq(Int) /\ Len(s) = n /\ ring \in Seq(Int) /\ clock \in Int /\ n \in Nat /\ n >= 1
  BY <1>0, StreamTold, SamplesTold, SizesTold DEF TypeOK
<1>2. Stream = s \o ring /\ Stream' = ring
  <2>1. s \o <<>> = s
    BY <1>1, ConcatEmptySeq
  <2> QED
    BY <1>0, <2>1, StreamDiscarded DEF Stream
<1>3. Upcoming' = a[1]
  BY <1>2 DEF Upcoming
<1> HIDE DEF s
<1>4. sent'.samples[n] = s[n]
  BY DEF s
<1>5. /\ Len(s \o ring) = n + Len(ring) /\ Len(ring) \in Nat
      /\ \A i \in 1..n : (s \o ring)[i] = s[i] /\ s[i] \in Int
      /\ \A i \in 1..Len(ring) : (s \o ring)[n + i] = ring[i] /\ ring[i] \in Int
  BY <1>1, Joining
<1>6. n \in 1..n /\ n \in 1..Len(s \o ring)
  BY <1>1, <1>5
<1>7. CASE ring = <<>>
  <2>1. Len(ring) = 0
    BY <1>7
  <2>2. a[0 + 1] = clock
    BY <1>1, <2>1, Appending
  <2>3. Upcoming' = clock
    BY <1>3, <2>2
  <2>4. s[n] < clock
    BY <1>0, <1>2, <1>5, <1>6 DEF RingInv
  <2>5. ASSUME pcm = "capturing", s[n] + 1 < clock PROVE clock \in spliced
    <3> DEFINE w == Append(s \o ring, clock)
    <3>1. /\ Len(w) = n + 1 /\ w[n + 1] = clock /\ \A i \in 1..n : w[i] = (s \o ring)[i]
      <4>1. s \o ring \in Seq(Int) /\ Len(s \o ring) = n
        BY <1>1, <1>5, <2>1, Joining
      <4> QED
        BY <1>1, <4>1, Appending
    <3>2. \A i \in 1..(Len(w) - 1) : w[i] + 1 < w[i + 1] => w[i + 1] \in spliced
      BY <1>0, <1>2, <2>5 DEF RingInv, Joined
    <3> HIDE DEF w
    <3>3. n \in 1..(Len(w) - 1) /\ w[n] = s[n]
      BY <1>1, <1>5, <1>6, <3>1
    <3> QED
      BY <2>5, <3>1, <3>2, <3>3
  <2> QED
    BY <1>2, <1>4, <1>7, <2>3, <2>4, <2>5, Zenon DEF GapsInv
<1>8. CASE ring # <<>>
  <2>1. Len(ring) \in Nat \ {0}
    BY <1>1, <1>8, EmptySeq
  <2>2. 1 \in 1..Len(ring)
    BY <2>1
  <2>3. Upcoming' = ring[1]
    BY <1>1, <1>3, <2>2, Appending
  <2>4. /\ (s \o ring)[n + 1] = ring[1] /\ (s \o ring)[n] = s[n]
        /\ n + 1 \in 1..Len(s \o ring) /\ n \in 1..(Len(s \o ring) - 1) /\ n < n + 1
    BY <1>1, <1>5, <1>6, <2>1, <2>2
  <2>5. Joined(s \o ring)
    BY <1>0, <1>2 DEF RingInv
  <2>6. s[n] < ring[1] /\ (s[n] + 1 < ring[1] => ring[1] \in spliced)
    BY <1>6, <2>4, <2>5 DEF Joined
  <2> QED
    BY <1>4, <2>3, <2>6, Zenon DEF GapsInv
<1> QED
  BY <1>7, <1>8

\* Every step keeps what is known of the sample that follows.
LEMMA GapsStep ==
  ASSUME IInv, Next
  PROVE  GapsInv'
<1>0. /\ TypeOK /\ TypeOK' /\ DeviceInv /\ TimelineInv /\ RingInv /\ ring \in Seq(Int) /\ clock \in Int
      /\ Upcoming \in Int
  BY TypeStep, StreamTold, UpcomingTold DEF IInv
<1>k. ASSUME UNCHANGED <<sent, clock, spliced>>, node' = "Running" => node = "Running",
             Stream' = Stream, Marked' = Marked,
             pcm' = "capturing" \/ Stream # <<>> => pcm = "capturing" \/ Stream # <<>>
      PROVE  GapsInv'
  <2>1. Upcoming' = Upcoming /\ Upcoming <= Upcoming
    BY <1>0, <1>k, UpcomingSame
  <2> QED
    BY <1>0, <1>k, <2>1, GapsKept, Zenon
<1>d. ASSUME UNCHANGED <<sent, clock>>, spliced \subseteq spliced',
             node' = "Running" => node = "Running",
             pending' = NoFrame, partial' = <<>>, ring' \in {ring, <<>>}, discontinuity' = TRUE
      PROVE  GapsInv'
  <2>1. Stream' \in {ring, <<>>}
    BY <1>0, <1>d, StreamDiscarded
  <2>2. Upcoming' \in Int /\ Upcoming <= Upcoming'
    BY <1>0, <1>d, <2>1, UpcomingLater
  <2> QED
    BY <1>d, <2>2, GapsKept, Zenon
<1>n. ASSUME node' # "Running" \/ sent' = NoFrame PROVE GapsInv'
  BY <1>n, Zenon DEF GapsInv
<1> USE DEF nodeVars, tickVars, deviceVars, sessionVars
<1>1. CASE Elapse
  <2>0. /\ UNCHANGED <<pending, partial, discontinuity, sent, spliced, node>> /\ clock' = clock + 1
        /\ \/ pcm' # "capturing" /\ UNCHANGED <<pcm, ring>>
           \/ pcm' # "capturing" /\ ring' = <<>>
           \/ pcm = "capturing" /\ ring' = Append(ring, clock)
    BY <1>1, Zenon DEF Elapse
  <2>1. \/ pcm' # "capturing" /\ Stream' \in {Stream, pending.samples \o partial}
        \/ pcm = "capturing" /\ Stream' = Append(Stream, clock)
    <3>1. CASE pcm' # "capturing" /\ ring' = ring
      BY <2>0, <3>1 DEF Stream
    <3>2. CASE pcm' # "capturing" /\ ring' = <<>>
      <4>1. (pending.samples \o partial) \o <<>> = pending.samples \o partial
        BY <1>0, StreamTold, ConcatEmptySeq
      <4> QED
        BY <2>0, <3>2, <4>1, Zenon DEF Stream
    <3>3. CASE pcm = "capturing" /\ ring' = Append(ring, clock)
      <4>1. Append((pending.samples \o partial) \o ring, clock)
              = (pending.samples \o partial) \o Append(ring, clock)
        BY <1>0, StreamTold, AppendBehind
      <4> QED
        BY <2>0, <3>3, <4>1, Zenon DEF Stream
    <3> QED
      BY <2>0, <3>1, <3>2, <3>3
  <2>2. Stream \in Seq(Int) /\ pending.samples \o partial \in Seq(Int) /\ Stream' \in Seq(Int)
        /\ clock' \in Int
    <3>1. Stream \in Seq(Int) /\ pending.samples \o partial \in Seq(Int)
      BY <1>0, StreamTold
    <3>2. Append(Stream, clock) \in Seq(Int)
      BY <1>0, <3>1, Appending
    <3>3. Stream' \in Seq(Int)
      BY <2>1, <3>1, <3>2, Zenon
    <3>4. clock' \in Int
      BY <1>0, <2>0
    <3> QED
      BY <3>1, <3>3, <3>4
  <2>3. /\ Upcoming' \in Int
        /\ Stream' = <<>> => Upcoming' = clock + 1
        /\ Stream' # <<>> => Upcoming' = Stream'[1]
    BY <2>0, <2>2, FirstOf DEF Upcoming
  <2>4. /\ Stream = <<>> => Upcoming = clock
        /\ Stream # <<>> => Upcoming = Stream[1] /\ 1 \in 1..Len(Stream)
    BY <1>0, UpcomingTold
  <2>5. Marked' = Marked /\ Upcoming <= Upcoming
    BY <1>0, <2>0 DEF Marked
  <2>6. CASE Stream' = <<>> /\ pcm' # "capturing"
    <3>1. Upcoming <= clock
      BY <1>0, <2>4 DEF RingInv
    <3>2. Upcoming <= Upcoming'
      BY <1>0, <2>3, <2>6, <3>1
    <3> QED
      BY <2>0, <2>3, <2>6, <3>2, GapsKept, Zenon
  <2>7. ASSUME Upcoming' = Upcoming, pcm = "capturing" \/ Stream # <<>> PROVE GapsInv'
    BY <1>0, <2>0, <2>5, <2>7, GapsKept, Zenon
  <2>8. CASE Stream' = Append(Stream, clock) /\ pcm = "capturing"
    <3>1. Append(Stream, clock) # <<>>
      <4>1. Len(Append(Stream, clock)) = Len(Stream) + 1 /\ Len(Stream) \in Nat /\ Len(<<>>) = 0
        BY <1>0, <2>2, Appending
      <4> QED
        BY <4>1
    <3>2. Upcoming' = Upcoming
      BY <2>3, <2>8, <3>1, Zenon DEF Upcoming
    <3> QED
      BY <2>7, <2>8, <3>2
  <2>9. CASE Stream' # <<>> /\ Stream' \in {Stream, pending.samples \o partial}
    <3>1. Upcoming' = Upcoming /\ Stream # <<>>
      <4>1. CASE Stream' = Stream
        BY <2>3, <2>4, <2>9, <4>1
      <4>2. CASE Stream' = pending.samples \o partial
        <5>1. Stream # <<>> /\ Stream[1] = (pending.samples \o partial)[1]
          BY <1>0, <2>2, <2>9, <4>2, FirstOfJoining DEF Stream
        <5> QED
          BY <2>3, <2>4, <2>9, <4>2, <5>1, Zenon
      <4> QED
        BY <2>9, <4>1, <4>2
    <3> QED
      BY <2>7, <3>1
  <2> QED
    BY <2>1, <2>6, <2>8, <2>9
<1>2. CASE Suspend
  <2>1. /\ UNCHANGED <<sent, clock, spliced, node, pending, partial, ring, discontinuity>>
        /\ pcm = "capturing"
    BY <1>2, Zenon DEF Suspend
  <2>2. Stream' = Stream /\ Marked' = Marked
    BY <2>1, Zenon DEF Stream, Marked
  <2> QED
    BY <1>k, <2>1, <2>2, Zenon
<1>3. CASE Opening
  <2>1. node' # "Running" \/ sent' = NoFrame
    BY <1>3, Zenon DEF Opening, Prepare, Start
  <2> QED
    BY <1>n, <2>1
<1>4. CASE Closing
  <2>1. node' # "Running"
    BY <1>4 DEF Closing, Stop, Destroy, Reset
  <2> QED
    BY <1>n, <2>1
<1>5. CASE Interrupting
  <2>1. /\ UNCHANGED <<sent, clock, spliced>> /\ node' \in {node, "Error"}
        /\ \/ UNCHANGED <<pending, partial, ring, discontinuity, pcm>>
           \/ /\ pending' = NoFrame /\ partial' = <<>> /\ discontinuity' = TRUE
              /\ ring' \in {ring, <<>>}
    BY <1>5 DEF Interrupting, AnchorInterrupted, ReadInterrupted, Interrupted, EndsTimeline, Captures,
                Returns, PartialAfterGap, MarkAfterGap
  <2>2. CASE UNCHANGED <<pending, partial, ring, discontinuity, pcm>>
    <3>1. Stream' = Stream /\ Marked' = Marked
      BY <2>2, Zenon DEF Stream, Marked
    <3> QED
      BY <1>k, <2>1, <2>2, <3>1
  <2>3. CASE pending' = NoFrame /\ partial' = <<>> /\ discontinuity' = TRUE /\ ring' \in {ring, <<>>}
    <3>1. spliced \subseteq spliced' /\ (node' = "Running" => node = "Running")
      BY <2>1
    <3> QED
      BY <1>d, <2>1, <2>3, <3>1, Zenon
  <2> QED
    BY <2>1, <2>2, <2>3
<1>6. CASE Reading
  <2>1. ASSUME NEW ok \in BOOLEAN, TickReads(ok) PROVE GapsInv'
    <3>1. /\ UNCHANGED <<sent, clock, spliced, pending, partial, ring, discontinuity, pcm>>
          /\ node' = "Running" => node = "Running"
      BY <2>1, Zenon DEF TickReads, TickStarts
    <3>2. Stream' = Stream /\ Marked' = Marked
      BY <3>1, Zenon DEF Stream, Marked
    <3> QED
      BY <1>k, <3>1, <3>2, Zenon
  <2>2. ASSUME NEW ok \in BOOLEAN, NEW also \in BOOLEAN, ReadNothing(ok, also) PROVE GapsInv'
    <3>1. /\ UNCHANGED <<sent, clock, spliced, pending, partial, ring, discontinuity, pcm>>
          /\ node' = "Running" => node = "Running"
      BY <1>0, <2>2, Zenon DEF ReadNothing, DeviceInv
    <3>2. Stream' = Stream /\ Marked' = Marked
      BY <3>1, Zenon DEF Stream, Marked
    <3> QED
      BY <1>k, <3>1, <3>2, Zenon
  <2>3. ASSUME NEW ok \in BOOLEAN, NEW also \in BOOLEAN, NEW n \in 1..SamplesPerFrame,
               Read(n, ok, also)
        PROVE  GapsInv'
    <3>1. node = "Running" /\ pending = NoFrame
      BY <1>0, <2>3, Zenon DEF Read, DeviceInv, TimelineInv
    <3>2. UNCHANGED <<sent, clock, spliced, pcm>> /\ Stream' = Stream
      BY <1>0, <2>3, ReadTells, StreamRead
    <3>3. Marked' = Marked
      <4>1. \/ UNCHANGED <<pending, discontinuity>>
            \/ pending' \in Frames /\ pending'.discontinuity = discontinuity
        BY <1>0, <2>3, ReadTells, Zenon
      <4>2. pending' \in Frames => pending' # NoFrame
        BY FramesTold
      <4> QED
        BY <3>1, <4>1, <4>2, Zenon DEF Marked
    <3> QED
      BY <1>k, <3>1, <3>2, <3>3, Zenon
  <2> QED
    BY <1>6, <2>1, <2>2, <2>3 DEF Reading
<1>7. CASE Answering
  <2>1. ASSUME NEW answer \in Answers, NEW observed \in BOOLEAN, SendPending(answer, observed)
        PROVE  GapsInv'
    <3>1. /\ UNCHANGED <<partial, pcm, clock, ring, spliced, discontinuity>> /\ pending # NoFrame
          /\ node = "Running"
          /\ \/ UNCHANGED <<pending, sent>>
             \/ pending' = NoFrame /\ sent' = pending
      BY <1>0, <2>1 DEF SendPending, Answers, TickStarts, TimelineInv, DeviceInv
    <3>2. CASE UNCHANGED <<pending, sent>>
      <4>1. Stream' = Stream /\ Marked' = Marked
        BY <3>1, <3>2, Zenon DEF Stream, Marked
      <4> QED
        BY <1>k, <3>1, <3>2, <4>1, Zenon
    <3> QED
      BY <1>0, <3>1, <3>2, GapsSent, Zenon
  <2>2. ASSUME NEW answer \in Answers, NEW observed \in BOOLEAN, NEW fallback \in BOOLEAN,
               CaptureAnchor(fallback, answer, observed)
        PROVE  GapsInv'
    <3>1. /\ UNCHANGED <<sent, clock, spliced, pending, partial, ring, discontinuity, pcm>>
          /\ node = "Running"
      BY <1>0, <2>2, Zenon DEF CaptureAnchor, DeviceInv
    <3>2. Stream' = Stream /\ Marked' = Marked
      BY <3>1, Zenon DEF Stream, Marked
    <3> QED
      BY <1>k, <3>1, <3>2, Zenon
  <2> QED
    BY <1>7, <2>1, <2>2 DEF Answering
<1>8. CASE Resuming
  <2>1. /\ UNCHANGED <<pending, partial, sent, clock, discontinuity>> /\ pending = NoFrame /\ suspended
        /\ node = "Running" /\ spliced \subseteq spliced' /\ ring' \in {ring, <<>>}
    BY <1>8 DEF Resuming, Resume, Resumes, Captures, Answers, TickStarts
  <2>2. partial = <<>> /\ discontinuity = TRUE
    <3>1. discontinuity \in BOOLEAN
      BY <1>0, Zenon DEF TypeOK
    <3> QED
      BY <1>0, <2>1, <3>1, Zenon DEF TimelineInv
  <2>3. pending' = NoFrame /\ partial' = <<>> /\ discontinuity' = TRUE
    BY <2>1, <2>2, Zenon
  <2> QED
    BY <1>d, <2>1, <2>3, Zenon
<1> QED
  BY <1>1, <1>2, <1>3, <1>4, <1>5, <1>6, <1>7, <1>8, NextSteps

------------------------------------------------------------------------------
(***************************************************************************)
(* The invariant, and what follows from it.                                *)
(***************************************************************************)
LEMMA InitIInv == Init => IInv
<1> SUFFICES ASSUME Init PROVE IInv
  OBVIOUS
<1>0. NoAnchor \in Anchors /\ ~NoAnchor.set /\ <<>> \in Seq(Int) /\ Len(<<>>) = 0
  BY AnchorsTold
<1>1. TypeOK
  <2>1. suspended \in BOOLEAN /\ discontinuity \in BOOLEAN
    BY DEF Init
  <2>2. RestTyped
    BY <1>0, SizesTold DEF Init, RestTyped
  <2> QED
    BY <2>1, <2>2, TypesSplit
<1>2. DeviceInv
  BY <1>0, SizesTold DEF Init, DeviceInv, DeviceAccounted, Available
<1>3. RingInv
  <2>1. Stream = <<>>
    BY <1>1, StreamOfRing DEF Init
  <2>2. Joined(<<>>) /\ Joined(sent.samples)
    BY NothingJoined DEF Init, NoFrame
  <2> QED
    BY <1>0, <2>1, <2>2 DEF Init, RingInv
<1>4. TimelineInv
  BY <1>0 DEF Init, TimelineInv, TimelineExact
<1>5. GapsInv
  BY DEF Init, GapsInv
<1> QED
  BY <1>1, <1>2, <1>3, <1>4, <1>5 DEF IInv

\* The invariant is inductive.
LEMMA IInvStep == IInv /\ [Next]_vars => IInv'
<1> SUFFICES ASSUME IInv, [Next]_vars PROVE IInv'
  OBVIOUS
<1>1. CASE Next
  BY <1>1, TypeStep, DeviceStep, RingStep, TimelineStep, GapsStep DEF IInv
<1>2. CASE UNCHANGED vars
  <2> USE DEF vars, nodeVars, tickVars, deviceVars, sessionVars
  <2>1. TypeOK'
    BY <1>2, ZenonT(60) DEF IInv, TypeOK
  <2>2. DeviceInv'
    BY <1>2, Zenon DEF IInv, DeviceInv, DeviceAccounted, Available
  <2>3. RingInv'
    BY <1>2, ZenonT(60) DEF IInv, RingInv, Stream, Origin, Kept, Joined
  <2>4. TimelineInv'
    BY <1>2, ZenonT(60) DEF IInv, TimelineInv, Origin, Held, Dated, Kept, TimelineExact
  <2>5. GapsInv'
    BY <1>2, Zenon DEF IInv, GapsInv, Upcoming, Stream
  <2> QED
    BY <2>1, <2>2, <2>3, <2>4, <2>5 DEF IInv
<1> QED
  BY <1>1, <1>2

\* The invariant holds of every behaviour.
LEMMA Invariance == Spec => []IInv
BY InitIInv, IInvStep, PTL DEF Spec

\* TypeOK: every variable keeps its type, and the block of a running node never
\* holds a whole frame between two steps.
THEOREM TypeCorrect == Spec => []TypeOK
<1>1. IInv => TypeOK
  BY DEF IInv
<1> QED
  BY <1>1, Invariance, PTL

\* DeviceAccounted: whichever call fails, node, system and device agree on whether
\* the device is closed, ready or started.
THEOREM DeviceSafety == Spec => []DeviceAccounted
<1>1. IInv => DeviceAccounted
  BY DEF IInv, DeviceInv
<1> QED
  BY <1>1, Invariance, PTL

\* TimelineExact: every sample of a frame was captured when the frame's timestamp says,
\* but for what the fallback anchor may be early by and for the samples that a resume
\* left in the ring, which were captured earlier than they are dated.
THEOREM TimelineSafety == Spec => []TimelineExact
<1>1. IInv => TimelineExact
  BY DEF IInv, TimelineInv
<1> QED
  BY <1>1, Invariance, PTL

\* A step that replaces the newest frame sent sends the pending one, or starts a
\* session.
LEMMA SentBy ==
  ASSUME Next, sent' # sent, sent' # NoFrame
  PROVE  sent' = pending /\ (pc = "send" \/ node = "Running") /\ spliced' = spliced
<1> USE DEF nodeVars, tickVars, deviceVars, sessionVars, Returns
<1>1. CASE Elapse \/ Suspend
  BY <1>1, Zenon DEF Elapse, Suspend
<1>2. CASE Opening
  BY <1>2, Zenon DEF Opening, Prepare, Start
<1>3. CASE Closing
  BY <1>3, Zenon DEF Closing, Stop, Destroy, Reset
<1>4. CASE Interrupting
  BY <1>4, Zenon DEF Interrupting, AnchorInterrupted, ReadInterrupted
<1>5. CASE Reading
  BY <1>5, Zenon DEF Reading, TickReads, ReadNothing, Read
<1>6. CASE Answering
  BY <1>6 DEF Answering, SendPending, CaptureAnchor, TickStarts, Answers
<1>7. CASE Resuming
  BY <1>7, Zenon DEF Resuming, Resume
<1> QED
  BY <1>1, <1>2, <1>3, <1>4, <1>5, <1>6, <1>7, NextSteps

\* GapsMarked: the samples of two frames that follow each other were captured one after
\* the other, and where any is missing among them a resume joined the two that it lies
\* between, or the second frame begins there and is marked.
THEOREM GapsSafety == Spec => GapsMarked
<1>1. IInv /\ [Next]_vars =>
        [sent' # sent /\ NoFrame \notin {sent, sent'} =>
           LET all == sent.samples \o sent'.samples
           IN  \A i \in 1..(2 * SamplesPerFrame - 1) :
                  /\ all[i] < all[i + 1]
                  /\ all[i] + 1 < all[i + 1] =>
                       all[i + 1] \in spliced \/ (i = SamplesPerFrame /\ sent'.discontinuity)]_vars
  <2> SUFFICES ASSUME IInv, Next, sent' # sent, sent # NoFrame, sent' # NoFrame,
                      NEW i \in 1..(2 * SamplesPerFrame - 1)
               PROVE  LET all == sent.samples \o sent'.samples
                      IN  /\ all[i] < all[i + 1]
                          /\ all[i] + 1 < all[i + 1] =>
                               all[i + 1] \in spliced \/ (i = SamplesPerFrame /\ sent'.discontinuity)
    BY DEF vars
  <2> DEFINE n == SamplesPerFrame
             s == sent.samples
             t == pending.samples
             all == s \o t
  <2>1. /\ sent' = pending /\ node = "Running" /\ pending # NoFrame
        /\ TypeOK /\ RingInv /\ GapsInv /\ TimelineInv
    BY SentBy DEF IInv, DeviceInv
  <2>2. /\ s \in Seq(Int) /\ t \in Seq(Int) /\ Len(s) = n /\ Len(t) = n /\ n \in Nat /\ n >= 1
        /\ ring \in Seq(Int)
    BY <2>1, StreamTold, SamplesTold, SizesTold DEF TypeOK
  <2>3. Joined(s) /\ Joined(t)
    BY <2>1, StreamJoined DEF RingInv
  \* what follows the newest frame is the first sample of the pending one
  <2>4. Stream # <<>> /\ Upcoming = t[1]
    <3>1. t # <<>>
      <4>1. Len(<<>>) = 0
        OBVIOUS
      <4> QED
        BY <2>2, <4>1
    <3>2. partial = <<>> /\ t \o <<>> = t
      BY <2>1, <2>2, ConcatEmptySeq DEF TimelineInv
    <3>3. Stream = t \o ring
      BY <3>2, Zenon DEF Stream
    <3>4. Stream # <<>> /\ Stream[1] = t[1]
      BY <2>2, <3>1, <3>3, FirstOfJoining
    <3> QED
      BY <2>1, <3>4, UpcomingTold
  <2>5. /\ s[n] < t[1]
        /\ s[n] + 1 < t[1] => t[1] \in spliced \/ pending.discontinuity
    BY <2>1, <2>4, Zenon DEF GapsInv
  <2> HIDE DEF s, t
  <2>6. /\ \A k \in 1..n : all[k] = s[k] /\ s[k] \in Int
        /\ \A k \in 1..n : all[n + k] = t[k] /\ t[k] \in Int
    <3>1. /\ \A k \in 1..Len(s) : all[k] = s[k] /\ s[k] \in Int
          /\ \A k \in 1..Len(t) : all[Len(s) + k] = t[k] /\ t[k] \in Int
      BY <2>2, Joining
    <3> HIDE DEF all
    <3> QED
      BY <2>2, <3>1, Zenon
  <2> HIDE DEF all
  <2>7. CASE i \in 1..(n - 1)
    <3>1. i \in 1..n /\ i + 1 \in 1..n /\ i \in 1..(Len(s) - 1) /\ i \in 1..Len(s)
          /\ i + 1 \in 1..Len(s) /\ i < i + 1
      BY <2>2, <2>7
    <3>2. s[i] < s[i + 1] /\ (s[i] + 1 < s[i + 1] => s[i + 1] \in spliced)
      BY <2>3, <3>1 DEF Joined
    <3>3. all[i] = s[i] /\ all[i + 1] = s[i + 1]
      BY <2>6, <3>1
    <3> QED
      BY <2>1, <3>2, <3>3, Zenon DEF all, s, t
  <2>8. CASE i = n
    <3>1. n \in 1..n /\ 1 \in 1..n
      BY <2>2
    <3>2. all[i] = s[n] /\ all[i + 1] = t[1]
      BY <2>6, <2>8, <3>1
    <3> QED
      BY <2>1, <2>5, <2>8, <3>2, Zenon DEF all, s, t
  <2>9. CASE i > n
    <3> DEFINE k == i - n
    <3>1. /\ k \in 1..n /\ k + 1 \in 1..n /\ k \in 1..(Len(t) - 1) /\ k \in 1..Len(t)
          /\ k + 1 \in 1..Len(t) /\ k < k + 1 /\ n + k = i /\ n + (k + 1) = i + 1
      BY <2>2, <2>9
    <3> HIDE DEF k
    <3>2. t[k] < t[k + 1] /\ (t[k] + 1 < t[k + 1] => t[k + 1] \in spliced)
      BY <2>3, <3>1 DEF Joined
    <3>3. all[n + k] = t[k] /\ all[n + (k + 1)] = t[k + 1]
      BY <2>6, <3>1
    <3>4. all[i] = t[k] /\ all[i + 1] = t[k + 1]
      BY <3>1, <3>3, Zenon
    <3> QED
      BY <2>1, <3>2, <3>4, Zenon DEF all, s, t
  <2>10. i \in 1..(n - 1) \/ i = n \/ i > n
    BY <2>2
  <2> QED
    BY <2>1, <2>7, <2>8, <2>9, <2>10, Zenon DEF all, s, t
<1> QED
  BY <1>1, Invariance, PTL DEF Spec, GapsMarked
==============================================================================
