--------------------------- MODULE EventLoopProofs ---------------------------
(***************************************************************************)
(* Proofs about EventLoop: for any wait sources, with any number of        *)
(* descriptors each, shared between them or not, and any events.           *)
(***************************************************************************)
EXTENDS EventLoop, SequenceTheorems, WellFoundedInduction, TLAPS

------------------------------------------------------------------------------
(***************************************************************************)
(* The operators of the turn.                                              *)
(***************************************************************************)

\* What the assumption says of one source's descriptors.
LEMMA DescriptorFacts ==
  ASSUME NEW s \in Sources
  PROVE  /\ DescriptorsOf[s] \in Seq(Fds) /\ Len(DescriptorsOf[s]) \in Nat
         /\ DOMAIN DescriptorsOf[s] = 1..Len(DescriptorsOf[s])
         /\ \A k \in 1..Len(DescriptorsOf[s]) : DescriptorsOf[s][k] \in Fds
<1>1. DescriptorsOf[s] \in Seq(Fds)
  BY SourceAssumption
<1> QED
  BY <1>1

\* The least of a turn's ready sources is one of them.
LEMMA LowestReady ==
  ASSUME TypeOK, ready_sources # {}
  PROVE  Lowest \in ready_sources
<1> DEFINE R == OpToRel(<, Nat)
<1>1. \A m, n \in Nat : m < n => <<m, n>> \in R
  BY DEF OpToRel
<1>2. IsWellFoundedOn(R, Nat)
  BY NatLessThanWellFounded
<1>3. ready_sources \subseteq Nat
  BY DEF TypeOK
<1> HIDE DEF R
<1>4. PICK i \in ready_sources : \A j \in ready_sources : ~(<<j, i>> \in R)
  BY <1>2, <1>3, WFMin
<1>5. \A j \in ready_sources : ~(j < i)
  BY <1>1, <1>3, <1>4
<1>6. \A j \in ready_sources : i <= j
  BY <1>3, <1>5
<1> QED
  BY <1>6 DEF Lowest

\* What a source is told of an event is of its own terms, and something exactly
\* when there was something.
LEMMA TranslationSound ==
  ASSUME NEW requested \in SUBSET Events, NEW events \in SUBSET Events
  PROVE  /\ requested_poll_events(events, requested) \subseteq Events
         /\ events # {} => requested_poll_events(events, requested) # {}
         /\ events \subseteq epoll_interests(requested) \cup {"err", "hup"} =>
              requested_poll_events(events, requested) \subseteq requested \cup {"err", "hup"}
  BY DEF requested_poll_events, epoll_interests, Reading, Events

\* A descriptor has a set of events.
LEMMA EventsTyped ==
  ASSUME NEW fd \in Fds
  PROVE  EventsOf[fd] \in SUBSET Events /\ ReadyFor[fd] \in SUBSET Events
  BY SourceAssumption DEF Events

\* What the tables' type says of one record.
LEMMA RecordFacts ==
  ASSUME sources \in Seq(Record)
  PROVE  /\ Len(sources) \in Nat /\ DOMAIN sources = 1..Len(sources)
         /\ \A i \in 1..Len(sources) :
               /\ sources[i] \in Record /\ sources[i].source \in Sources
               /\ sources[i].tokens \in Seq(Nat) /\ Len(sources[i].tokens) \in Nat
               /\ DOMAIN sources[i].tokens = 1..Len(sources[i].tokens)
               /\ sources[i].revents \in Seq(SUBSET Events) /\ Len(sources[i].revents) \in Nat
               /\ DOMAIN sources[i].revents = 1..Len(sources[i].revents)
<1>1. Len(sources) \in Nat /\ DOMAIN sources = 1..Len(sources)
  OBVIOUS
<1>2. \A i \in 1..Len(sources) : sources[i] \in Record
  OBVIOUS
<1>3. \A r \in Record : /\ r.source \in Sources /\ r.tokens \in Seq(Nat)
                         /\ r.revents \in Seq(SUBSET Events)
  BY DEF Record
<1>4. \A q \in Seq(Nat) : Len(q) \in Nat /\ DOMAIN q = 1..Len(q)
  OBVIOUS
<1>5. \A q \in Seq(SUBSET Events) : Len(q) \in Nat /\ DOMAIN q = 1..Len(q)
  OBVIOUS
<1> QED
  BY <1>1, <1>2, <1>3, <1>4, <1>5

\* What the kernel is to watch, by the places in the tables.
LEMMA CommittedPlaces ==
  ASSUME sources \in Seq(Record), NEW w
  PROVE  w \in Committed <=>
           \E i \in 1..Len(sources) : \E k \in DOMAIN sources[i].tokens :
              w = [fd |-> DescriptorsOf[sources[i].source][k], token |-> sources[i].tokens[k]]
<1>1. DOMAIN sources = 1..Len(sources)
  OBVIOUS
<1> DEFINE Of(r) == {[fd |-> DescriptorsOf[r.source][k], token |-> r.tokens[k]] :
                       k \in DOMAIN r.tokens}
<1>2. Committed = UNION {Of(r) : r \in Range(sources)}
  BY DEF Committed
<1>3. Range(sources) = {sources[i] : i \in 1..Len(sources)}
  BY <1>1 DEF Range
<1>4. w \in Committed <=> \E i \in 1..Len(sources) : w \in Of(sources[i])
  <2> HIDE DEF Of
  <2> QED
    BY <1>2, <1>3
<1> QED
  BY <1>4

------------------------------------------------------------------------------
(***************************************************************************)
(* Types.                                                                  *)
(***************************************************************************)
Registering == \/ \E s \in Sources : RegisterSource(s)
               \/ AddDescriptor \/ Commit \/ RollbackDescriptor \/ RolledBack

\* The flags, apart from the rest: the provers take Booleans badly.
LEMMA FlagsTyped ==
  ASSUME TypeOK, Next
  PROVE  /\ epoll_fd' \in BOOLEAN /\ event_fd' \in BOOLEAN /\ invalidated' \in BOOLEAN
         /\ complete' \in BOOLEAN /\ woken' \in BOOLEAN
<1>1. /\ epoll_fd \in BOOLEAN /\ event_fd \in BOOLEAN /\ invalidated \in BOOLEAN
      /\ complete \in BOOLEAN /\ woken \in BOOLEAN
  BY DEF TypeOK
<1> USE DEF loopVars, callVars
<1>2. CASE Initialize \/ Close
  BY <1>1, <1>2, Zenon DEF Initialize, Close, ReleaseBoth
<1>3. CASE \E s \in Sources : RegisterSource(s)
  BY <1>1, <1>3, Zenon DEF RegisterSource
<1>4. CASE AddDescriptor \/ Commit \/ RollbackDescriptor
  BY <1>1, <1>4, Zenon DEF AddDescriptor, Commit, RollbackDescriptor
<1>5. CASE RolledBack
  BY <1>1, <1>5, Zenon DEF RolledBack, InvalidateUnless, ReleaseBoth
<1>6. CASE Publish \/ WaitCalled \/ Interrupted \/ WaitFails \/ EpollReturns
  BY <1>1, <1>6, Zenon DEF Publish, WaitCalled, Interrupted, WaitFails, EpollReturns
<1>7. CASE Dispatch \/ EvaluateSource \/ TurnReturns
  BY <1>1, <1>7, Zenon DEF Dispatch, EvaluateSource, TurnReturns
<1>8. CASE Wake \/ Device
  BY <1>1, <1>8, Zenon DEF Wake, Device
<1> QED
  BY <1>2, <1>3, <1>4, <1>5, <1>6, <1>7, <1>8, Zenon DEF Next, Turn

\* A turn that fails leaves values of the types.
LEMMA FailTyped ==
  ASSUME TypeOK, TurnFails
  PROVE  /\ pc' = "failed" /\ ready_sources' = {}
         /\ turn' \in [control : BOOLEAN, pipelines : Seq({PipelineOf[s] : s \in Sources}),
                       interrupted : Nat]
         /\ report' \in [control : BOOLEAN, fds : [Fds -> SUBSET Events]]
  BY DEF TurnFails, NoTurn, NoReport, Quiet

\* Registration keeps the types.
LEMMA RegisteringTyped ==
  ASSUME TypeOK, TablesInv, Registering
  PROVE  TypeOK'
<1> USE DEF TypeOK, loopVars, callVars, kernelVars
<1>0. /\ epoll_fd' \in BOOLEAN /\ event_fd' \in BOOLEAN /\ invalidated' \in BOOLEAN
      /\ complete' \in BOOLEAN /\ woken' \in BOOLEAN
  BY FlagsTyped DEF Registering, Next
<1>1. CASE \E s \in Sources : RegisterSource(s)
  BY <1>1 DEF RegisterSource
<1>2. CASE AddDescriptor
  <2>1. adding \in Sources /\ added + 1 \in 1..Len(Descriptors)
    BY <1>2, DescriptorFacts DEF AddDescriptor, TablesInv, Descriptors
  <2>2. Descriptors[added + 1] \in Fds /\ Token(added + 1) \in Nat
    BY <2>1, DescriptorFacts DEF Descriptors, Token
  <2> QED
    BY <1>2, <2>2 DEF AddDescriptor
<1>3. CASE Commit
  <2>1. adding \in Sources
    BY <1>3 DEF Commit, TablesInv
  <2>2. Descriptors \in Seq(Fds) /\ Len(Descriptors) \in Nat
    BY <2>1, DescriptorFacts DEF Descriptors
  <2> DEFINE tokens == [k \in DOMAIN Descriptors |-> Token(k)]
             revents == [k \in DOMAIN Descriptors |-> {}]
             r == [source |-> adding, tokens |-> tokens, revents |-> revents]
  <2>3. tokens \in Seq(Nat)
    <3>1. \A k \in 1..Len(Descriptors) : Token(k) \in Nat
      BY DEF Token
    <3>2. tokens \in [1..Len(Descriptors) -> Nat]
      BY <2>2, <3>1
    <3> QED
      BY <2>2, <3>2
  <2>4. revents \in Seq(SUBSET Events)
    BY <2>2
  <2>5. r \in Record
    BY <2>1, <2>3, <2>4 DEF Record
  <2>6. sources' = Append(sources, r)
    BY <1>3 DEF Commit
  <2>7. sources' \in Seq(Record) /\ DOMAIN sources \subseteq DOMAIN sources'
    <3> HIDE DEF r
    <3> QED
      BY <2>5, <2>6, AppendProperties
  <2>8. next_token' \in Nat
    BY <1>3, <2>2 DEF Commit, TokensUsed
  <2> QED
    BY <1>3, <2>7, <2>8 DEF Commit
<1>4. CASE RollbackDescriptor
  <2>1. added' \in Nat
    BY <1>4 DEF RollbackDescriptor
  <2>2. watched' \subseteq watched
    BY <1>4 DEF RollbackDescriptor
  <2> QED
    BY <1>0, <1>4, <2>1, <2>2 DEF RollbackDescriptor
<1>5. CASE RolledBack
  <2>1. /\ watched' \subseteq [fd : Fds, token : Nat] /\ counter' \in 0..MaxCounter
        /\ open' \in [epoll : Nat, event : Nat]
    <3>1. CASE UNCHANGED <<epoll_fd, event_fd, invalidated, open, watched, counter>>
      BY <3>1
    <3>2. CASE invalidated' = TRUE /\ ReleaseBoth
      <4>1. watched' = {} /\ counter' = 0
        BY <3>2 DEF ReleaseBoth
      <4>2. epoll_fd /\ event_fd /\ open.epoll = 1 /\ open.event = 1
        BY <1>5 DEF RolledBack, TablesInv, TablesMatchKernel
      <4>3. open' = [epoll |-> 0, event |-> 0]
        BY <3>2, <4>2 DEF ReleaseBoth
      <4> QED
        BY <4>1, <4>3, SourceAssumption
    <3> QED
      BY <1>5, <3>1, <3>2 DEF RolledBack, InvalidateUnless
  <2> QED
    BY <1>0, <1>5, <2>1 DEF RolledBack
<1> QED
  BY <1>1, <1>2, <1>3, <1>4, <1>5 DEF Registering

\* Waiting keeps the types.
LEMMA WaitingTyped ==
  ASSUME TypeOK, TablesInv,
         Publish \/ WaitCalled \/ Interrupted \/ WaitFails \/ EpollReturns \/ EvaluateSource
           \/ TurnReturns
  PROVE  TypeOK'
<1> USE DEF TypeOK, loopVars, callVars, kernelVars
<1>1. CASE Publish \/ WaitCalled
  BY <1>1 DEF Publish, WaitCalled
<1>2. CASE Interrupted
  <2>1. CASE TurnFails
    BY <1>2, <2>1, FailTyped DEF Interrupted
  <2>2. CASE ~TurnFails
    BY <1>2, <2>2 DEF Interrupted
  <2> QED
    BY <2>1, <2>2
<1>3. CASE WaitFails
  BY <1>3, FailTyped DEF WaitFails
<1>4. CASE EpollReturns
  <2> DEFINE seen == [fd \in Fds |-> UNION {Seen(w) : w \in {v \in watched : v.fd = fd}}]
  <2>1. \A w \in watched : Seen(w) \subseteq Events
    BY DEF Seen
  <2>2. seen \in [Fds -> SUBSET Events]
    BY <2>1
  <2>3. report' = [control |-> counter > 0, fds |-> seen]
    BY <1>4 DEF EpollReturns
  <2>4. (counter > 0) \in BOOLEAN
    OBVIOUS
  <2>5. report' \in [control : BOOLEAN, fds : [Fds -> SUBSET Events]]
    <3> HIDE DEF seen
    <3> QED
      BY <2>2, <2>3, <2>4
  <2> QED
    BY <1>4, <2>5 DEF EpollReturns
<1>5. CASE EvaluateSource
  <2>1. Lowest \in 1..Len(sources)
    BY <1>5, LowestReady DEF EvaluateSource
  <2>2. sources[Lowest].source \in Sources
    BY <2>1, RecordFacts
  <2>3. CASE TurnFails
    BY <1>5, <2>3, FailTyped DEF EvaluateSource
  <2>4. CASE ~TurnFails
    <3> DEFINE S == {PipelineOf[s] : s \in Sources}
    <3>1. \/ turn' = turn
          \/ turn' = [turn EXCEPT !.pipelines = Append(@, PipelineOf[sources[Lowest].source])]
      BY <1>5, <2>4, Zenon DEF EvaluateSource
    <3>2. Append(turn.pipelines, PipelineOf[sources[Lowest].source]) \in Seq(S)
      <4>1. turn.pipelines \in Seq(S) /\ PipelineOf[sources[Lowest].source] \in S
        BY <2>2
      <4> QED
        BY <4>1, AppendProperties
    <3>3. turn' \in [control : BOOLEAN, pipelines : Seq(S), interrupted : Nat]
      <4> DEFINE T == [control : BOOLEAN, pipelines : Seq(S), interrupted : Nat]
      <4>1. turn \in T
        OBVIOUS
      <4> HIDE DEF S, TypeOK
      <4>2. \A q \in Seq(S) : [turn EXCEPT !.pipelines = q] \in T
        BY <4>1
      <4> QED
        BY <3>1, <3>2, <4>1, <4>2
    <3>4. /\ ready_sources' \subseteq ready_sources /\ pc' = pc /\ report' = report
      BY <1>5, <2>4 DEF EvaluateSource, Remaining
    <3> QED
      BY <1>5, <3>3, <3>4 DEF EvaluateSource
  <2> QED
    BY <2>3, <2>4
<1>6. CASE TurnReturns
  <2>1. woken' \in BOOLEAN
    BY <1>6, Zenon DEF TurnReturns
  <2>2. /\ turn' \in [control : BOOLEAN, pipelines : Seq({PipelineOf[s] : s \in Sources}),
                       interrupted : Nat]
        /\ report' \in [control : BOOLEAN, fds : [Fds -> SUBSET Events]]
    BY <1>6 DEF TurnReturns, NoTurn, NoReport, Quiet
  <2> QED
    BY <1>6, <2>1, <2>2 DEF TurnReturns
<1> QED
  BY <1>1, <1>2, <1>3, <1>4, <1>5, <1>6

\* Dispatch rewrites every record's revents and leaves its source and tokens.
LEMMA Dispatched ==
  ASSUME TypeOK, TablesInv, Dispatch
  PROVE  /\ sources' \in Seq(Record) /\ Len(sources') = Len(sources)
         /\ \A i \in 1..Len(sources) :
               /\ sources'[i].source = sources[i].source
               /\ sources'[i].tokens = sources[i].tokens
               /\ DOMAIN sources'[i].revents = DOMAIN sources[i].revents
               /\ Len(sources'[i].revents) = Len(sources[i].revents)
               /\ \A k \in DOMAIN sources[i].revents : sources'[i].revents[k] = Revents(i, k)
<1>1. sources \in Seq(Record)
  BY DEF TypeOK
<1>2. \A i \in 1..Len(sources), k \in Nat :
         k \in DOMAIN sources[i].revents => Revents(i, k) \in SUBSET Events
  <2> SUFFICES ASSUME NEW i \in 1..Len(sources), NEW k \in DOMAIN sources[i].revents
               PROVE  Revents(i, k) \in SUBSET Events
    BY <1>1
  <2>1. sources[i].source \in Sources /\ k \in 1..Len(DescriptorsOf[sources[i].source])
    BY <1>1, RecordFacts DEF TablesInv
  <2>2. EventsOf[DescriptorsOf[sources[i].source][k]] \in SUBSET Events
    BY <2>1, DescriptorFacts, EventsTyped
  <2>3. \A w \in ToldOf(i, k) : report.fds[w.fd] \in SUBSET Events
    BY DEF ToldOf, Told, TypeOK
  <2> QED
    BY <2>2, <2>3, TranslationSound DEF Revents
<1> DEFINE told(i) == [k \in DOMAIN sources[i].revents |-> Revents(i, k)]
<1>3. \A i \in 1..Len(sources) : told(i) \in Seq(SUBSET Events)
                                  /\ Len(told(i)) = Len(sources[i].revents)
                                  /\ DOMAIN told(i) = DOMAIN sources[i].revents
  <2> SUFFICES ASSUME NEW i \in 1..Len(sources)
               PROVE  /\ told(i) \in Seq(SUBSET Events)
                      /\ Len(told(i)) = Len(sources[i].revents)
                      /\ DOMAIN told(i) = DOMAIN sources[i].revents
    OBVIOUS
  <2>1. /\ sources[i].revents \in Seq(SUBSET Events) /\ Len(sources[i].revents) \in Nat
        /\ DOMAIN sources[i].revents = 1..Len(sources[i].revents)
    BY <1>1, RecordFacts
  <2>2. told(i) \in [1..Len(sources[i].revents) -> SUBSET Events]
    BY <1>2, <2>1
  <2> QED
    BY <2>1, <2>2
<1>4. sources' = [i \in DOMAIN sources |-> [sources[i] EXCEPT !.revents = told(i)]]
  BY Zenon DEF Dispatch
<1>5. /\ DOMAIN sources' = 1..Len(sources)
      /\ \A i \in 1..Len(sources) : sources'[i] = [sources[i] EXCEPT !.revents = told(i)]
  <2> HIDE DEF told
  <2> QED
    BY <1>1, <1>4, RecordFacts
<1>6. \A i \in 1..Len(sources) : /\ sources'[i] \in Record
                                 /\ sources'[i].source = sources[i].source
                                 /\ sources'[i].tokens = sources[i].tokens
                                 /\ sources'[i].revents = told(i)
  <2>1. \A r \in Record, q \in Seq(SUBSET Events) :
           LET u == [r EXCEPT !.revents = q]
           IN  u \in Record /\ u.source = r.source /\ u.tokens = r.tokens /\ u.revents = q
    BY DEF Record
  <2> SUFFICES ASSUME NEW i \in 1..Len(sources)
               PROVE  /\ sources'[i] \in Record
                      /\ sources'[i].source = sources[i].source
                      /\ sources'[i].tokens = sources[i].tokens
                      /\ sources'[i].revents = told(i)
    OBVIOUS
  <2>2. sources[i] \in Record /\ told(i) \in Seq(SUBSET Events)
    BY <1>1, <1>3, RecordFacts
  <2>3. sources'[i] = [sources[i] EXCEPT !.revents = told(i)]
    BY <1>5
  <2> HIDE DEF told
  <2> QED
    BY <2>1, <2>2, <2>3
<1>7. sources' \in Seq(Record) /\ Len(sources') = Len(sources)
  <2>1. sources' \in [1..Len(sources) -> Record]
    <3>1. sources' = [i \in 1..Len(sources) |-> sources'[i]]
      <4> HIDE DEF told
      <4> QED
        BY <1>1, <1>4, <1>5, RecordFacts
    <3> QED
      BY <1>6, <3>1
  <2>2. Len(sources) \in Nat
    BY <1>1
  <2> QED
    BY <2>1, <2>2
<1> QED
  BY <1>3, <1>6, <1>7

\* Handling an event keeps the types.
LEMMA DispatchTyped ==
  ASSUME TypeOK, TablesInv, Dispatch
  PROVE  TypeOK'
<1>1. sources' \in Seq(Record) /\ Len(sources') = Len(sources)
  BY Dispatched
<1>2. CASE TurnFails
  BY <1>1, <1>2, FailTyped DEF Dispatch, TypeOK
<1>3. CASE ~TurnFails
  <2>1. ready_sources' \subseteq DOMAIN sources'
    <3>1. ready_sources' \subseteq DOMAIN sources
      BY <1>3, Zenon DEF Dispatch
    <3> QED
      BY <1>1, <3>1 DEF TypeOK
  <2>2. turn' = [turn EXCEPT !.control = report.control] /\ pc' = "evaluate"
        /\ report' = report /\ counter' \in {0, counter}
    BY <1>3 DEF Dispatch, ControlTold
  <2>3. /\ turn' \in [control : BOOLEAN, pipelines : Seq({PipelineOf[s] : s \in Sources}),
                       interrupted : Nat]
    BY <2>2 DEF TypeOK
  <2>4. counter' \in 0..MaxCounter
    BY <2>2, SourceAssumption DEF TypeOK
  <2> QED
    BY <1>1, <2>1, <2>2, <2>3, <2>4 DEF Dispatch, TypeOK
<1> QED
  BY <1>2, <1>3

\* Opening, closing, wakes and devices keep the types.
LEMMA OthersTyped ==
  ASSUME TypeOK, TablesInv, Initialize \/ Close \/ Wake \/ Device
  PROVE  TypeOK'
<1> USE DEF TypeOK, loopVars, callVars, kernelVars
<1>0. /\ epoll_fd' \in BOOLEAN /\ event_fd' \in BOOLEAN /\ invalidated' \in BOOLEAN
      /\ complete' \in BOOLEAN /\ woken' \in BOOLEAN
  BY FlagsTyped DEF Next
<1>1. CASE Initialize
  BY <1>0, <1>1 DEF Initialize
<1>2. CASE Close
  <2>1. open' \in [epoll : Nat, event : Nat]
    BY <1>2 DEF Close, ReleaseBoth, TablesInv, TablesMatchKernel
  <2> QED
    BY <1>0, <1>2, <2>1, SourceAssumption DEF Close, ReleaseBoth
<1>3. CASE Wake
  BY <1>0, <1>3, SourceAssumption DEF Wake
<1>4. CASE Device
  <2>1. PICK fd \in Fds : \E events \in {{}, ReadyFor[fd]} :
           ready' = [ready EXCEPT ![fd] = events]
    BY <1>4 DEF Device
  <2>2. ready' \in [Fds -> SUBSET Events]
    BY <2>1, EventsTyped
  <2> QED
    BY <1>4, <2>2 DEF Device
<1> QED
  BY <1>1, <1>2, <1>3, <1>4

------------------------------------------------------------------------------
(***************************************************************************)
(* The tables and the kernel.                                              *)
(***************************************************************************)

\* A step that leaves the tables and the registration alone.
LEMMA TablesKept ==
  ASSUME TablesInv,
         UNCHANGED <<epoll_fd, event_fd, next_token, sources, adding, added, complete, open,
                     watched>>,
         \/ pc' = pc
         \/ /\ pc' \notin {"new", "add", "rollback"}
            /\ pc \notin {"add", "rollback"},
         pc' \in {"between", "wait", "dispatch", "evaluate"} => epoll_fd /\ event_fd
  PROVE  TablesInv'
<1>1. /\ TablesMatchKernel' /\ Committed' = Committed /\ Staged' = Staged
      /\ Acceptable(adding)' = Acceptable(adding) /\ Descriptors' = Descriptors
  BY DEF TablesInv, TablesMatchKernel, Committed, Staged, Acceptable, Registered,
     registered_fds, Descriptors, Token
<1> QED
  BY <1>1 DEF TablesInv

\* The descriptors under registration are not among those registered, so the two
\* parts of what the kernel watches are told apart.
LEMMA StagedApart ==
  ASSUME TypeOK, TablesInv, pc \in {"add", "rollback"}
  PROVE  /\ \A w \in Committed : \A k \in 1..Len(Descriptors) : w.fd # Descriptors[k]
         /\ \A k, l \in 1..Len(Descriptors) : Descriptors[k] = Descriptors[l] => k = l
<1>1. adding \in Sources /\ Acceptable(adding)
  BY DEF TablesInv
<1>2. Descriptors \in Seq(Fds) /\ DOMAIN Descriptors = 1..Len(Descriptors)
  BY <1>1, DescriptorFacts DEF Descriptors
<1>3. ASSUME NEW w \in Committed, NEW k \in 1..Len(Descriptors)
      PROVE  w.fd # Descriptors[k]
  <2>0. PICK i \in 1..Len(sources) : \E l \in DOMAIN sources[i].tokens :
           w = [fd |-> DescriptorsOf[sources[i].source][l], token |-> sources[i].tokens[l]]
    BY CommittedPlaces DEF TypeOK
  <2>1. PICK l \in DOMAIN sources[i].tokens :
           w = [fd |-> DescriptorsOf[sources[i].source][l], token |-> sources[i].tokens[l]]
    BY <2>0
  <2>2. sources[i].source \in Registered /\ sources[i].source \in Sources
    BY RecordFacts DEF Registered, TypeOK
  <2>3. l \in DOMAIN DescriptorsOf[sources[i].source]
    BY <2>2, RecordFacts, DescriptorFacts DEF TablesInv, TypeOK
  <2>4. w.fd \in Range(DescriptorsOf[sources[i].source])
    BY <2>1, <2>3 DEF Range
  <2>5. w.fd \in registered_fds
    BY <2>2, <2>4 DEF registered_fds
  <2>6. Descriptors[k] \in Range(DescriptorsOf[adding])
    BY <1>2 DEF Range, Descriptors
  <2> QED
    BY <1>1, <2>5, <2>6 DEF Acceptable
<1>4. ASSUME NEW k \in 1..Len(Descriptors), NEW l \in 1..Len(Descriptors),
             Descriptors[k] = Descriptors[l]
      PROVE  k = l
  BY <1>1, <1>2, <1>4 DEF Acceptable, IsInjective, Descriptors
<1> QED
  BY <1>3, <1>4

\* The new record appended, what the kernel is to watch grows by what was staged.
LEMMA CommittedGrows ==
  ASSUME TypeOK, TablesInv, Commit
  PROVE  /\ Committed' = Committed \cup Staged
         /\ sources' \in Seq(Record) /\ Len(sources') = Len(sources) + 1
         /\ \A i \in 1..Len(sources) : sources'[i] = sources[i]
         /\ sources'[Len(sources) + 1].source = adding
         /\ Len(sources'[Len(sources) + 1].tokens) = Len(Descriptors)
         /\ Len(sources'[Len(sources) + 1].revents) = Len(Descriptors)
<1> DEFINE tokens == [k \in DOMAIN Descriptors |-> Token(k)]
           revents == [k \in DOMAIN Descriptors |-> {}]
           r == [source |-> adding, tokens |-> tokens, revents |-> revents]
           n == Len(sources) + 1
<1>1. adding \in Sources /\ Descriptors \in Seq(Fds) /\ Len(Descriptors) \in Nat
      /\ DOMAIN Descriptors = 1..Len(Descriptors) /\ added = Len(Descriptors)
  BY DescriptorFacts DEF Commit, TablesInv, Descriptors
<1>2. sources' \in Seq(Record)
  BY RegisteringTyped DEF TypeOK, Registering
<1>3. sources \in Seq(Record) /\ Len(sources) \in Nat
  BY DEF TypeOK
<1>4. sources' = Append(sources, r)
  BY DEF Commit
<1>5. /\ Len(sources') = n /\ sources'[n] = r
      /\ \A i \in 1..Len(sources) : sources'[i] = sources[i]
  <2> HIDE DEF r
  <2> QED
    BY <1>3, <1>4
<1>6. /\ r.source = adding /\ r.tokens = tokens /\ r.revents = revents
      /\ tokens \in [1..Len(Descriptors) -> {Token(k) : k \in 1..Len(Descriptors)}]
      /\ revents \in [1..Len(Descriptors) -> {{}}]
  BY <1>1
<1>7. Len(tokens) = Len(Descriptors) /\ Len(revents) = Len(Descriptors)
  BY <1>1, <1>6
<1>8. ASSUME NEW w PROVE w \in Committed' <=> w \in Committed \cup Staged
  <2>1. w \in Committed' <=>
          \E i \in 1..n : \E k \in DOMAIN sources'[i].tokens :
             w = [fd |-> DescriptorsOf[sources'[i].source][k], token |-> sources'[i].tokens[k]]
    <3>1. DOMAIN sources' = 1..n
      BY <1>2, <1>5
    <3> DEFINE Of(q) == {[fd |-> DescriptorsOf[q.source][k], token |-> q.tokens[k]] :
                            k \in DOMAIN q.tokens}
    <3>2. Committed' = UNION {Of(q) : q \in Range(sources')}
      BY DEF Committed
    <3>3. Range(sources') = {sources'[i] : i \in 1..n}
      BY <3>1 DEF Range
    <3>4. w \in Committed' <=> \E i \in 1..n : w \in Of(sources'[i])
      <4> HIDE DEF Of, n
      <4> QED
        BY <3>2, <3>3
    <3> QED
      BY <3>4
  <2>2. w \in Committed <=>
          \E i \in 1..Len(sources) : \E k \in DOMAIN sources[i].tokens :
             w = [fd |-> DescriptorsOf[sources[i].source][k], token |-> sources[i].tokens[k]]
    BY <1>3, CommittedPlaces
  <2>3. w \in Staged <=> \E k \in DOMAIN r.tokens :
                           w = [fd |-> DescriptorsOf[r.source][k], token |-> r.tokens[k]]
    <3>1. w \in Staged <=> \E k \in 1..Len(Descriptors) :
                             w = [fd |-> Descriptors[k], token |-> Token(k)]
      BY <1>1 DEF Staged
    <3> QED
      BY <1>1, <1>6, <3>1 DEF Descriptors
  <2> HIDE DEF r
  <2> QED
    BY <1>3, <1>5, <2>1, <2>2, <2>3
<1> QED
  BY <1>2, <1>5, <1>6, <1>7, <1>8

\* Registration, completed or undone, keeps tables and kernel in step.
LEMMA RegistrationKeepsTables ==
  ASSUME TypeOK, TypeOK', TablesInv, Registering
  PROVE  TablesInv'
<1> USE DEF loopVars, kernelVars
<1>1. CASE \E s \in Sources : RegisterSource(s)
  <2>1. PICK s \in Sources : RegisterSource(s)
    BY <1>1
  <2>2. /\ Committed' = Committed /\ Staged' = {} /\ adding' = s /\ added' = 0 /\ complete'
        /\ pc' = "add" /\ sources' = sources
    BY <2>1 DEF RegisterSource, Committed, Staged
  <2>3. Acceptable(adding)' /\ added' <= Len(Descriptors)'
    BY <2>1, <2>2, DescriptorFacts
       DEF RegisterSource, Acceptable, Registered, registered_fds, Descriptors
  <2>4. TablesMatchKernel' /\ watched' = Committed
    BY <2>1, <2>2 DEF RegisterSource, TablesInv, TablesMatchKernel
  <2> QED
    BY <2>1, <2>2, <2>3, <2>4 DEF RegisterSource, TablesInv
<1>2. CASE AddDescriptor
  <2>1. /\ Committed' = Committed /\ Descriptors' = Descriptors /\ next_token' = next_token
        /\ Acceptable(adding)' = Acceptable(adding) /\ sources' = sources
    BY <1>2 DEF AddDescriptor, Committed, Acceptable, Registered, registered_fds, Descriptors
  <2>2. pc = "add" /\ complete /\ complete' = complete /\ watched = Committed \cup Staged
    BY <1>2 DEF AddDescriptor, TablesInv
  <2>3. watched' = Committed \cup Staged' /\ added' <= Len(Descriptors) /\ pc' \in {"add", "rollback"}
    <3>1. CASE pc' = "rollback" /\ UNCHANGED <<watched, added>>
      BY <1>2, <2>1, <2>2, <3>1 DEF AddDescriptor, Staged, Token, TablesInv
    <3>2. CASE /\ added' = added + 1 /\ UNCHANGED pc
               /\ watched' = watched \cup
                               {[fd |-> Descriptors[added + 1], token |-> Token(added + 1)]}
      <4>1. added \in Nat /\ 1..added' = 1..added \cup {added + 1}
        BY <3>2, SMTT(60) DEF TypeOK
      <4>2. Staged' = Staged \cup {[fd |-> Descriptors[added + 1], token |-> Token(added + 1)]}
        BY <2>1, <4>1 DEF Staged, Token
      <4>3. Len(Descriptors) \in Nat
        BY <2>2, DescriptorFacts DEF TablesInv, Descriptors
      <4> QED
        BY <1>2, <2>2, <3>2, <4>1, <4>2, <4>3 DEF AddDescriptor
    <3> QED
      BY <1>2, <3>1, <3>2 DEF AddDescriptor
  <2>4. TablesMatchKernel'
    BY <1>2, <2>3 DEF AddDescriptor, TablesInv, TablesMatchKernel
  <2> QED
    BY <1>2, <2>1, <2>2, <2>3, <2>4 DEF AddDescriptor, TablesInv
<1>3. CASE Commit
  <2>0. /\ pc' = "idle" /\ complete /\ watched = Committed \cup Staged /\ adding \in Sources
        /\ added = Len(Descriptors) /\ Len(Descriptors) \in Nat
    BY <1>3, DescriptorFacts DEF Commit, TablesInv, Descriptors
  <2>1. Committed' = Committed \cup Staged
    BY <1>3, CommittedGrows
  <2>2. TablesMatchKernel'
    BY <1>3, <2>0, <2>1 DEF Commit, TablesInv, TablesMatchKernel
  <2>3. ASSUME NEW i \in DOMAIN sources'
        PROVE  /\ Len(sources'[i].tokens) = Len(DescriptorsOf[sources'[i].source])
               /\ Len(sources'[i].revents) = Len(DescriptorsOf[sources'[i].source])
    <3>1. DOMAIN sources' = 1..(Len(sources) + 1) /\ Len(sources) \in Nat
          /\ DOMAIN sources = 1..Len(sources)
      BY <1>3, CommittedGrows DEF TypeOK
    <3>2. CASE i \in 1..Len(sources)
      BY <1>3, <3>1, <3>2, CommittedGrows DEF TablesInv
    <3>3. CASE i = Len(sources) + 1
      BY <1>3, <3>3, CommittedGrows DEF Descriptors
    <3> QED
      BY <3>1, <3>2, <3>3
  <2>4. next_token' = next_token + Len(Descriptors) /\ next_token \in Nat
    BY <1>3 DEF Commit, TokensUsed, TypeOK
  <2>5. \A w \in Staged : \E k \in 1..Len(Descriptors) :
           w = [fd |-> Descriptors[k], token |-> next_token + k - 1]
    BY <2>0 DEF Staged, Token
  <2>6. \A w \in Committed : w.token \in Nat /\ w.token < next_token
    BY <2>0 DEF TablesInv, TypeOK
  <2>7. \A w \in Staged : w.token >= next_token /\ w.token < next_token'
    <3> SUFFICES ASSUME NEW w \in Staged PROVE w.token >= next_token /\ w.token < next_token'
      OBVIOUS
    <3>1. PICK k \in 1..Len(Descriptors) :
             w = [fd |-> Descriptors[k], token |-> next_token + k - 1]
      BY <2>5
    <3>2. w.token = next_token + k - 1
      BY <3>1
    <3> QED
      BY <2>0, <2>4, <3>2
  <2>8. \A v, w \in Staged : v.token = w.token => v = w
    <3> SUFFICES ASSUME NEW v \in Staged, NEW w \in Staged, v.token = w.token
                 PROVE  v = w
      OBVIOUS
    <3>1. PICK k \in 1..Len(Descriptors) :
             v = [fd |-> Descriptors[k], token |-> next_token + k - 1]
      BY <2>5
    <3>2. PICK l \in 1..Len(Descriptors) :
             w = [fd |-> Descriptors[l], token |-> next_token + l - 1]
      BY <2>5
    <3>3. k = l
      BY <2>0, <2>4, <3>1, <3>2
    <3> QED
      BY <3>1, <3>2, <3>3
  <2>9. \A v, w \in Committed : v.token = w.token => v = w
    BY DEF TablesInv
  <2>10. \A w \in Committed' : w.token < next_token'
    BY <2>0, <2>1, <2>4, <2>6, <2>7
  <2>11. \A v, w \in Committed' : v.token = w.token => v = w
    <3>1. \A v \in Committed, w \in Staged : v.token # w.token
      <4> SUFFICES ASSUME NEW v \in Committed, NEW w \in Staged PROVE v.token # w.token
        OBVIOUS
      <4>1. PICK k \in 1..Len(Descriptors) : w.token = next_token + k - 1
        BY <2>5
      <4> QED
        BY <2>0, <2>4, <2>6, <4>1
    <3> QED
      BY <2>1, <2>8, <2>9, <3>1
  <2> QED
    BY <2>0, <2>2, <2>3, <2>10, <2>11 DEF TablesInv
<1>4. CASE RollbackDescriptor
  <2>1. /\ Committed' = Committed /\ Descriptors' = Descriptors /\ next_token' = next_token
        /\ Acceptable(adding)' = Acceptable(adding) /\ sources' = sources /\ pc = "rollback"
        /\ pc' = pc /\ adding' = adding
    BY <1>4 DEF RollbackDescriptor, Committed, Acceptable, Registered, registered_fds, Descriptors
  <2>2. added \in Nat /\ added > 0 /\ added <= Len(Descriptors) /\ added' = added - 1
        /\ Len(Descriptors) \in Nat
    BY <1>4, DescriptorFacts DEF RollbackDescriptor, TablesInv, TypeOK, Descriptors
  <2>3. complete' => watched' = Committed \cup Staged'
    <3> SUFFICES ASSUME complete' PROVE watched' = Committed \cup Staged'
      OBVIOUS
    <3>1. /\ complete /\ watched = Committed \cup Staged
          /\ watched' = {w \in watched : w.fd # Descriptors[added]}
      BY <1>4 DEF RollbackDescriptor, TablesInv
    <3>2. \A w \in Committed : w.fd # Descriptors[added]
      BY <2>1, <2>2, StagedApart
    <3>3. \A k \in 1..added' : Descriptors[k] # Descriptors[added]
      BY <2>1, <2>2, StagedApart
    <3>4. 1..added = 1..added' \cup {added} /\ 1..added' \subseteq 1..added
      BY <2>2
    <3>5. Staged' = {[fd |-> Descriptors[k], token |-> Token(k)] : k \in 1..added'}
      BY <2>1 DEF Staged, Token
    <3>6. Staged = Staged' \cup {[fd |-> Descriptors[added], token |-> Token(added)]}
      BY <3>4, <3>5 DEF Staged
    <3>7. \A w \in Staged' : w.fd # Descriptors[added]
      BY <3>3, <3>5
    <3> QED
      BY <3>1, <3>2, <3>6, <3>7
  <2>4. TablesMatchKernel'
    BY <1>4, <2>1 DEF RollbackDescriptor, TablesInv, TablesMatchKernel
  <2> QED
    BY <1>4, <2>1, <2>2, <2>3, <2>4 DEF RollbackDescriptor, TablesInv
<1>5. CASE RolledBack
  <2>1. /\ Committed' = Committed /\ next_token' = next_token /\ sources' = sources
        /\ pc' = "idle" /\ pc = "rollback" /\ added = 0 /\ epoll_fd /\ event_fd
    BY <1>5 DEF RolledBack, Committed, TablesInv
  <2>2. TablesMatchKernel'
    <3>1. CASE complete
      <4>0. Staged = {}
        BY <2>1 DEF Staged
      <4>1. watched = Committed
        <5>1. watched = Committed \cup Staged
          BY <2>1, <3>1, Zenon DEF TablesInv
        <5> QED
          BY <4>0, <5>1
      <4>2. UNCHANGED <<epoll_fd, event_fd, invalidated, open, watched, counter>>
        BY <1>5, <3>1 DEF RolledBack, InvalidateUnless
      <4> QED
        BY <2>1, <4>1, <4>2 DEF TablesInv, TablesMatchKernel
    <3>2. CASE ~complete
      BY <1>5, <2>1, <3>2
         DEF RolledBack, InvalidateUnless, ReleaseBoth, TablesInv, TablesMatchKernel
    <3> QED
      BY <3>1, <3>2
  <2> QED
    BY <2>1, <2>2 DEF TablesInv
<1> QED
  BY <1>1, <1>2, <1>3, <1>4, <1>5 DEF Registering

\* Dispatch shows its events and leaves the tables as they were.
LEMMA DispatchKeepsTables ==
  ASSUME TypeOK, TablesInv, Dispatch
  PROVE  TablesInv' /\ Committed' = Committed
<1>1. sources \in Seq(Record) /\ sources' \in Seq(Record)
  BY Dispatched DEF TypeOK
<1>2. /\ DOMAIN sources = 1..Len(sources) /\ DOMAIN sources' = 1..Len(sources)
      /\ \A i \in 1..Len(sources) : /\ sources'[i].source = sources[i].source
                                    /\ sources'[i].tokens = sources[i].tokens
                                    /\ Len(sources'[i].revents) = Len(sources[i].revents)
  BY <1>1, Dispatched
<1>3. Committed' = Committed
  <2> DEFINE Of(q) == {[fd |-> DescriptorsOf[q.source][k], token |-> q.tokens[k]] :
                          k \in DOMAIN q.tokens}
  <2>1. \A i \in 1..Len(sources) : Of(sources'[i]) = Of(sources[i])
    BY <1>2
  <2>2. Committed' = UNION {Of(q) : q \in Range(sources')}
        /\ Committed = UNION {Of(q) : q \in Range(sources)}
    BY DEF Committed
  <2>3. Range(sources') = {sources'[i] : i \in 1..Len(sources)}
        /\ Range(sources) = {sources[i] : i \in 1..Len(sources)}
    BY <1>2 DEF Range
  <2> HIDE DEF Of
  <2>4. \A w : (w \in Committed' <=> \E i \in 1..Len(sources) : w \in Of(sources'[i]))
               /\ (w \in Committed <=> \E i \in 1..Len(sources) : w \in Of(sources[i]))
    BY <2>2, <2>3
  <2> QED
    BY <2>1, <2>4
<1>4. pc = "dispatch" /\ pc' \in {"evaluate", "failed"} /\ epoll_fd /\ event_fd
      /\ epoll_fd' = epoll_fd /\ event_fd' = event_fd /\ open' = open /\ watched' = watched
      /\ next_token' = next_token
  BY DEF Dispatch, TurnFails, TablesInv
<1>5. TablesMatchKernel'
  BY <1>3, <1>4 DEF TablesInv, TablesMatchKernel
<1> QED
  BY <1>2, <1>3, <1>4, <1>5 DEF TablesInv

\* No other step but the handling of an event touches the tables.
LEMMA OthersKeepTables ==
  ASSUME TypeOK, TablesInv, Initialize \/ Close \/ Publish \/ WaitCalled \/ Interrupted
           \/ WaitFails \/ EpollReturns \/ EvaluateSource \/ TurnReturns \/ Wake \/ Device
  PROVE  TablesInv'
<1> USE DEF loopVars, callVars, kernelVars
<1>1. CASE Initialize
  <2>1. /\ pc = "new" /\ sources = <<>> /\ sources' = sources /\ watched = {} /\ watched' = watched
        /\ open.epoll = 0 /\ open.event = 0 /\ pc' \in {"idle", "failed"}
    BY <1>1 DEF Initialize, TablesInv, TablesMatchKernel
  <2>2. Committed' = {}
    BY <2>1 DEF Committed, Range
  <2>3. TablesMatchKernel'
    BY <1>1, <2>1, <2>2 DEF Initialize, TablesInv, TablesMatchKernel
  <2> QED
    BY <2>1, <2>2, <2>3 DEF TablesInv
<1>2. CASE Close
  <2>1. Committed' = Committed /\ pc' = "closed"
    BY <1>2 DEF Close, Committed
  <2>2. TablesMatchKernel'
    BY <1>2, <2>1 DEF Close, ReleaseBoth, TablesInv, TablesMatchKernel
  <2> QED
    BY <1>2, <2>1, <2>2 DEF Close, TablesInv
<1>3. CASE Publish \/ WaitCalled
  BY <1>3, TablesKept DEF Publish, WaitCalled, TablesInv
<1>4. CASE Interrupted \/ WaitFails \/ EpollReturns
  <2>1. /\ pc \in {"wait"} /\ epoll_fd /\ event_fd
        /\ pc' \in {"wait", "failed", "dispatch"}
    BY <1>4 DEF Interrupted, WaitFails, EpollReturns, TurnFails, TablesInv
  <2> QED
    BY <1>4, <2>1, TablesKept DEF Interrupted, WaitFails, EpollReturns
<1>5. CASE EvaluateSource \/ TurnReturns
  <2>1. /\ pc = "evaluate" /\ epoll_fd /\ event_fd
        /\ pc' \in {"evaluate", "failed", "between"}
    BY <1>5 DEF EvaluateSource, TurnReturns, TurnFails, TablesInv
  <2> QED
    BY <1>5, <2>1, TablesKept DEF EvaluateSource, TurnReturns
<1>6. CASE Wake \/ Device
  <2>1. pc' = pc
    BY <1>6 DEF Wake, Device
  <2> QED
    BY <1>6, <2>1, TablesKept DEF Wake, Device, TablesInv
<1> QED
  BY <1>1, <1>2, <1>3, <1>4, <1>5, <1>6

\* A step that changes nothing keeps the tables.
LEMMA TablesStutter ==
  ASSUME TablesInv, UNCHANGED vars
  PROVE  TablesInv'
BY TablesKept DEF vars, loopVars, callVars, kernelVars, TablesInv

------------------------------------------------------------------------------
(***************************************************************************)
(* Wakes.                                                                  *)
(***************************************************************************)

\* A wake comes once the loop is published, stays in the counter until Dispatch
\* reads it, and is then in the turn until the turn returns.
LEMMA WakesStep ==
  ASSUME TypeOK, TypeOK', WakesInv, Next \/ UNCHANGED vars
  PROVE  WakesInv'
<1> USE DEF loopVars, callVars, kernelVars
<1> DEFINE Asleep == {"new", "idle", "add", "rollback"}
           Waits  == {"wait", "dispatch", "evaluate", "between"}
<1>0. /\ (pc \in Asleep => ~woken)
      /\ (woken /\ pc \in Waits => \/ counter > 0
                                   \/ pc = "evaluate" /\ turn.control)
  BY DEF WakesInv, NoWakeLost, Waiting
<1>goal. SUFFICES /\ pc' \in Asleep => ~woken'
                  /\ woken' /\ pc' \in Waits => \/ counter' > 0
                                                \/ pc' = "evaluate" /\ turn'.control
  BY DEF WakesInv, NoWakeLost, Waiting
<1>1. CASE Initialize \/ Close
  <2>1. /\ woken' = woken
        /\ \/ pc' \in {"failed", "closed"}
           \/ pc = "new" /\ pc' = "idle"
    BY <1>1, Zenon DEF Initialize, Close
  <2> QED
    BY <1>0, <2>1
<1>2. CASE Registering
  <2>1. pc \in Asleep /\ woken' = woken /\ pc' \in Asleep /\ ~(pc' \in Waits)
    BY <1>2 DEF Registering, RegisterSource, AddDescriptor, Commit, RollbackDescriptor, RolledBack
  <2> QED
    BY <1>0, <2>1
<1>3. CASE Publish \/ WaitCalled \/ Interrupted \/ WaitFails \/ EpollReturns
  <2>1. /\ \/ pc = "idle" /\ pc' = "between"
           \/ pc \in {"wait", "between"} /\ pc' \in {"wait", "failed", "dispatch"}
        /\ woken' = woken /\ counter' = counter
    BY <1>3 DEF Publish, WaitCalled, Interrupted, WaitFails, EpollReturns, TurnFails
  <2> QED
    BY <1>0, <2>1
<1>4. CASE Dispatch
  <2>1. /\ pc = "dispatch" /\ woken' = woken
        /\ \/ pc' = "failed"
           \/ /\ pc' = "evaluate" /\ turn' = [turn EXCEPT !.control = report.control]
              /\ counter' = IF report.control THEN 0 ELSE counter
    BY <1>4, Zenon DEF Dispatch, TurnFails, ControlTold
  <2>2. \A b \in BOOLEAN : [turn EXCEPT !.control = b].control = b
    BY DEF TypeOK
  <2>3. report.control \in BOOLEAN
    BY DEF TypeOK
  <2> QED
    BY <1>0, <2>1, <2>2, <2>3
<1>5. CASE EvaluateSource
  <2>1. \/ pc' = "failed"
        \/ pc' = pc /\ (turn' = turn \/ \E q : turn' = [turn EXCEPT !.pipelines = q])
    BY <1>5, Zenon DEF EvaluateSource, TurnFails
  <2>2. \A q : [turn EXCEPT !.pipelines = q].control = turn.control
    BY DEF TypeOK
  <2>3. pc = "evaluate" /\ woken' = woken /\ counter' = counter
    BY <1>5, Zenon DEF EvaluateSource
  <2> QED
    BY <1>0, <2>1, <2>2, <2>3
<1>6. CASE TurnReturns
  <2>1. pc = "evaluate" /\ pc' = "between" /\ counter' = counter
        /\ (woken' <=> woken /\ ~turn.control)
    BY <1>6, Zenon DEF TurnReturns
  <2> QED
    BY <1>0, <2>1
<1>7. CASE Wake
  <2>1. pc \in Waits \cup {"failed"} /\ pc' = pc /\ counter' = counter + 1 /\ counter \in Nat
    BY <1>7 DEF Wake, Waiting, TypeOK
  <2> QED
    BY <2>1
<1>8. CASE Device \/ UNCHANGED vars
  <2>1. pc' = pc /\ turn' = turn /\ counter' = counter /\ woken' = woken
    BY <1>8, Zenon DEF Device, vars
  <2> QED
    BY <1>0, <2>1
<1> QED
  BY <1>1, <1>2, <1>3, <1>4, <1>5, <1>6, <1>7, <1>8, Zenon DEF Next, Turn, Registering

------------------------------------------------------------------------------
(***************************************************************************)
(* What a source is shown.                                                 *)
(***************************************************************************)

\* The token of a registered descriptor is told of that descriptor and no other,
\* so its source is shown what the kernel saw of it, in its own terms.
LEMMA RightfulEvents ==
  ASSUME TypeOK, TablesInv, ReportInv, Dispatch,
         NEW i \in 1..Len(sources), NEW k \in DOMAIN sources[i].revents
  PROVE  LET fd == DescriptorsOf[sources[i].source][k]
         IN  /\ Revents(i, k) \subseteq EventsOf[fd] \cup {"err", "hup"}
             /\ (Revents(i, k) # {}) <=> (report.fds[fd] # {})
<1> DEFINE fd == DescriptorsOf[sources[i].source][k]
           own == [fd |-> fd, token |-> sources[i].tokens[k]]
<1>1. sources \in Seq(Record) /\ sources[i].source \in Sources
      /\ k \in DOMAIN sources[i].tokens /\ k \in 1..Len(DescriptorsOf[sources[i].source])
  <2>1. sources \in Seq(Record)
    BY DEF TypeOK
  <2>2. /\ Len(sources[i].tokens) = Len(DescriptorsOf[sources[i].source])
        /\ Len(sources[i].revents) = Len(DescriptorsOf[sources[i].source])
    BY <2>1 DEF TablesInv
  <2> QED
    BY <2>1, <2>2, RecordFacts
<1>2. fd \in Fds
  BY <1>1, DescriptorFacts
<1>3. own \in Committed
  BY <1>1, CommittedPlaces
<1>4. pc = "dispatch" /\ epoll_fd /\ watched = Committed
  BY DEF Dispatch, TablesInv, TablesMatchKernel
<1>5. own.fd = fd /\ own.token = sources[i].tokens[k]
  OBVIOUS
<1> HIDE DEF own
<1>6. \A w \in ToldOf(i, k) : w = own /\ report.fds[fd] # {}
  BY <1>3, <1>4, <1>5 DEF ToldOf, Told, TablesInv
<1>7. report.fds[fd] # {} => own \in ToldOf(i, k)
  BY <1>3, <1>4, <1>5 DEF ToldOf, Told
<1>8. /\ report.fds[fd] \in SUBSET Events /\ EventsOf[fd] \in SUBSET Events
      /\ report.fds[fd] \subseteq epoll_interests(EventsOf[fd]) \cup {"err", "hup"}
  BY <1>2, <1>4, EventsTyped DEF TypeOK, ReportInv
<1> DEFINE shown == requested_poll_events(report.fds[fd], EventsOf[fd])
<1>9. /\ shown \subseteq EventsOf[fd] \cup {"err", "hup"}
      /\ report.fds[fd] # {} => shown # {}
  BY <1>8, TranslationSound
<1>10. Revents(i, k) = UNION {requested_poll_events(report.fds[w.fd], EventsOf[fd]) :
                                 w \in ToldOf(i, k)}
  BY DEF Revents
<1> HIDE DEF fd
<1>11. CASE report.fds[fd] = {}
  <2>1. ToldOf(i, k) = {}
    BY <1>6, <1>11
  <2>2. Revents(i, k) = {}
    BY <1>10, <2>1
  <2> QED
    BY <1>11, <2>2 DEF fd
<1>12. CASE report.fds[fd] # {}
  <2>1. ToldOf(i, k) = {own}
    BY <1>6, <1>7, <1>12
  <2>2. Revents(i, k) = shown
    BY <1>5, <1>10, <2>1
  <2> HIDE DEF shown
  <2> QED
    BY <1>9, <1>12, <2>2 DEF fd
<1> QED
  BY <1>11, <1>12

\* What the kernel reported goes back to interests that were registered.
LEMMA ReportStep ==
  ASSUME TypeOK, TablesInv, ReportInv, Next \/ UNCHANGED vars
  PROVE  ReportInv'
<1> USE DEF loopVars, callVars, kernelVars
<1>1. CASE Dispatch
  <2>1. CASE pc' # "evaluate"
    <3>1. pc' = "failed"
      BY <1>1, <2>1 DEF Dispatch, TurnFails
    <3> QED
      BY <3>1 DEF ReportInv, OwnEventsShown
  <2>2. CASE pc' = "evaluate"
    <3>1. report' = report /\ pc = "dispatch"
      BY <1>1, <2>2 DEF Dispatch, TurnFails
    <3>2. DOMAIN sources' = 1..Len(sources)
      BY <1>1, Dispatched
    <3>3. ASSUME NEW r \in Range(sources'), NEW k \in DOMAIN r.revents
          PROVE  LET fd == DescriptorsOf[r.source][k]
                 IN  /\ r.revents[k] \subseteq EventsOf[fd] \cup {"err", "hup"}
                     /\ (r.revents[k] # {}) <=> (report'.fds[fd] # {})
      <4>1. PICK i \in 1..Len(sources) : r = sources'[i]
        BY <3>2 DEF Range
      <4>2. /\ r.source = sources[i].source /\ k \in DOMAIN sources[i].revents
            /\ r.revents[k] = Revents(i, k)
        BY <1>1, <4>1, Dispatched
      <4> QED
        BY <1>1, <3>1, <4>2, RightfulEvents
    <3>4. OwnEventsShown'
      BY <3>3 DEF OwnEventsShown
    <3> QED
      BY <3>1, <3>4 DEF ReportInv
  <2> QED
    BY <2>1, <2>2
<1>2. CASE EpollReturns
  <2>1. pc' = "dispatch"
    BY <1>2 DEF EpollReturns
  <2>2. ASSUME NEW fd \in Fds
        PROVE  report'.fds[fd] \subseteq epoll_interests(EventsOf[fd]) \cup {"err", "hup"}
    <3>1. report'.fds[fd] = UNION {Seen(w) : w \in {v \in watched : v.fd = fd}}
      BY <1>2 DEF EpollReturns
    <3>2. \A w \in {v \in watched : v.fd = fd} :
             Seen(w) \subseteq epoll_interests(EventsOf[fd]) \cup {"err", "hup"}
      BY DEF Seen
    <3> QED
      BY <3>1, <3>2
  <2> QED
    BY <2>1, <2>2 DEF ReportInv, OwnEventsShown
<1>3. CASE ~(pc' \in {"dispatch", "evaluate"})
  BY <1>3 DEF ReportInv, OwnEventsShown
<1>4. CASE pc' = pc /\ report' = report /\ sources' = sources
  BY <1>4 DEF ReportInv, OwnEventsShown
<1>5. \/ Dispatch \/ EpollReturns
      \/ ~(pc' \in {"dispatch", "evaluate"})
      \/ pc' = pc /\ report' = report /\ sources' = sources
  <2>1. CASE Initialize \/ Close \/ Registering
    BY <2>1 DEF Initialize, Close, Registering, RegisterSource, AddDescriptor, Commit,
                RollbackDescriptor, RolledBack
  <2>2. CASE Publish \/ WaitCalled \/ Interrupted \/ WaitFails
    BY <2>2 DEF Publish, WaitCalled, Interrupted, WaitFails, TurnFails
  <2>3. CASE EvaluateSource \/ TurnReturns
    BY <2>3, Zenon DEF EvaluateSource, TurnReturns, TurnFails
  <2>4. CASE Wake \/ Device \/ UNCHANGED vars
    BY <2>4 DEF Wake, Device, vars
  <2> QED
    BY <2>1, <2>2, <2>3, <2>4, Zenon DEF Next, Turn, Registering
<1> QED
  BY <1>1, <1>2, <1>3, <1>4, <1>5

------------------------------------------------------------------------------
(***************************************************************************)
(* The theorems.                                                           *)
(***************************************************************************)
IInv == TypeOK /\ TablesInv /\ WakesInv /\ ReportInv

\* The invariant holds at the beginning.
LEMMA InitIInv == Init => IInv
<1> SUFFICES ASSUME Init PROVE IInv
  OBVIOUS
<1> USE DEF Init
<1>1. TypeOK
  <2>1. sources \in Seq(Record) /\ DOMAIN sources = {}
    OBVIOUS
  <2>2. turn \in [control : BOOLEAN, pipelines : Seq({PipelineOf[s] : s \in Sources}),
                  interrupted : Nat]
    BY DEF NoTurn
  <2>3. /\ ready \in [Fds -> SUBSET Events]
        /\ report \in [control : BOOLEAN, fds : [Fds -> SUBSET Events]]
    BY DEF NoReport, Quiet
  <2>4. counter \in 0..MaxCounter /\ open \in [epoll : Nat, event : Nat]
    BY SourceAssumption
  <2> QED
    BY <2>1, <2>2, <2>3, <2>4 DEF TypeOK
<1>2. TablesInv
  <2>1. Committed = {} /\ DOMAIN sources = {}
    BY DEF Committed, Range
  <2> QED
    BY <2>1 DEF TablesInv, TablesMatchKernel
<1>3. WakesInv /\ ReportInv
  BY DEF WakesInv, NoWakeLost, Waiting, ReportInv, OwnEventsShown
<1> QED
  BY <1>1, <1>2, <1>3 DEF IInv

\* The invariant is inductive.
LEMMA NextIInv == IInv /\ [Next]_vars => IInv'
<1> SUFFICES ASSUME IInv, Next \/ UNCHANGED vars PROVE IInv'
  OBVIOUS
<1>0. TypeOK /\ TablesInv /\ WakesInv /\ ReportInv
  BY DEF IInv
<1>1. TypeOK' /\ TablesInv'
  <2>1. CASE Registering
    BY <1>0, <2>1, RegisteringTyped, RegistrationKeepsTables
  <2>2. CASE Dispatch
    BY <1>0, <2>2, DispatchTyped, DispatchKeepsTables
  <2>3. CASE \/ Publish \/ WaitCalled \/ Interrupted \/ WaitFails
             \/ EpollReturns \/ EvaluateSource \/ TurnReturns
    BY <1>0, <2>3, WaitingTyped, OthersKeepTables, Zenon
  <2>4. CASE Initialize \/ Close \/ Wake \/ Device
    BY <1>0, <2>4, OthersTyped, OthersKeepTables, Zenon
  <2>5. CASE UNCHANGED vars
    BY <1>0, <2>5, TablesStutter DEF TypeOK, vars, loopVars, callVars, kernelVars
  <2> QED
    BY <2>1, <2>2, <2>3, <2>4, <2>5, Zenon DEF Next, Turn, Registering
<1>2. WakesInv'
  BY <1>0, <1>1, WakesStep
<1>3. ReportInv'
  BY <1>0, ReportStep
<1> QED
  BY <1>1, <1>2, <1>3 DEF IInv

\* The invariant holds of every behaviour.
LEMMA Invariance == Spec => []IInv
BY InitIInv, NextIInv, PTL DEF Spec

\* Every variable of the loop and of the kernel beside it keeps its type.
THEOREM TypeCorrect == Spec => []TypeOK
<1>1. IInv => TypeOK
  BY DEF IInv
<1> QED
  BY <1>1, Invariance, PTL

\* register_source and its rollback, the turns and the close leave the epoll set
\* and the tables saying the same, however many descriptors a source has.
THEOREM TablesSafety == Spec => []TablesMatchKernel
<1>1. IInv => TablesMatchKernel
  BY DEF IInv, TablesInv
<1> QED
  BY <1>1, Invariance, PTL

\* wait_once shows each source what epoll_wait told of its own descriptors.
THEOREM EventsSafety == Spec => []OwnEventsShown
<1>1. IInv => OwnEventsShown
  BY DEF IInv, ReportInv
<1> QED
  BY <1>1, Invariance, PTL

\* A wake falls before the first wait, anywhere in a turn, or between two; between
\* it, the read of the eventfd and the return of wait_once none falls through.
THEOREM WakeSafety == Spec => []NoWakeLost
<1>1. IInv => NoWakeLost
  BY DEF IInv, WakesInv
<1> QED
  BY <1>1, Invariance, PTL
==============================================================================
