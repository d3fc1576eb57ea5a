------------------------ MODULE PlatformRuntimeProofs ------------------------
(***************************************************************************)
(* Proofs about PlatformRuntime, for any finite set of callers, any        *)
(* pipelines and any number of drain passes.                               *)
(***************************************************************************)
EXTENDS PlatformRuntime, FiniteSetTheorems, TLAPS

------------------------------------------------------------------------------
(***************************************************************************)
(* Type correctness.                                                       *)
(***************************************************************************)

\* What an observer call may add keeps the three failures well typed.
FailType == [media : MediaStatus \cup {"ok"}, reactor : {"ok", "reactor"},
             observer : {"ok", "observer"}]

\* A failure that is recorded is a failure.
LEMMA BlameTyped ==
  ASSUME fail \in FailType
  PROVE  /\ \A s \in MediaStatus : Blame("media", s) \in FailType
         /\ Blame("reactor", "reactor") \in FailType
  BY DEF FailType, Blame, RecordFirst

\* What the observer adds is a failure.
LEMMA ObservedTyped ==
  ASSUME NEW f \in FailType
  PROVE  Observed(f) \subseteq FailType
  BY DEF FailType, Observed, RecordFirst

\* The failure that is selected is a status.
LEMMA SelectedTyped ==
  ASSUME fail \in FailType
  PROVE  SelectedFailure \in Status
  BY DEF FailType, SelectedFailure, Status, Failure, MediaStatus

\* A caller that has claimed a wake is counted.
LEMMA WakersFinite ==
  IsFiniteSet(Wakers) /\ Cardinality(Wakers) \in Nat
  <1>1. Wakers \in SUBSET Callers
    BY DEF Wakers
  <1>2. IsFiniteSet(Wakers)
    BY <1>1, CallersAssumption, FS_Subset
  <1> QED
    BY <1>2, FS_CardinalityType

\* While there is a waker, the count of wakes is not zero.
LEMMA WakerCounted ==
  ASSUME WakesCounted, NEW c \in Wakers
  PROVE  wake_in_flight > 0
  <1>1. Cardinality(Wakers) # 0
    BY WakersFinite, FS_EmptySet
  <1> QED
    BY <1>1, WakersFinite DEF WakesCounted

\* A pending result updated by a caller is still one.
LEMMA OutTyped ==
  ASSUME out \in [Callers -> Results], NEW c \in Callers
  PROVE  /\ \A r \in Results : [out EXCEPT ![c] = r] \in [Callers -> Results]
         /\ \A s \in Status \cup {"latest"} :
              [out EXCEPT ![c].result = s] \in [Callers -> Results]
         /\ out[c].result \in Status \cup {"latest"}
         /\ \A k \in {"start", "stop"}, s \in Status \cup {"latest"} :
              [call |-> k, result |-> s] \in Results
  BY DEF Results

\* The control threads keep every variable in its type.
LEMMA CallerTyped ==
  ASSUME TypeOK, WakesCounted, NEW c \in Callers, Call(c) \/ Return(c)
  PROVE  TypeOK'
<1> USE DEF TypeOK, lifecycle, wakeVars, joinVars, loopVars, localVars, callVars
<1>1. ASSUME NEW p \in Pipelines, RegisterPipeline(c, p) PROVE TypeOK'
  <2>1. registered' \in Seq(Pipelines) /\ N' = N + 1
    BY <1>1 DEF RegisterPipeline, N
  <2>2. N \in Nat
    BY DEF N
  <2>3. 1..N \subseteq 1..N' /\ 0..N \subseteq 0..N'
    BY <2>1, <2>2
  <2>4. QED
    BY <1>1, <2>1, <2>3 DEF RegisterPipeline
<1>2. CASE Launch(c)
  BY <1>2 DEF Launch, N, RuntimeState, EndingState, Status, Failure, ReactorPhase,
     StartupPhase, CallerPhase
<1>3. CASE LaunchFails(c)
  BY <1>3 DEF LaunchFails, N, RuntimeState, EndingState, Status, Failure
<1>4. CASE StopCalled(c)
  BY <1>4 DEF StopCalled, N, CallerPhase
<1>5. CASE StartupObserved(c)
  BY <1>5 DEF StartupObserved, N, CallerPhase
<1>6. CASE StartReturns(c)
  <2>1. out' \in [Callers -> Results]
    BY <1>6, OutTyped DEF StartReturns
  <2>2. start_returns' \subseteq Status
    BY <1>6 DEF StartReturns, Status
  <2> QED
    BY <1>6, <2>1, <2>2 DEF StartReturns, N, CallerPhase
<1>7. CASE StopDecides(c)
  <2>1. JoinedResult \in Status \cup {"latest"}
    BY DEF JoinedResult
  <2>2. out' \in [Callers -> Results]
    BY <1>7, <2>1, OutTyped DEF StopDecides, StartSettled, NothingToStop, JoinedResult
  <2>3. state' \in RuntimeState /\ stop_result' \in Status /\ wake_in_flight' \in Nat
    BY <1>7 DEF StopDecides, StartSettled, NothingToStop, JoinedResult, RuntimeState, Status
  <2>4. pc' \in [Callers -> CallerPhase]
    BY <1>7 DEF StopDecides, StartSettled, NothingToStop, JoinedResult, CallerPhase
  <2>5. stop_requested' \in BOOLEAN /\ reactor_exiting' \in BOOLEAN
    BY <1>7 DEF StopDecides, StartSettled, NothingToStop, JoinedResult
  <2> QED
    BY <1>7, <2>2, <2>3, <2>4, <2>5 DEF StopDecides, StartSettled, NothingToStop, JoinedResult, N
<1>8. CASE Wake(c)
  <2>1. "wake" \in Status \cup {"latest"}
    BY DEF Status, Failure
  <2>2. out' \in [Callers -> Results]
    BY <1>8, <2>1, OutTyped DEF Wake
  <2> QED
    BY <1>8, <2>2 DEF Wake, N, CallerPhase
<1>9. CASE WakeReleased(c)
  <2>1. out' \in [Callers -> Results]
    BY <1>9, OutTyped DEF WakeReleased, ReleaseWake
  <2>2. c \in Wakers
    BY <1>9 DEF WakeReleased, ReleaseWake, Wakers
  <2>3. wake_in_flight' \in Nat
    BY <1>9, <2>2, WakerCounted DEF WakeReleased, ReleaseWake
  <2>4. stop_result' \in Status
    BY <1>9 DEF WakeReleased, ReleaseWake, Status, Failure, RecordFirst
  <2> QED
    BY <1>9, <2>1, <2>3, <2>4 DEF WakeReleased, ReleaseWake, N, CallerPhase
<1>10. CASE JoinReactor(c)
  BY <1>10 DEF JoinReactor, JoinOver, ClaimFree, N, CallerPhase
<1>11. CASE JoinThread(c)
  BY <1>11 DEF JoinThread, N, CallerPhase
<1>12. CASE JoinReleased(c)
  BY <1>12 DEF JoinReleased, ReleaseClaim, N, CallerPhase
<1>13. CASE CallReturns(c)
  <2>1. out' \in [Callers -> Results]
    BY <1>13, OutTyped DEF CallReturns, NoResult, Status
  <2>2. stop_returns' \subseteq Status /\ start_returns' \subseteq Status
    <3> DEFINE r == IF out[c].result = "latest" THEN stop_result ELSE out[c].result
    <3>1. r \in Status
      BY OutTyped
    <3> QED
      BY <1>13, <3>1 DEF CallReturns
  <2> QED
    BY <1>13, <2>1, <2>2 DEF CallReturns, N, CallerPhase
<1> QED
  BY <1>1, <1>2, <1>3, <1>4, <1>5, <1>6, <1>7, <1>8, <1>9, <1>10, <1>11, <1>12,
     <1>13 DEF Call, Return

\* The reactor thread keeps every variable in its type.
LEMMA ReactorTyped ==
  ASSUME TypeOK, Reactor
  PROVE  TypeOK'
<1> USE DEF TypeOK, lifecycle, wakeVars, joinVars, loopVars, localVars, callVars,
            shared
<1>0. fail \in FailType /\ N \in Nat
  BY DEF FailType, N
<1>f. ASSUME NEW f \in FailType PROVE Observed(f) \subseteq FailType
  BY ObservedTyped
<1>b. /\ \A s \in MediaStatus : Blame("media", s) \in FailType
      /\ Blame("reactor", "reactor") \in FailType
  BY <1>0, BlameTyped
<1>m. {"media", "cancel", "timeout", "exception"} \subseteq MediaStatus
  BY DEF MediaStatus
<1>p. {"start", "initialize", "register", "observe", "publish", "wait", "check",
       "tick", "mark", "await", "drain", "cancel", "close", "finish", "ending",
       "ended"} \subseteq ReactorPhase
  BY DEF ReactorPhase, StartupPhase, RunPhase, ExitPhase
<1>q. \A i \in 1..N, s \in PipeState :
        [pipe EXCEPT ![Pipe(i)] = s] \in [Pipelines -> PipeState]
  BY DEF Pipe, N
<1>s. {"running", "draining", "stopped", "error"} \subseteq PipeState
  BY DEF PipeState
<1>1. CASE StartPipeline
  <2>1. fail' \in FailType
    BY <1>1, <1>0, <1>f, <1>b, <1>m DEF StartPipeline
  <2>2. index + 1 \in 1..N /\ index' \in 0..N
    BY <1>1, <1>0 DEF StartPipeline, FailStartup
  <2>3. pipe' \in [Pipelines -> PipeState]
    BY <1>1, <2>2, <1>q, <1>s DEF StartPipeline
  <2>4. rpc' \in ReactorPhase
    BY <1>1, <1>p DEF StartPipeline, FailStartup
  <2> QED
    BY <1>1, <2>1, <2>2, <2>3, <2>4 DEF StartPipeline, N, FailType
<1>2. CASE AllStarted
  BY <1>2, <1>p DEF AllStarted, N
<1>3. CASE InitializeLoop
  <2>1. fail' \in FailType
    BY <1>3, <1>0, <1>b DEF InitializeLoop
  <2>2. index' \in 0..N
    BY <1>3, <1>0 DEF InitializeLoop, FailStartup
  <2> QED
    BY <1>3, <2>1, <2>2, <1>p DEF InitializeLoop, FailStartup, N, FailType
<1>4. CASE RegisterSources
  <2>1. fail' \in FailType
    BY <1>4, <1>0, <1>f, <1>b, <1>m DEF RegisterSources
  <2> QED
    BY <1>4, <2>1, <1>0, <1>p DEF RegisterSources, FailStartup, N, FailType
<1>5. CASE ObserveRunning
  <2>1. fail' \in FailType
    BY <1>5, <1>0, <1>f DEF ObserveRunning
  <2> QED
    BY <1>5, <2>1, <1>0, <1>p DEF ObserveRunning, FailStartup, N, FailType
<1>6. CASE PublishRunning
  BY <1>6, <1>p DEF PublishRunning, N, RuntimeState, Status
<1>7. ASSUME NEW R \in SUBSET (1..N), WaitOnce(R) PROVE TypeOK'
  <2>1. fail' \in FailType
    BY <1>7, <1>0, <1>f DEF WaitOnce
  <2> QED
    BY <1>7, <2>1, <1>p DEF WaitOnce, N, FailType
<1>8. CASE WaitFails
  <2>1. fail' \in FailType
    BY <1>8, <1>0, <1>f, <1>b, <1>m DEF WaitFails
  <2> QED
    BY <1>8, <2>1, <1>p DEF WaitFails, N, FailType
<1>9. CASE CheckStop
  BY <1>9, <1>p DEF CheckStop, N
<1>10. CASE TurnEnds
  BY <1>10, <1>p DEF TurnEnds, N
<1>11. ASSUME NEW i \in 1..N, TickPipeline(i) PROVE TypeOK'
  <2>1. fail' \in FailType
    BY <1>11, <1>0, <1>f, <1>b, <1>m DEF TickPipeline
  <2>2. pipe' \in [Pipelines -> PipeState]
    BY <1>11, <1>q, <1>s DEF TickPipeline
  <2> QED
    BY <1>11, <2>1, <2>2 DEF TickPipeline, N, FailType
<1>12. CASE ReactorThrows
  BY <1>12, <1>p, <1>m DEF ReactorThrows, N
<1>13. CASE MarkExiting
  BY <1>13, <1>p DEF MarkExiting, N
<1>14. CASE AwaitWakes
  BY <1>14, <1>0, <1>p DEF AwaitWakes, NoWakeInFlight, N
<1>15. CASE DrainPipeline
  <2>1. fail' \in FailType
    BY <1>15, <1>0, <1>f, <1>b, <1>m DEF DrainPipeline
  <2>2. index' \in 0..N /\ rpc' \in ReactorPhase
    BY <1>15, <1>0, <1>p DEF DrainPipeline
  <2>3. index \in 1..N
    BY <1>15, <1>0 DEF DrainPipeline
  <2>4. pipe' \in [Pipelines -> PipeState]
    BY <1>15, <2>3, <1>q, <1>s DEF DrainPipeline, StillStopping, PipeState
  <2>5. stopped' \subseteq 1..N
    BY <1>15, <2>3 DEF DrainPipeline
  <2> QED
    BY <1>15, <2>1, <2>2, <2>4, <2>5 DEF DrainPipeline, N, FailType
<1>16. CASE DrainPassEnds
  <2>1. fail' \in FailType
    BY <1>16, <1>0, <1>f, <1>b, <1>m DEF DrainPassEnds
  <2> QED
    BY <1>16, <2>1, <1>0, <1>p DEF DrainPassEnds, N, FailType
<1>17. CASE DrainClockFails
  <2>1. fail' \in FailType
    BY <1>17, <1>0, <1>b DEF DrainClockFails
  <2> QED
    BY <1>17, <2>1, <1>0, <1>p DEF DrainClockFails, N, FailType
<1>18. CASE CancelPipeline
  <2>1. fail' \in FailType
    BY <1>18, <1>0, <1>b, <1>m DEF CancelPipeline, Cancelled
  <2>2. index \in 1..N /\ index' \in 0..N
    BY <1>18, <1>0 DEF CancelPipeline, Cancelled
  <2>3. pipe' \in [Pipelines -> PipeState]
    BY <1>18, <2>2, <1>q, <1>s DEF CancelPipeline, Cancelled
  <2> QED
    BY <1>18, <2>1, <2>2, <2>3 DEF CancelPipeline, Cancelled, N, FailType
<1>19. CASE AllCancelled
  BY <1>19, <1>p DEF AllCancelled, N
<1>20. CASE CloseLoop
  <2> DEFINE closes == {fail} \cup IF loop = "open"
                                   THEN {Blame("reactor", "reactor")} ELSE {}
  <2>1. closes \subseteq FailType
    BY <1>0, <1>b
  <2>2. fail' \in FailType
    BY <1>20, <2>1, <1>f DEF CloseLoop
  <2> QED
    BY <1>20, <2>2, <1>p DEF CloseLoop, N, FailType
<1>21. CASE Finish
  <2>1. SelectedFailure \in Status /\ {"ok", "internal"} \subseteq Status
    BY <1>0, SelectedTyped DEF Status, Failure
  <2> DEFINE final == IF fail.media = "ok" /\ stop_result # "ok"
                      THEN stop_result ELSE SelectedFailure
  <2>2. final \in Status
    BY <2>1
  <2>3. /\ stop_result' = final
        /\ startup_result' \in {startup_result, "internal", final}
        /\ state' \in {"Stopped", "Error"}
        /\ last_failure' \in {last_failure, final}
    BY <1>21 DEF Finish, FinalFailure
  <2>4. state' \in RuntimeState
    BY <2>3 DEF RuntimeState
  <2> HIDE DEF final
  <2>5. {last_failure', stop_result', startup_result'} \subseteq Status
    BY <2>1, <2>2, <2>3
  <2> QED
    BY <1>21, <2>4, <2>5, <1>p DEF Finish, N
<1>22. CASE ThreadEnds
  BY <1>22, <1>p DEF ThreadEnds, N
<1> QED
  BY <1>1, <1>2, <1>3, <1>4, <1>5, <1>6, <1>7, <1>8, <1>9, <1>10, <1>11, <1>12,
     <1>13, <1>14, <1>15, <1>16, <1>17, <1>18, <1>19, <1>20, <1>21, <1>22
     DEF Reactor, Startup, Turn, Exit

------------------------------------------------------------------------------
(***************************************************************************)
(* The wake protocol.                                                      *)
(***************************************************************************)

\* Every step keeps wake_in_flight_ equal to the number of claimed wakes.
LEMMA WakesCountedStep ==
  ASSUME TypeOK, PhaseInv, WakesCounted, Next
  PROVE  WakesCounted'
<1> USE DEF TypeOK, lifecycle, wakeVars, joinVars, loopVars, localVars, callVars,
            shared
<1>1. CASE Reactor
  <2>1. UNCHANGED <<pc, wake_in_flight>>
    BY <1>1 DEF Reactor, Startup, Turn, Exit, StartPipeline, AllStarted,
       InitializeLoop, RegisterSources, ObserveRunning, PublishRunning, WaitOnce,
       WaitFails, CheckStop, TurnEnds, TickPipeline, ReactorThrows, MarkExiting,
       AwaitWakes, DrainPipeline, DrainPassEnds, DrainClockFails, CancelPipeline,
       AllCancelled, CloseLoop, Finish, ThreadEnds
  <2> QED
    BY <2>1 DEF WakesCounted, Wakers
<1>2. ASSUME NEW c \in Callers, Call(c) \/ Return(c) PROVE WakesCounted'
  <2>1. CASE StopDecides(c) /\ pc'[c] = "wake"
    <3>1. c \notin Wakers /\ Wakers' = Wakers \cup {c}
      BY <2>1 DEF StopDecides, StartSettled, NothingToStop, JoinedResult, Wakers
    <3>2. Cardinality(Wakers \cup {c}) = Cardinality(Wakers) + 1
      BY <3>1, WakersFinite, FS_AddElement
    <3> QED
      BY <2>1, <3>1, <3>2 DEF StopDecides, StartSettled, NothingToStop, JoinedResult, WakesCounted
  <2>2. CASE WakeReleased(c)
    <3>1. c \in Wakers /\ Wakers' = Wakers \ {c}
      BY <2>2 DEF WakeReleased, ReleaseWake, Wakers
    <3>2. Cardinality(Wakers \ {c}) = Cardinality(Wakers) - 1
      BY <3>1, WakersFinite, FS_RemoveElement
    <3> QED
      BY <2>2, <3>1, <3>2 DEF WakeReleased, ReleaseWake, WakesCounted
  <2>3. CASE Launch(c) \/ LaunchFails(c)
    <3>1. wake_in_flight = 0
      BY <2>3 DEF Launch, LaunchFails, PhaseInv
    <3>2. Wakers' = Wakers /\ wake_in_flight' = 0
      BY <2>3 DEF Launch, LaunchFails, Wakers
    <3> QED
      BY <3>1, <3>2 DEF WakesCounted
  <2>4. CASE \/ \E p \in Pipelines : RegisterPipeline(c, p)
             \/ StopCalled(c) \/ StartupObserved(c) \/ StartReturns(c)
             \/ StopDecides(c) /\ pc'[c] # "wake"
             \/ Wake(c) \/ JoinReactor(c) \/ JoinThread(c) \/ JoinReleased(c)
             \/ CallReturns(c)
    <3>1. wake_in_flight' = wake_in_flight
      BY <2>4 DEF RegisterPipeline, StopCalled, StartupObserved, StartReturns,
         StopDecides, Wake, JoinReactor, JoinThread, JoinReleased, CallReturns
    <3>2. Wakers' = Wakers
      BY <2>4 DEF Wakers, RegisterPipeline, StopCalled, StartupObserved,
         StartReturns, StopDecides, Wake, JoinReactor, JoinThread, JoinReleased,
         CallReturns
    <3> QED
      BY <3>1, <3>2 DEF WakesCounted
  <2> QED
    BY <1>2, <2>1, <2>2, <2>3, <2>4 DEF Call, Return
<1> QED
  BY <1>1, <1>2 DEF Next

\* No step of a control thread disturbs the phase of the reactor thread.
LEMMA CallerPhaseInv ==
  ASSUME TypeOK, PhaseInv, WakesCounted, NEW c \in Callers, Call(c) \/ Return(c)
  PROVE  PhaseInv'
<1> USE DEF TypeOK, lifecycle, wakeVars, joinVars, loopVars, localVars, callVars,
            PhaseInv, StartupPhase, RunPhase, ExitPhase
<1>1. ASSUME NEW p \in Pipelines, RegisterPipeline(c, p) PROVE PhaseInv'
  BY <1>1 DEF RegisterPipeline
<1>2. CASE Launch(c)
  BY <1>2 DEF Launch
<1>3. CASE LaunchFails(c)
  BY <1>3 DEF LaunchFails
<1>4. CASE StopDecides(c)
  BY <1>4 DEF StopDecides, StartSettled, NothingToStop, JoinedResult, RuntimeState, EndingState
<1>5. CASE WakeReleased(c)
  <2>1. wake_in_flight > 0
    BY <1>5, WakerCounted DEF WakeReleased, ReleaseWake, Wakers
  <2> QED
    BY <1>5, <2>1 DEF WakeReleased, ReleaseWake
<1>6. CASE \/ StopCalled(c) \/ StartupObserved(c) \/ StartReturns(c) \/ Wake(c)
           \/ JoinReactor(c) \/ JoinThread(c) \/ JoinReleased(c) \/ CallReturns(c)
  BY <1>6 DEF StopCalled, StartupObserved, StartReturns, Wake, JoinReactor,
     JoinThread, JoinReleased, CallReturns
<1> QED
  BY <1>1, <1>2, <1>3, <1>4, <1>5, <1>6 DEF Call, Return

\* Every step of the reactor thread leads to a phase whose facts hold.
LEMMA ReactorPhaseInv ==
  ASSUME TypeOK, PhaseInv, Reactor
  PROVE  PhaseInv'
<1> USE DEF TypeOK, lifecycle, wakeVars, joinVars, loopVars, localVars, callVars,
            shared, PhaseInv, StartupPhase, RunPhase, ExitPhase
<1>1. CASE Startup
  <2>1. CASE StartPipeline
    BY <2>1 DEF StartPipeline, FailStartup
  <2>2. CASE AllStarted
    BY <2>2 DEF AllStarted
  <2>3. CASE InitializeLoop
    <3>1. (rpc' = "register" /\ loop' = "open") \/ rpc' = "cancel"
      BY <2>3 DEF InitializeLoop, FailStartup
    <3>2. UNCHANGED <<state, wake_in_flight, reactor_exiting, thread_exited>>
      BY <2>3 DEF InitializeLoop
    <3> QED
      BY <2>3, <3>1, <3>2 DEF InitializeLoop
  <2>4. CASE RegisterSources
    <3>1. (rpc' = "observe" /\ loop' = loop) \/ rpc' = "cancel"
      BY <2>4 DEF RegisterSources, FailStartup
    <3>2. UNCHANGED <<state, wake_in_flight, reactor_exiting, thread_exited>>
      BY <2>4 DEF RegisterSources
    <3> QED
      BY <2>4, <3>1, <3>2 DEF RegisterSources
  <2>5. CASE ObserveRunning
    <3>1. rpc' \in {"publish", "cancel"}
      BY <2>5 DEF ObserveRunning, FailStartup
    <3>2. UNCHANGED <<state, wake_in_flight, reactor_exiting, thread_exited, loop>>
      BY <2>5 DEF ObserveRunning
    <3> QED
      BY <2>5, <3>1, <3>2 DEF ObserveRunning
  <2>6. CASE PublishRunning
    BY <2>6 DEF PublishRunning
  <2> QED
    BY <1>1, <2>1, <2>2, <2>3, <2>4, <2>5, <2>6 DEF Startup
<1>2. CASE Turn
  BY <1>2 DEF Turn, WaitOnce, WaitFails, CheckStop, TurnEnds, TickPipeline
<1>3. CASE Exit
  <2>1. CASE MarkExiting \/ AwaitWakes
    BY <2>1 DEF MarkExiting, AwaitWakes, NoWakeInFlight, AllOk
  <2>2. CASE DrainPipeline \/ DrainPassEnds \/ DrainClockFails
    BY <2>2 DEF DrainPipeline, DrainPassEnds, DrainClockFails
  <2>3. CASE CancelPipeline \/ AllCancelled \/ CloseLoop
    BY <2>3 DEF CancelPipeline, Cancelled, AllCancelled, CloseLoop
  <2>4. CASE Finish
    BY <2>4 DEF Finish
  <2>5. CASE ThreadEnds
    BY <2>5 DEF ThreadEnds
  <2> QED
    BY <1>3, <2>1, <2>2, <2>3, <2>4, <2>5 DEF Exit
<1>4. CASE ReactorThrows
  BY <1>4 DEF ReactorThrows
<1> QED
  BY <1>1, <1>2, <1>3, <1>4 DEF Reactor

\* No write to the eventfd ever races with its close.
LEMMA WakeSafe ==
  ASSUME TypeOK, PhaseInv, WakesCounted
  PROVE  WakeNeedsOpenLoop
<1> SUFFICES ASSUME NEW c \in Callers, pc[c] = "wake" PROVE loop = "open"
  BY DEF WakeNeedsOpenLoop
<1>1. wake_in_flight > 0
  BY WakerCounted DEF Wakers
<1> QED
  BY <1>1 DEF TypeOK, PhaseInv, ReactorPhase, StartupPhase, RunPhase, ExitPhase

------------------------------------------------------------------------------
(***************************************************************************)
(* The join protocol.                                                      *)
(***************************************************************************)

\* The reactor thread touches the join protocol only by ending.
LEMMA ReactorJoinInv ==
  ASSUME TypeOK, PhaseInv, JoinInv, Reactor
  PROVE  JoinInv'
<1> USE DEF TypeOK, lifecycle, wakeVars, joinVars, loopVars, localVars, callVars,
            shared, Joinable
<1>1. CASE ThreadEnds
  BY <1>1 DEF ThreadEnds, JoinInv
<1>2. ASSUME UNCHANGED <<joinVars, callVars, thread>>,
             state' = "Created" => state = "Created",
             rpc \notin {"off", "ended"}, rpc' \notin {"off", "ended"}
      PROVE  JoinInv'
  BY <1>2 DEF JoinInv
<1>3. CASE Startup
  <2>1. /\ UNCHANGED <<joinVars, callVars, thread>>
        /\ state' = "Created" => state = "Created"
    BY <1>3 DEF Startup, StartPipeline, AllStarted, InitializeLoop,
       RegisterSources, ObserveRunning, PublishRunning
  <2>2. rpc \notin {"off", "ended"} /\ rpc' \notin {"off", "ended"}
    BY <1>3 DEF Startup, StartPipeline, AllStarted, InitializeLoop,
       RegisterSources, ObserveRunning, PublishRunning, FailStartup
  <2> QED
    BY <1>2, <2>1, <2>2
<1>4. CASE Turn
  <2>1. /\ UNCHANGED <<joinVars, callVars, thread>>
        /\ state' = "Created" => state = "Created"
        /\ rpc \notin {"off", "ended"} /\ rpc' \notin {"off", "ended"}
    BY <1>4 DEF Turn, WaitOnce, WaitFails, CheckStop, TurnEnds, TickPipeline
  <2> QED
    BY <1>2, <2>1
<1>5. CASE \/ MarkExiting \/ AwaitWakes \/ DrainPipeline \/ DrainPassEnds
           \/ DrainClockFails \/ CancelPipeline \/ AllCancelled \/ CloseLoop
           \/ Finish \/ ReactorThrows
  <2>1. UNCHANGED <<joinVars, callVars, thread>>
    BY <1>5 DEF MarkExiting, AwaitWakes, NoWakeInFlight, DrainPipeline, DrainPassEnds,
       DrainClockFails, CancelPipeline, AllCancelled, CloseLoop, Finish,
       ReactorThrows
  <2>2. state' = "Created" => state = "Created"
    BY <1>5 DEF MarkExiting, AwaitWakes, NoWakeInFlight, DrainPipeline, DrainPassEnds,
       DrainClockFails, CancelPipeline, AllCancelled, CloseLoop, Finish,
       ReactorThrows
  <2>3. rpc \notin {"off", "ended"} /\ rpc' \notin {"off", "ended"}
    BY <1>5 DEF MarkExiting, AwaitWakes, NoWakeInFlight, DrainPipeline, DrainPassEnds,
       DrainClockFails, CancelPipeline, AllCancelled, CloseLoop, Finish,
       ReactorThrows
  <2> QED
    BY <1>2, <2>1, <2>2, <2>3
<1> QED
  BY <1>1, <1>3, <1>4, <1>5 DEF Reactor, Exit

\* Each step of a control thread keeps the claim exclusive.
LEMMA CallerJoinInv ==
  ASSUME TypeOK, PhaseInv, JoinInv, NEW c \in Callers, Call(c) \/ Return(c)
  PROVE  JoinInv'
<1> USE DEF TypeOK, lifecycle, wakeVars, joinVars, loopVars, localVars, callVars,
            Joinable
<1>1. ASSUME NEW p \in Pipelines, RegisterPipeline(c, p) PROVE JoinInv'
  BY <1>1 DEF RegisterPipeline, JoinInv
<1>2. CASE Launch(c)
  BY <1>2 DEF Launch, JoinInv
<1>3. CASE LaunchFails(c)
  BY <1>3 DEF LaunchFails, JoinInv, PhaseInv
<1>4. CASE StopCalled(c)
  BY <1>4 DEF StopCalled, JoinInv
<1>5. CASE StartupObserved(c)
  BY <1>5 DEF StartupObserved, JoinInv
<1>6. CASE StartReturns(c)
  BY <1>6 DEF StartReturns, JoinInv
<1>7. CASE StopDecides(c)
  BY <1>7 DEF StopDecides, StartSettled, NothingToStop, JoinedResult, JoinInv
<1>8. CASE Wake(c)
  BY <1>8 DEF Wake, JoinInv
<1>9. CASE WakeReleased(c)
  BY <1>9 DEF WakeReleased, ReleaseWake, JoinInv
<1>10. CASE JoinReactor(c)
  BY <1>10 DEF JoinReactor, JoinOver, ClaimFree, JoinInv
<1>11. CASE JoinThread(c)
  BY <1>11 DEF JoinThread, JoinInv
<1>12. CASE JoinReleased(c)
  BY <1>12 DEF JoinReleased, ReleaseClaim, JoinInv
<1>13. CASE CallReturns(c)
  BY <1>13 DEF CallReturns, JoinInv
<1> QED
  BY <1>1, <1>2, <1>3, <1>4, <1>5, <1>6, <1>7, <1>8, <1>9, <1>10, <1>11, <1>12,
     <1>13 DEF Call, Return

------------------------------------------------------------------------------
(***************************************************************************)
(* The pipelines and the verdict.                                          *)
(***************************************************************************)
NoFailure == [media |-> "ok", reactor |-> "ok", observer |-> "ok"]

\* Nothing that was a failure in f is forgotten in g.
Grows(f, g) == \A origin \in {"media", "reactor", "observer"} :
                 f[origin] # "ok" => g[origin] # "ok"

\* Recording a failure takes none away.
LEMMA BlameGrows ==
  ASSUME fail \in FailType
  PROVE  /\ \A s \in MediaStatus : /\ Grows(fail, Blame("media", s))
                                   /\ Blame("media", s).media # "ok"
         /\ Grows(fail, Blame("reactor", "reactor"))
         /\ Blame("reactor", "reactor").media = fail.media
         /\ Blame("reactor", "reactor").reactor # "ok"
  BY DEF FailType, Blame, RecordFirst, Grows, MediaStatus

\* What the observer does takes no failure away.
LEMMA ObservedGrows ==
  ASSUME NEW f \in FailType, NEW g \in Observed(f)
  PROVE  Grows(f, g) /\ g.media = f.media
  BY DEF FailType, Observed, RecordFirst, Grows

\* There is a failure when one of the three recorded is not ok.
LEMMA FailureSeen ==
  ASSUME NEW f \in FailType
  PROVE  f # NoFailure <=> (f.media # "ok" \/ f.reactor # "ok" \/ f.observer # "ok")
  BY DEF FailType, NoFailure

\* What the steps of the reactor do to its failures: they grow, but where an
\* exception takes the place of all of them, which is a media failure itself.
LEMMA FailuresGrow ==
  ASSUME TypeOK, TypeOK', Reactor
  PROVE  /\ fail.media # "ok" => fail'.media # "ok"
         /\ ~AllOk => ~AllOk'
<1>0. fail \in FailType /\ fail' \in FailType
  BY DEF TypeOK, FailType
<1>1. SUFFICES fail' = fail \/ Grows(fail, fail') \/ fail'.media # "ok"
  BY <1>0, FailureSeen DEF AllOk, NoFailure, Grows
<1>m. {"media", "cancel", "timeout", "exception"} \subseteq MediaStatus
  BY DEF MediaStatus
<1>b. \A s \in {"media", "cancel", "timeout", "exception"} :
         Blame("media", s) \in FailType /\ Blame("media", s).media # "ok"
  BY <1>0, <1>m, BlameTyped, BlameGrows
<1>r. Blame("reactor", "reactor") \in FailType /\ Grows(fail, Blame("reactor", "reactor"))
  BY <1>0, BlameTyped, BlameGrows
<1>o. \A f \in FailType : \A g \in Observed(f) : Grows(f, g) /\ g.media = f.media
  BY ObservedGrows
<1>t. \A f, g, h : Grows(f, g) /\ Grows(g, h) => Grows(f, h)
  BY DEF Grows
<1>2. CASE UNCHANGED fail
  BY <1>2
<1>3. CASE fail' \in Observed(fail)
  BY <1>0, <1>3, <1>o
<1>4. CASE \E s \in {"media", "cancel", "timeout"} :
             fail' \in Observed(Blame("media", s)) \/ fail' = Blame("media", s)
  BY <1>b, <1>o, <1>4
<1>5. CASE fail' = Blame("reactor", "reactor") \/ fail' \in Observed(Blame("reactor", "reactor"))
  BY <1>5, <1>r, <1>o, <1>t
<1>6. CASE fail' = [media |-> "exception", reactor |-> "ok", observer |-> "ok"]
  BY <1>6
<1>7. CASE Startup
  BY <1>7, <1>2, <1>3, <1>4, <1>5 DEF Startup, StartPipeline, AllStarted, InitializeLoop,
     RegisterSources, ObserveRunning, PublishRunning, localVars
<1>8. CASE Turn
  BY <1>8, <1>2, <1>3, <1>4, <1>5 DEF Turn, WaitOnce, WaitFails, CheckStop, TurnEnds,
     TickPipeline, localVars
<1>9. CASE CloseLoop
  <2>1. \/ fail' = fail \/ fail' \in Observed(fail)
        \/ fail' = Blame("reactor", "reactor") \/ fail' \in Observed(Blame("reactor", "reactor"))
    BY <1>9 DEF CloseLoop
  <2> QED
    BY <2>1, <1>2, <1>3, <1>5
<1>10. CASE \/ MarkExiting \/ AwaitWakes \/ DrainPipeline \/ DrainPassEnds \/ DrainClockFails
            \/ CancelPipeline \/ AllCancelled \/ Finish \/ ThreadEnds
  BY <1>10, <1>2, <1>3, <1>4, <1>5 DEF MarkExiting, AwaitWakes, DrainPipeline, DrainPassEnds,
     DrainClockFails, CancelPipeline, AllCancelled, Finish, ThreadEnds, localVars
<1> QED
  BY <1>6, <1>7, <1>8, <1>9, <1>10 DEF Reactor, Exit, ReactorThrows

\* A control thread changes neither a pipeline nor a failure of the reactor; it
\* adds to the registered ones only before there is a reactor.
LEMMA CallerPipesInv ==
  ASSUME TypeOK, PhaseInv, PipesInv, NEW c \in Callers, Call(c) \/ Return(c)
  PROVE  PipesInv'
<1> USE DEF TypeOK, PipesInv, lifecycle, wakeVars, joinVars, loopVars, localVars, callVars,
            Pipe, N, AllOk
<1>1. ASSUME NEW p \in Pipelines, RegisterPipeline(c, p) PROVE PipesInv'
  <2>1. Len(registered) \in Nat /\ Len(registered') = Len(registered) + 1
    BY <1>1 DEF RegisterPipeline
  <2>2. /\ registered'[Len(registered) + 1] = p
        /\ \A k \in 1..Len(registered) : registered'[k] = registered[k] /\ registered[k] # p
    BY <1>1 DEF RegisterPipeline
  <2>3. \A i, j \in 1..N' : registered'[i] = registered'[j] => i = j
    BY <2>1, <2>2
  <2>4. rpc = "off" /\ UNCHANGED <<rpc, state, index, pipe, fail, stopped>>
    BY <1>1 DEF RegisterPipeline, PhaseInv, ReactorPhase, StartupPhase, RunPhase, ExitPhase
  <2>5. \A k \in 1..N' : pipe'[registered'[k]] = "created"
    BY <1>1, <2>4 DEF RegisterPipeline
  <2> QED
    BY <2>3, <2>4, <2>5
<1>2. CASE Launch(c)
  <2>1. \A k \in 1..N : Pipe(k) \in Pipelines
    OBVIOUS
  <2>2. rpc = "off" /\ rpc' = "start" /\ UNCHANGED <<registered, index, pipe, fail, stopped>>
    BY <1>2 DEF Launch, PhaseInv
  <2> QED
    BY <2>1, <2>2
<1>3. CASE StopDecides(c)
  <2>1. UNCHANGED <<registered, rpc, index, pipe, fail, stopped>>
    BY <1>3 DEF StopDecides
  <2>2. state' = "Starting" => state = "Starting"
    BY <1>3 DEF StopDecides
  <2> QED
    BY <2>1, <2>2, SMTT(60)
<1>4. CASE LaunchFails(c)
  <2>1. rpc = "off" /\ UNCHANGED <<registered, rpc, index, pipe, fail, stopped>>
    BY <1>4 DEF LaunchFails, PhaseInv
  <2> QED
    BY <2>1
<1>5. CASE \/ StopCalled(c) \/ StartupObserved(c) \/ StartReturns(c) \/ Wake(c)
           \/ WakeReleased(c) \/ JoinReactor(c) \/ JoinThread(c) \/ JoinReleased(c)
           \/ CallReturns(c)
  <2>1. UNCHANGED <<registered, state, rpc, index, pipe, fail, stopped>>
    BY <1>5 DEF StopCalled, StartupObserved, StartReturns, Wake, WakeReleased, JoinReactor,
       JoinThread, JoinReleased, CallReturns
  <2> QED
    BY <2>1, SMTT(60)
<1> QED
  BY <1>1, <1>2, <1>3, <1>4, <1>5 DEF Call, Return

\* The reactor thread keeps to its loops: what it leaves behind an index is as
\* the loop's phase says, and an error is recorded in the step that causes it.
LEMMA ReactorPipesInv ==
  ASSUME TypeOK, TypeOK', PhaseInv, PipesInv, Reactor
  PROVE  PipesInv'
<1> USE DEF Pipe
<1>n. N \in Nat /\ N' = N /\ UNCHANGED registered /\ rpc # "off" /\ rpc' # "off"
  BY DEF TypeOK, N, Reactor, Startup, Turn, Exit, StartPipeline, AllStarted, InitializeLoop,
     RegisterSources, ObserveRunning, PublishRunning, WaitOnce, WaitFails, CheckStop, TurnEnds,
     TickPipeline, ReactorThrows, MarkExiting, AwaitWakes, DrainPipeline, DrainPassEnds,
     DrainClockFails, CancelPipeline, AllCancelled, CloseLoop, Finish, ThreadEnds, shared,
     FailStartup
<1>p. /\ pipe \in [Pipelines -> PipeState] /\ \A k \in 1..N : Pipe(k) \in Pipelines
      /\ index \in 0..N /\ stopped \subseteq 1..N
  BY DEF TypeOK, N
<1>d. \A j, k \in 1..N : Pipe(j) = Pipe(k) => j = k
  BY DEF PipesInv, N
<1>f. fail \in FailType /\ fail' \in FailType
  BY DEF TypeOK, FailType
<1>g. (fail.media # "ok" => fail'.media # "ok") /\ (~AllOk => ~AllOk')
  BY FailuresGrow
<1>o. \A f \in FailType : \A g \in Observed(f) : Grows(f, g) /\ g.media = f.media
  BY ObservedGrows
<1>b. \A s \in {"media", "cancel", "timeout"} :
         Blame("media", s) \in FailType /\ Blame("media", s).media # "ok"
  BY <1>f, BlameTyped, BlameGrows DEF MediaStatus
<1>m. \A s \in {"media", "cancel", "timeout"} :
         fail' \in Observed(Blame("media", s)) \/ fail' = Blame("media", s)
           => fail'.media # "ok"
  BY <1>o, <1>b
<1>a. fail'.media # "ok" \/ fail'.reactor # "ok" \/ fail'.observer # "ok" => ~AllOk'
  BY <1>f, FailureSeen DEF AllOk, NoFailure
<1>r. fail' = Blame("reactor", "reactor") => ~AllOk'
  BY <1>f, <1>a, BlameGrows
<1>e. rpc \notin {"drain", "cancel"} =>
        \A k \in 1..N : pipe[Pipe(k)] = "error" => fail'.media # "ok"
  BY <1>g DEF PipesInv
<1>s. SUFFICES
        /\ rpc' = "start" => \A k \in 1..N : k > index' => pipe'[Pipe(k)] = "created"
        /\ rpc' = "drain" => \A k \in stopped' : pipe'[Pipe(k)] = "stopped"
        /\ rpc' = "cancel" =>
             ~AllOk' /\ \A k \in 1..N : k > index' => pipe'[Pipe(k)] \notin {"running", "draining"}
        /\ rpc' \in {"close", "finish", "ending", "ended"} =>
             \A k \in 1..N : pipe'[Pipe(k)] \notin {"running", "draining"}
        /\ \A k \in 1..N : pipe'[Pipe(k)] = "error" =>
             fail'.media # "ok" \/ rpc' = "drain" \/ (rpc' = "cancel" /\ k <= index')
        /\ rpc' \in {"close", "finish"} /\ AllOk' =>
             state' # "Starting" /\ \A k \in 1..N : pipe'[Pipe(k)] = "stopped"
  <2>1. \A i, j \in 1..N' : registered'[i] = registered'[j] => i = j
    BY <1>n, <1>d
  <2> QED
    BY <1>n, <2>1 DEF PipesInv
\* FailStartup leaves only pipelines that were never attempted behind the index
<1>1. CASE StartPipeline
  <2>1. index + 1 \in 1..N /\ rpc = "start"
    BY <1>1, <1>p, <1>n DEF StartPipeline
  <2>2. \A k \in 1..N : k > index + 1 => /\ pipe[Pipe(k)] = "created"
                                        /\ Pipe(k) # Pipe(index + 1)
    BY <2>1, <1>d, <1>p, <1>n DEF PipesInv
  <2>3. CASE /\ rpc' = rpc /\ index' = index + 1
             /\ pipe' = [pipe EXCEPT ![Pipe(index + 1)] = "running"]
    BY <2>1, <2>2, <2>3, <1>p, <1>e
  <2>4. CASE /\ FailStartup(index + 1) /\ fail' \in Observed(Blame("media", "media"))
             /\ pipe' = [pipe EXCEPT ![Pipe(index + 1)] = "error"]
    <3>1. fail'.media # "ok" /\ ~AllOk'
      BY <2>4, <1>m, <1>a
    <3> QED
      BY <2>2, <2>4, <3>1, <1>p DEF FailStartup
  <2> QED
    BY <1>1, <2>3, <2>4 DEF StartPipeline
<1>2. CASE AllStarted \/ PublishRunning \/ CheckStop \/ TurnEnds \/ MarkExiting \/ WaitFails
             \/ ReactorThrows \/ \E R \in SUBSET (1..N) : WaitOnce(R)
  <2>1. /\ UNCHANGED pipe /\ rpc' \in {"initialize", "wait", "check", "tick", "mark", "await"}
        /\ rpc \notin {"drain", "cancel"} \/ fail'.media # "ok"
    BY <1>2 DEF AllStarted, PublishRunning, CheckStop, TurnEnds, MarkExiting, WaitFails,
       ReactorThrows, WaitOnce, localVars
  <2> QED
    BY <2>1, <1>e
<1>3. CASE InitializeLoop \/ RegisterSources \/ ObserveRunning
  <2>1. UNCHANGED pipe /\ rpc \notin {"drain", "cancel"}
    BY <1>3 DEF InitializeLoop, RegisterSources, ObserveRunning
  <2>2. CASE rpc' \in {"register", "observe", "publish"}
    BY <2>1, <2>2, <1>e
  <2>3. CASE FailStartup(N)
    <3>1. ~AllOk'
      <4>1. CASE fail' = Blame("reactor", "reactor") \/ fail' \in Observed(Blame("media", "media"))
        BY <4>1, <1>r, <1>m, <1>a
      <4>2. CASE InitializeLoop
        BY <2>3, <4>1, <4>2 DEF InitializeLoop, FailStartup
      <4>3. CASE RegisterSources
        BY <2>3, <4>1, <4>3 DEF RegisterSources, FailStartup
      <4>4. CASE ObserveRunning
        BY <2>3, <4>4, <1>a DEF ObserveRunning, FailStartup
      <4> QED
        BY <1>3, <4>2, <4>3, <4>4
    <3> QED
      BY <2>1, <2>3, <3>1, <1>e, <1>n DEF FailStartup
  <2> QED
    BY <1>3, <2>2, <2>3 DEF InitializeLoop, RegisterSources, ObserveRunning
<1>4. CASE \E k \in 1..N : TickPipeline(k)
  <2>1. PICK k \in 1..N : TickPipeline(k)
    BY <1>4
  <2>2. rpc = "tick" /\ rpc' = "tick"
    BY <2>1 DEF TickPipeline
  <2>3. CASE UNCHANGED pipe
    BY <2>2, <2>3, <1>e
  <2>4. CASE fail' \in Observed(Blame("media", "media"))
    BY <2>2, <2>4, <1>m
  <2> QED
    BY <2>1, <2>3, <2>4 DEF TickPipeline
<1>5. CASE AwaitWakes
  <2>1. rpc = "await" /\ UNCHANGED pipe /\ stopped' = {} /\ index' = N /\ fail' = fail
    BY <1>5 DEF AwaitWakes
  <2>2. rpc' = "drain" \/ (rpc' = "cancel" /\ ~AllOk')
    BY <1>5, <1>g DEF AwaitWakes
  <2> QED
    BY <2>1, <2>2, <1>e, <1>n
\* A drain that fails leaves every pipeline to be cancelled
<1>6. CASE DrainPipeline
  <2>1. index \in 1..N /\ rpc = "drain"
    BY <1>6, <1>p, <1>n DEF DrainPipeline
  <2>2. \A k \in stopped : pipe[Pipe(k)] = "stopped"
    BY <2>1 DEF PipesInv
  <2>3. CASE rpc' = rpc /\ stopped' = stopped /\ UNCHANGED pipe
    BY <2>1, <2>2, <2>3, <1>e
  <2>4. CASE /\ rpc' = rpc /\ stopped' \in {stopped, stopped \cup {index}} /\ index \notin stopped
             /\ \E s \in PipeState : /\ pipe' = [pipe EXCEPT ![Pipe(index)] = s]
                                     /\ stopped' # stopped => s = "stopped"
    <3>1. \A k \in stopped : Pipe(k) # Pipe(index)
      BY <2>1, <2>4, <1>d, <1>p
    <3> QED
      BY <2>1, <2>2, <2>4, <3>1, <1>p
  <2>5. CASE rpc' = "cancel" /\ index' = N /\ fail' \in Observed(Blame("media", "media"))
    BY <2>5, <1>m, <1>a, <1>n
  <2>6. stopped' = stopped \cup {index} /\ index \notin stopped => stopped' # stopped
    OBVIOUS
  <2> QED
    BY <1>6, <2>3, <2>4, <2>5, <2>6 DEF DrainPipeline, StillStopping, PipeState
<1>7. CASE DrainPassEnds
  <2>1. UNCHANGED <<pipe, stopped>> /\ rpc = "drain"
    BY <1>7 DEF DrainPassEnds
  <2>2. \A k \in stopped : pipe[Pipe(k)] = "stopped"
    BY <2>1 DEF PipesInv
  <2>3. CASE AllStopped /\ rpc' = "close"
    <3>1. state' = state /\ state # "Starting"
      BY <1>7, <2>1 DEF DrainPassEnds, PhaseInv, shared, lifecycle
    <3> QED
      BY <2>1, <2>2, <2>3, <3>1, <1>e DEF AllStopped
  <2>4. CASE rpc' = rpc
    BY <2>1, <2>2, <2>4, <1>e
  <2>5. CASE rpc' = "cancel" /\ index' = N /\ fail' \in Observed(Blame("media", "timeout"))
    BY <2>5, <1>m, <1>a, <1>n
  <2> QED
    BY <1>7, <2>3, <2>4, <2>5 DEF DrainPassEnds
<1>8. CASE DrainClockFails
  <2>1. rpc' = "cancel" /\ index' = N /\ ~AllOk' /\ UNCHANGED pipe
    BY <1>8, <1>r DEF DrainClockFails
  <2> QED
    BY <2>1, <1>e, <1>n
<1>9. CASE CancelPipeline
  <2>1. /\ index \in 1..N /\ rpc = "cancel" /\ rpc' = "cancel" /\ index' = index - 1 /\ ~AllOk'
    BY <1>9, <1>p, <1>n, <1>g DEF CancelPipeline, PipesInv
  <2>2. \A k \in 1..N : k > index => pipe[Pipe(k)] \notin {"running", "draining"}
    BY <2>1 DEF PipesInv
  <2>3. PICK s \in {"stopped", "error"} : /\ pipe' = [pipe EXCEPT ![Pipe(index)] = s]
                                          /\ s = "error" => fail' = Blame("media", "cancel")
    BY <1>9 DEF CancelPipeline, Cancelled
  <2>4. \A k \in 1..N : k > index - 1 => k = index \/ k > index
    BY <2>1, <1>n
  <2>5. \A k \in 1..N : k > index - 1 => pipe'[Pipe(k)] \notin {"running", "draining"}
    BY <2>2, <2>3, <2>4, <1>p
  <2>6. \A k \in 1..N : pipe'[Pipe(k)] = "error" => fail'.media # "ok" \/ k <= index - 1
    <3> SUFFICES ASSUME NEW k \in 1..N, pipe'[Pipe(k)] = "error", k > index - 1
                 PROVE  fail'.media # "ok"
      BY <2>1, <1>n
    <3>1. CASE s = "error"
      BY <2>3, <3>1, <1>m
    <3>2. CASE s # "error"
      <4>1. pipe[Pipe(k)] = "error" /\ k > index
        BY <2>1, <2>3, <2>4, <3>2, <1>p
      <4> QED
        BY <2>1, <4>1, <1>g, <1>n DEF PipesInv
    <3> QED
      BY <3>1, <3>2
  <2> QED
    BY <2>1, <2>5, <2>6
<1>10. CASE AllCancelled
  <2>1. /\ rpc = "cancel" /\ index = 0 /\ rpc' = "close" /\ UNCHANGED pipe /\ ~AllOk'
    BY <1>10, <1>g DEF AllCancelled, localVars, PipesInv
  <2> QED
    BY <2>1, <1>g, <1>n DEF PipesInv
<1>11. CASE CloseLoop \/ Finish \/ ThreadEnds
  <2>1. /\ UNCHANGED pipe
        /\ \/ rpc = "close" /\ rpc' = "finish" /\ state' = state
           \/ rpc \in {"finish", "ending"} /\ rpc' \in {"ending", "ended"}
    BY <1>11 DEF CloseLoop, Finish, ThreadEnds, localVars, shared, lifecycle
  <2> QED
    BY <2>1, <1>e, <1>g, <1>n DEF PipesInv
<1> QED
  BY <1>1, <1>2, <1>3, <1>4, <1>5, <1>6, <1>7, <1>8, <1>9, <1>10, <1>11
     DEF Reactor, Startup, Turn, Exit

\* What a control thread holds or returns agrees with the verdict: it reads it
\* late, or has read it when it was final.
LEMMA CallerVerdictInv ==
  ASSUME TypeOK, WakesCounted, PhaseInv, JoinInv, VerdictInv,
         NEW c \in Callers, Call(c) \/ Return(c)
  PROVE  VerdictInv'
<1> USE DEF TypeOK, lifecycle, wakeVars, joinVars, loopVars, localVars, callVars, Pipe, N
<1>1. ASSUME NEW p \in Pipelines, RegisterPipeline(c, p) PROVE VerdictInv'
  <2>1. rpc = "off"
    BY <1>1 DEF RegisterPipeline, PhaseInv
  <2> QED
    BY <1>1, <2>1 DEF RegisterPipeline, VerdictInv
<1>2. CASE Launch(c)
  <2>1. \A d \in Callers : pc'[d] \in {"idle", "stopEntry", "startWait"}
    BY <1>2 DEF Launch, JoinInv
  <2> QED
    BY <1>2, <2>1 DEF Launch, VerdictInv, InJoin
<1>3. CASE LaunchFails(c)
  BY <1>3 DEF LaunchFails, VerdictInv, PhaseInv
<1>4. CASE StopDecides(c)
  <2>1. CASE rpc = "off"
    BY <1>4, <2>1 DEF StopDecides, VerdictInv
  <2>2. CASE rpc # "off"
    <3>1. state # "Created" /\ state # "Starting"
      BY <1>4, <2>2 DEF StopDecides, StartSettled, PhaseInv
    <3>2. rpc \in {"ending", "ended"} => NothingToStop
      BY <1>4 DEF NothingToStop, PhaseInv
    <3>3. state = "Error" => rpc \in {"ending", "ended"}
      BY <2>2 DEF PhaseInv, ReactorPhase, StartupPhase, RunPhase, ExitPhase
    <3>4. /\ UNCHANGED <<stop_result, startup_result, startup_completed, last_failure,
                       thread_exited, rpc, loop, pipe, registered, fail, stop_returns,
                       start_returns>>
          /\ state' = state \/ (state' = "Stopping" /\ ~NothingToStop)
      BY <1>4, <3>1 DEF StopDecides
    <3>5. /\ pc' \in {[pc EXCEPT ![c] = "join"], [pc EXCEPT ![c] = "wake"]}
          /\ out' = [out EXCEPT ![c] = [call |-> "stop", result |-> "latest"]]
             \/ (out' = [out EXCEPT ![c] = [call |-> "stop", result |-> stop_result]]
                  /\ state = "Error")
      BY <1>4 DEF StopDecides, JoinedResult
    <3>6. \A d \in Callers : pc'[d] \in InJoin =>
             \/ out'[d].result = "latest"
             \/ thread_exited /\ out'[d].result = stop_result
      <4>1. state = "Error" => thread_exited
        BY <2>2, <3>3 DEF PhaseInv
      <4> TAKE d \in Callers
      <4>2. CASE d = c
        BY <3>5, <4>1, <4>2
      <4>3. CASE d # c
        BY <2>2, <3>5, <4>3 DEF VerdictInv
      <4> QED
        BY <4>2, <4>3
    <3>7. \A d \in Callers : pc'[d] = "startRead" => startup_completed
      BY <3>5 DEF VerdictInv
    <3> QED
      BY <2>2, <3>1, <3>2, <3>4, <3>6, <3>7 DEF VerdictInv
  <2> QED
    BY <2>1, <2>2
<1>5. CASE StartReturns(c)
  <2>1. rpc # "off" /\ startup_result # "ok" => thread_exited /\ startup_result = stop_result
    BY <1>5 DEF StartReturns, VerdictInv, PhaseInv
  <2>2. CASE startup_result = "ok"
    BY <1>5, <2>2 DEF StartReturns, VerdictInv, InJoin
  <2>3. CASE startup_result # "ok"
    BY <1>5, <2>1, <2>3 DEF StartReturns, VerdictInv, InJoin
  <2> QED
    BY <2>2, <2>3
<1>6. CASE WakeReleased(c)
  <2>1. wake_in_flight > 0
    BY <1>6, WakerCounted DEF WakeReleased, Wakers
  <2>2. rpc \notin {"finish", "ending", "ended"}
    BY <2>1 DEF PhaseInv, ExitPhase
  <2>3. ~thread_exited \/ rpc = "off"
    BY <2>2 DEF VerdictInv
  <2>4. \A d \in Callers : pc'[d] \in InJoin => out'[d].result = out[d].result \/ d = c
    BY <1>6 DEF WakeReleased
  <2>5. out'[c].result = "latest"
    BY <1>6 DEF WakeReleased, Results
  <2>6. \A d \in Callers : pc'[d] # pc[d] => d = c /\ pc'[d] = "join"
    BY <1>6 DEF WakeReleased
  <2> QED
    BY <1>6, <2>2, <2>3, <2>4, <2>5, <2>6 DEF WakeReleased, VerdictInv
<1>7. CASE Wake(c)
  <2>1. \A d \in Callers : d # c => pc'[d] = pc[d] /\ out'[d] = out[d]
    BY <1>7 DEF Wake
  <2>2. pc'[c] = "woken"
    BY <1>7 DEF Wake
  <2> QED
    BY <1>7, <2>1, <2>2 DEF Wake, VerdictInv, InJoin
<1>8. CASE CallReturns(c)
  <2> DEFINE r == IF out[c].result = "latest" THEN stop_result ELSE out[c].result
  <2>1. rpc # "off" => r = stop_result
    BY <1>8 DEF CallReturns, VerdictInv, InJoin
  <2>2. /\ stop_returns' \subseteq stop_returns \cup {r}
        /\ start_returns' \subseteq start_returns \cup {r}
    BY <1>8 DEF CallReturns
  <2>3. rpc # "off" => /\ stop_returns' \subseteq stop_returns \cup {stop_result}
                       /\ start_returns' \subseteq start_returns \cup {stop_result}
    BY <2>1, <2>2
  <2>4. \A d \in Callers : pc'[d] # "idle" => pc'[d] = pc[d] /\ out'[d] = out[d]
    BY <1>8 DEF CallReturns
  <2> QED
    BY <1>8, <2>3, <2>4 DEF CallReturns, VerdictInv, InJoin
<1>9. CASE StopCalled(c) \/ StartupObserved(c) \/ JoinReactor(c) \/ JoinThread(c) \/ JoinReleased(c)
  <2>1. /\ UNCHANGED <<lifecycle, loop, rpc, registered, pipe, fail, out, stop_returns,
                       start_returns>>
        /\ \A d \in Callers : pc'[d] \in InJoin => pc[d] \in InJoin
        /\ \A d \in Callers : pc'[d] = "startRead" => pc[d] = "startRead" \/ startup_completed
    BY <1>9 DEF StopCalled, StartupObserved, JoinReactor, JoinThread, JoinReleased, InJoin
  <2> QED
    BY <2>1 DEF VerdictInv
<1> QED
  BY <1>1, <1>2, <1>3, <1>4, <1>5, <1>6, <1>7, <1>8, <1>9 DEF Call, Return

\* The reactor gives its verdict in one step, when nobody has returned, and
\* changes nothing of it afterwards.
LEMMA ReactorVerdictInv ==
  ASSUME TypeOK, TypeOK', PhaseInv, PipesInv, JoinInv, VerdictInv, Reactor
  PROVE  VerdictInv'
<1> USE DEF lifecycle, wakeVars, joinVars, loopVars, localVars, callVars, shared
<1>1. CASE Finish
  <2>1. FinalFailure # "ok" <=> stop_result' # "ok"
    BY <1>1 DEF Finish
  <2>2. /\ rpc = "finish" /\ rpc' = "ending" /\ thread_exited' /\ startup_completed'
        /\ loop = "closed" /\ UNCHANGED <<loop, pc, out, stop_returns, start_returns, fail,
                                          pipe, registered>>
    BY <1>1 DEF Finish, VerdictInv
  <2>3. stop_returns = {} /\ start_returns \ {"ok"} = {}
    BY <2>2 DEF JoinInv, Joinable
  <2>4. fail \in FailType
    BY DEF TypeOK, FailType
  <2>5. FinalFailure = "ok" => AllOk /\ stop_result = "ok"
    BY <2>4, FailureSeen DEF FinalFailure, SelectedFailure, AllOk, NoFailure
  <2>6. stop_result' = "ok" => state # "Starting" /\ \A k \in 1..N : pipe[Pipe(k)] = "stopped"
    BY <2>1, <2>2, <2>5 DEF PipesInv
  <2>7. fail.media # "ok" => stop_result' = fail.media
    BY <1>1, <2>4 DEF Finish, FinalFailure, SelectedFailure
  <2>8. startup_result' \in {"ok", stop_result'}
    <3>1. CASE startup_completed
      BY <1>1, <2>2, <3>1 DEF Finish, VerdictInv
    <3>2. CASE ~startup_completed
      <4>1. state = "Starting"
        BY <2>2, <3>2 DEF VerdictInv
      <4> QED
        BY <1>1, <2>6, <3>2, <4>1 DEF Finish
    <3> QED
      BY <3>1, <3>2
  <2>9. /\ state' = "Stopped" => stop_result' = "ok"
        /\ state' = "Error" => last_failure' = stop_result' /\ stop_result' # "ok"
    BY <1>1 DEF Finish
  <2>10. \A c \in Callers : pc[c] \in InJoin => out[c].result = "latest"
    BY <2>2 DEF VerdictInv
  <2>11. N' = N /\ \A k \in 1..N : Pipe(k)' = Pipe(k)
    BY <2>2 DEF N, Pipe
  <2> QED
    BY <2>2, <2>3, <2>6, <2>7, <2>8, <2>9, <2>10, <2>11 DEF VerdictInv, N, Pipe
<1>2. CASE ThreadEnds
  BY <1>2 DEF ThreadEnds, VerdictInv, N, Pipe
<1>3. CASE PublishRunning
  <2>1. rpc = "publish" /\ rpc' = "wait" /\ state' = "Running" /\ startup_result' = "ok"
        /\ startup_completed' /\ UNCHANGED <<thread_exited, pc, out, stop_result>>
    BY <1>3 DEF PublishRunning
  <2> QED
    BY <2>1 DEF VerdictInv
<1>4. ASSUME UNCHANGED <<lifecycle, pc, out>>, rpc \notin {"off", "finish", "ending", "ended"},
             rpc' \notin {"off", "ending", "ended"}, rpc' = "finish" => loop' = "closed"
      PROVE  VerdictInv'
  BY <1>4 DEF VerdictInv
<1>5. CASE CloseLoop
  BY <1>4, <1>5 DEF CloseLoop
<1>6. CASE StartPipeline \/ AllStarted \/ InitializeLoop \/ RegisterSources \/ ObserveRunning
  BY <1>4, <1>6 DEF StartPipeline, AllStarted, InitializeLoop, RegisterSources, ObserveRunning,
     FailStartup
<1>7. CASE Turn \/ ReactorThrows
  BY <1>4, <1>7 DEF Turn, WaitOnce, WaitFails, CheckStop, TurnEnds, TickPipeline, ReactorThrows
<1>8. CASE \/ MarkExiting \/ AwaitWakes \/ DrainPipeline \/ DrainPassEnds \/ DrainClockFails
           \/ CancelPipeline \/ AllCancelled
  BY <1>4, <1>8 DEF MarkExiting, AwaitWakes, DrainPipeline, DrainPassEnds, DrainClockFails,
     CancelPipeline, AllCancelled
<1> QED
  BY <1>1, <1>2, <1>3, <1>5, <1>6, <1>7, <1>8 DEF Reactor, Startup, Exit

------------------------------------------------------------------------------
(***************************************************************************)
(* The theorems.                                                           *)
(***************************************************************************)
IInv == TypeOK /\ WakesCounted /\ PhaseInv /\ JoinInv /\ PipesInv /\ VerdictInv

\* The invariant holds at the beginning.
LEMMA InitIInv == Init => IInv
<1> SUFFICES ASSUME Init PROVE IInv
  OBVIOUS
<1> USE DEF Init
<1>1. TypeOK
  <2>1. registered \in Seq(Pipelines) /\ N = 0
    <3>1. registered = <<>>
      OBVIOUS
    <3>2. <<>> \in Seq(Pipelines) /\ Len(<<>>) = 0
      OBVIOUS
    <3> QED
      BY <3>1, <3>2, Zenon DEF N
  <2>2. fail \in FailType
    BY DEF FailType
  <2>3. pipe \in [Pipelines -> PipeState] /\ pc \in [Callers -> CallerPhase]
    BY DEF PipeState, CallerPhase
  <2>4. out \in [Callers -> Results]
    BY DEF Results, NoResult, Status
  <2>5. state \in RuntimeState /\ rpc \in ReactorPhase
    BY DEF RuntimeState, ReactorPhase
  <2>6. {last_failure, stop_result, startup_result} \subseteq Status
    BY DEF Status
  <2>7. /\ {startup_completed, thread_exited, stop_requested, reactor_exiting,
           join_claimed, join_completed, eventfd, observed} \subseteq BOOLEAN
        /\ stop_returns \subseteq Status /\ start_returns \subseteq Status
    OBVIOUS
  <2>8. index \in 0..N /\ ready \subseteq 1..N /\ stopped \subseteq 1..N
    BY <2>1
  <2> QED
    BY <2>1, <2>2, <2>3, <2>4, <2>5, <2>6, <2>7, <2>8 DEF TypeOK, FailType
<1>2. WakesCounted
  <2>1. Wakers = {}
    BY DEF Wakers
  <2> QED
    BY <2>1, FS_EmptySet DEF WakesCounted
<1>3. PhaseInv
  BY DEF PhaseInv, StartupPhase, RunPhase, ExitPhase
<1>4. JoinInv
  BY DEF JoinInv, Joinable
<1>5. N = 0
  <2>1. registered = <<>> /\ Len(<<>>) = 0
    OBVIOUS
  <2> QED
    BY <2>1, Zenon DEF N
<1>6. PipesInv
  BY <1>5 DEF PipesInv
<1>7. VerdictInv
  BY <1>5 DEF VerdictInv, InJoin
<1> QED
  BY <1>1, <1>2, <1>3, <1>4, <1>6, <1>7 DEF IInv

\* The invariant is inductive.
LEMMA StepIInv == IInv /\ [Next]_vars => IInv'
<1> SUFFICES ASSUME IInv, [Next]_vars PROVE IInv'
  OBVIOUS
<1> USE DEF IInv
<1>1. CASE Reactor
  <2>1. WakesCounted'
    BY <1>1, WakesCountedStep DEF Next
  <2> QED
    BY <1>1, <2>1, ReactorTyped, ReactorPhaseInv, ReactorJoinInv, ReactorPipesInv,
       ReactorVerdictInv
<1>2. ASSUME NEW c \in Callers, Call(c) \/ Return(c) PROVE IInv'
  <2>1. WakesCounted'
    BY <1>2, WakesCountedStep DEF Next
  <2> QED
    BY <1>2, <2>1, CallerTyped, CallerPhaseInv, CallerJoinInv, CallerPipesInv,
       CallerVerdictInv
<1>3. CASE UNCHANGED vars
  BY <1>3 DEF vars, lifecycle, wakeVars, joinVars, loopVars, localVars, callVars,
     TypeOK, WakesCounted, Wakers, PhaseInv, JoinInv, Joinable, PipesInv, VerdictInv,
     AllOk, Pipe, N
<1> QED
  BY <1>1, <1>2, <1>3 DEF Next

\* The inductive invariant holds in every reachable state.
THEOREM Invariance == Spec => []IInv
  BY InitIInv, StepIInv, PTL DEF Spec

\* Every variable of the runtime keeps its type.
THEOREM TypeCorrect == Spec => []TypeOK
<1>1. IInv => TypeOK
  BY DEF IInv
<1> QED
  BY <1>1, Invariance, PTL

\* stop() never writes to an eventfd the reactor thread has closed.
THEOREM WakeSafety == Spec => []WakeNeedsOpenLoop
<1>1. IInv => WakeNeedsOpenLoop
  BY WakeSafe DEF IInv
<1> QED
  BY <1>1, Invariance, PTL

\* The reactor thread is joined by one caller, once.
THEOREM JoinSafety == Spec => []SingleJoinOwner
<1>1. IInv => SingleJoinOwner
  BY DEF IInv, JoinInv, SingleJoinOwner
<1> QED
  BY <1>1, Invariance, PTL

\* stop(), and a start() that failed, return only once the thread is joined.
THEOREM JoinBeforeReturn == Spec => []ReturnedMeansJoined
<1>1. IInv => ReturnedMeansJoined
  BY DEF IInv, JoinInv, ReturnedMeansJoined
<1> QED
  BY <1>1, Invariance, PTL

\* Once the run has given its verdict it has left nothing behind: the loop is
\* closed, no wake is in flight, no pipeline is active, and what every stop()
\* and failed start() returns is the one recorded result.
THEOREM ExitSafety == Spec => []ExitLeavesNothing
<1>1. IInv => ExitLeavesNothing
  <2> SUFFICES ASSUME IInv, thread_exited, rpc # "off" PROVE ExitLeavesNothing
    BY DEF ExitLeavesNothing
  <2> USE DEF IInv
  <2>1. rpc \in {"ending", "ended"}
    BY DEF VerdictInv
  <2>2. loop = "closed" /\ wake_in_flight = 0
    BY <2>1 DEF PhaseInv, VerdictInv
  <2>3. \A k \in 1..N : registered[k] \in Pipelines
    BY DEF TypeOK, N
  <2>4. \A k \in 1..N : pipe[registered[k]] \notin {"running", "draining"}
    BY <2>1 DEF PipesInv, Pipe
  <2>5. fail.media # "ok" => stop_result = fail.media
    BY <2>1 DEF VerdictInv
  <2>6. (\E k \in 1..N : pipe[registered[k]] = "error") => stop_result \in MediaStatus
    BY <2>1, <2>3, <2>5 DEF PipesInv, Pipe, TypeOK
  <2>7. state = "Stopped" => \A k \in 1..N : pipe[registered[k]] = "stopped"
    BY <2>1 DEF VerdictInv, Pipe
  <2>8. /\ state = "Error" => last_failure = stop_result /\ stop_result # "ok"
        /\ stop_returns \cup (start_returns \ {"ok"}) \subseteq {stop_result}
    BY <2>1 DEF VerdictInv
  <2> QED
    BY <2>2, <2>4, <2>5, <2>6, <2>7, <2>8 DEF ExitLeavesNothing
<1> QED
  BY <1>1, Invariance, PTL
==============================================================================
