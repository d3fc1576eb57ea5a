--------------------------- MODULE PlatformRuntime ---------------------------
(***************************************************************************)
(* LinuxPlatformRuntime: the object that owns the single reactor thread.   *)
(* Any number of control threads (Callers) call register_pipeline, start   *)
(* and stop; the reactor thread starts the pipelines, waits on the event   *)
(* loop, ticks ready pipelines and, when it leaves, drains or cancels them *)
(* and closes the loop.                                                    *)
(*                                                                         *)
(* One action is one critical section of mutex_, or one call made outside  *)
(* of it.  Condition variables are guards: every wait in the code re-tests *)
(* its predicate under the lock, and every change of a tested variable is  *)
(* followed by notify_all.                                                 *)
(*                                                                         *)
(* Pipelines are reduced to the states MediaPipeline can be left in, the   *)
(* event loop to its two descriptors and the eventfd's readiness, and a    *)
(* Status to the origin that produced it.                                  *)
(***************************************************************************)
EXTENDS Naturals, Sequences, FiniteSets

CONSTANTS
  Callers,       \* control threads
  Pipelines,     \* MediaPipeline objects callers may register
  Sources,       \* LinuxWaitSource objects
  SourcesOf,     \* the wait sources a caller passes with each pipeline
  DrainPasses,   \* drain passes that fit before stop_timeout_ms has elapsed
  WakeMayFail,   \* whether write(eventfd) can fail
  ObserverMayFail \* whether the runtime observer can report a failure

ASSUME CallersAssumption == IsFiniteSet(Callers)
ASSUME PipelinesAssumption == IsFiniteSet(Pipelines)
ASSUME SourcesAssumption == SourcesOf \in [Pipelines -> SUBSET Sources]
ASSUME DrainAssumption == DrainPasses \in Nat
ASSUME FlagAssumption == WakeMayFail \in BOOLEAN /\ ObserverMayFail \in BOOLEAN

VARIABLES
  \* Impl's fields, all guarded by mutex_
  state, last_failure, stop_result, startup_result, startup_completed,
  thread_exited, stop_requested, reactor_exiting, wake_in_flight,
  join_claimed, join_completed, registered,
  \* the std::thread object and the event loop's descriptors
  thread, loop, eventfd,
  \* the reactor thread: program counter, loop index, local failures
  rpc, index, ready, stopped, passes, fail, observed, pipe,
  \* the control threads: program counter, pending result; returned results
  pc, out, stop_returns, start_returns

lifecycle == <<state, last_failure, stop_result, startup_result,
               startup_completed, thread_exited>>
wakeVars  == <<stop_requested, reactor_exiting, wake_in_flight>>
joinVars  == <<join_claimed, join_completed>>
loopVars  == <<loop, eventfd>>
localVars == <<index, ready, stopped, passes, fail, observed, pipe>>
callVars  == <<pc, out, stop_returns, start_returns>>
vars == <<lifecycle, wakeVars, joinVars, registered, thread, loopVars,
          rpc, localVars, callVars>>

------------------------------------------------------------------------------
RuntimeState == {"Created", "Starting", "Running", "Stopping", "Stopped", "Error"}
EndingState  == {"Stopping", "Stopped", "Error"}
MediaStatus  == {"media", "cancel", "timeout", "exception"}
Failure      == MediaStatus \cup {"reactor", "observer", "wake", "spawn", "internal"}
Status       == {"ok"} \cup Failure
PipeState    == {"created", "running", "draining", "stopped", "error"}

StartupPhase == {"start", "initialize", "register", "observe", "publish"}
RunPhase     == {"wait", "check", "tick", "mark"}
ExitPhase    == {"drain", "pass", "cancel", "close", "finish"}
ReactorPhase == {"off", "await", "ending", "ended"}
                  \cup StartupPhase \cup RunPhase \cup ExitPhase
CallerPhase  == {"idle", "startWait", "startRead", "stopEntry", "wake", "woken",
                 "join", "joining", "joinDone", "joined"}

RecordFirst(candidate, first) == IF first = "ok" THEN candidate ELSE first

Blame(origin, s) == [fail EXCEPT ![origin] = RecordFirst(s, @)]

SelectedFailure ==
  IF fail.media # "ok" THEN fail.media
  ELSE IF fail.reactor # "ok" THEN fail.reactor
  ELSE fail.observer

AllOk == fail = [media |-> "ok", reactor |-> "ok", observer |-> "ok"]

\* What one or more observer calls add to the failures f
Observed(f) ==
  {f} \cup IF ObserverMayFail
           THEN {[f EXCEPT !.observer = RecordFirst("observer", @)]} ELSE {}

\* What a caller returns once the thread is joined: the result it already read,
\* or, for "latest", the stop_result_ it reads then
Results  == [call : {"start", "stop"}, result : Status \cup {"latest"}]
NoResult == [call |-> "stop", result |-> "ok"]

Joinable == thread \in {"live", "ended"}

Init ==
  /\ state = "Created" /\ last_failure = "ok" /\ stop_result = "ok"
  /\ startup_result = "ok" /\ startup_completed = FALSE
  /\ thread_exited = FALSE /\ stop_requested = FALSE
  /\ reactor_exiting = FALSE /\ wake_in_flight = 0
  /\ join_claimed = FALSE /\ join_completed = FALSE
  /\ registered = <<>> /\ thread = "none" /\ loop = "closed" /\ eventfd = FALSE
  /\ rpc = "off" /\ index = 0 /\ ready = {} /\ stopped = {} /\ passes = 0
  /\ fail = [media |-> "ok", reactor |-> "ok", observer |-> "ok"]
  /\ observed = FALSE /\ pipe = [p \in Pipelines |-> "created"]
  /\ pc = [c \in Callers |-> "idle"] /\ out = [c \in Callers |-> NoResult]
  /\ stop_returns = {} /\ start_returns = {}

------------------------------------------------------------------------------
(***************************************************************************)
(* Control threads.                                                        *)
(***************************************************************************)
RegisteredSources == UNION {SourcesOf[registered[i]] : i \in DOMAIN registered}

\* register_pipeline: the calls that are rejected leave everything unchanged
RegisterPipeline(c, p) ==
  /\ pc[c] = "idle"
  /\ state = "Created"
  /\ SourcesOf[p] # {}
  /\ \A i \in DOMAIN registered : registered[i] # p
  /\ SourcesOf[p] \cap RegisteredSources = {}
  /\ registered' = Append(registered, p)
  /\ UNCHANGED <<lifecycle, wakeVars, joinVars, thread, loopVars, rpc,
                 localVars, callVars>>

\* start() in any state but Created, or with nothing registered, returns at once
Launch(c) ==
  /\ pc[c] = "idle"
  /\ state = "Created"
  /\ registered # <<>>
  /\ thread_exited' = FALSE
  /\ stop_requested' = FALSE /\ reactor_exiting' = FALSE
  /\ wake_in_flight' = 0
  /\ join_claimed' = FALSE /\ join_completed' = FALSE
  /\ state' = "Starting" /\ stop_result' = "ok"
  /\ startup_result' = "internal" /\ startup_completed' = FALSE
  /\ thread' = "live" /\ rpc' = "start"
  /\ pc' = [pc EXCEPT ![c] = "startWait"]
  /\ UNCHANGED <<last_failure, registered, loopVars, localVars, out,
                 stop_returns, start_returns>>

\* std::thread's constructor throws: the runtime is left in Error, thread-less
LaunchFails(c) ==
  /\ pc[c] = "idle"
  /\ state = "Created"
  /\ registered # <<>>
  /\ state' = "Error" /\ thread_exited' = TRUE /\ startup_completed' = TRUE
  /\ last_failure' = "spawn" /\ stop_result' = "spawn"
  /\ startup_result' = "spawn"
  /\ stop_requested' = FALSE /\ reactor_exiting' = FALSE
  /\ wake_in_flight' = 0
  /\ join_claimed' = FALSE /\ join_completed' = FALSE
  /\ start_returns' = start_returns \cup {"spawn"}
  /\ UNCHANGED <<registered, thread, loopVars, rpc, localVars, pc, out,
                 stop_returns>>

StartupObserved(c) ==
  /\ pc[c] = "startWait"
  /\ startup_completed
  /\ pc' = [pc EXCEPT ![c] = "startRead"]
  /\ UNCHANGED <<lifecycle, wakeVars, joinVars, registered, thread, loopVars,
                 rpc, localVars, out, stop_returns, start_returns>>

StartReturns(c) ==
  /\ pc[c] = "startRead"
  /\ IF startup_result = "ok"
     THEN /\ pc' = [pc EXCEPT ![c] = "idle"]
          /\ start_returns' = start_returns \cup {"ok"}
          /\ UNCHANGED out
     ELSE /\ pc' = [pc EXCEPT ![c] = "join"]
          /\ out' = [out EXCEPT ![c] = [call |-> "start", result |-> startup_result]]
          /\ UNCHANGED start_returns
  /\ UNCHANGED <<lifecycle, wakeVars, joinVars, registered, thread, loopVars,
                 rpc, localVars, stop_returns>>

StopCalled(c) ==
  /\ pc[c] = "idle"
  /\ pc' = [pc EXCEPT ![c] = "stopEntry"]
  /\ UNCHANGED <<lifecycle, wakeVars, joinVars, registered, thread, loopVars,
                 rpc, localVars, out, stop_returns, start_returns>>

StartSettled == state # "Starting"

\* Never started, already ended, or already on its way out
NothingToStop == \/ state \in {"Created", "Stopped"}
                 \/ state = "Error" /\ thread_exited
                 \/ reactor_exiting

JoinedResult == IF state = "Error" THEN stop_result ELSE "latest"

\* Mutant: a finished wake stays counted as in flight
ReleaseWake_Forgotten == UNCHANGED wake_in_flight
ReleaseWake == wake_in_flight' = wake_in_flight - 1

\* stop() waits out a start in progress, then either has nothing left to ask
\* for and only joins, or requests the stop and claims a wake.
StopDecides(c) ==
  /\ pc[c] = "stopEntry"
  /\ StartSettled
  /\ \/ /\ NothingToStop
        /\ pc' = [pc EXCEPT ![c] = "join"]
        /\ out' = [out EXCEPT ![c] =
                     [call |-> "stop", result |-> JoinedResult]]
        /\ state' = IF state = "Created" THEN "Stopped" ELSE state
        /\ stop_result' = IF state = "Created" THEN "ok" ELSE stop_result
        /\ UNCHANGED wakeVars
     \/ /\ ~NothingToStop
        /\ stop_requested' = TRUE
        /\ state' = "Stopping"
        /\ wake_in_flight' = wake_in_flight + 1
        /\ pc' = [pc EXCEPT ![c] = "wake"]
        /\ out' = [out EXCEPT ![c] = [call |-> "stop", result |-> "latest"]]
        /\ UNCHANGED <<stop_result, reactor_exiting>>
  /\ UNCHANGED <<last_failure, startup_result, startup_completed, thread_exited,
                 joinVars, registered, thread, loopVars, rpc, localVars,
                 stop_returns, start_returns>>

\* loop_->wake(), made with mutex_ released
Wake(c) ==
  /\ pc[c] = "wake"
  /\ pc' = [pc EXCEPT ![c] = "woken"]
  /\ \/ /\ loop = "open"
        /\ eventfd' = TRUE
        /\ UNCHANGED out
     \/ /\ WakeMayFail \/ loop # "open"
        /\ out' = [out EXCEPT ![c].result = "wake"]
        /\ UNCHANGED eventfd
  /\ UNCHANGED <<lifecycle, wakeVars, joinVars, registered, thread, loop, rpc,
                 localVars, stop_returns, start_returns>>

WakeReleased(c) ==
  /\ pc[c] = "woken"
  /\ ReleaseWake
  /\ stop_result' = IF out[c].result = "wake"
                    THEN RecordFirst("wake", stop_result) ELSE stop_result
  /\ out' = [out EXCEPT ![c].result = "latest"]
  /\ pc' = [pc EXCEPT ![c] = "join"]
  /\ UNCHANGED <<state, last_failure, startup_result, startup_completed,
                 thread_exited, stop_requested, reactor_exiting, joinVars,
                 registered, thread, loopVars, rpc, localVars, stop_returns,
                 start_returns>>

\* Mutant: a caller that finds the join claimed returns instead of waiting
JoinOver_Claimed == join_completed \/ join_claimed
JoinOver == join_completed

\* Mutant: a caller joins although another has claimed it
ClaimFree_Untested == ~join_completed
ClaimFree == ~join_completed /\ ~join_claimed

\* Mutant: the owner does not announce that it has joined
ReleaseClaim_Forgotten == UNCHANGED <<join_claimed, join_completed>>
ReleaseClaim == join_claimed' = FALSE /\ join_completed' = TRUE

\* One turn of join_reactor's loop.  A caller that finds the join claimed waits
\* until it is completed or released: that is the guard's first disjunct.
JoinReactor(c) ==
  /\ pc[c] = "join"
  /\ \/ /\ JoinOver
        /\ pc' = [pc EXCEPT ![c] = "joined"]
        /\ UNCHANGED joinVars
     \/ /\ ClaimFree /\ ~Joinable
        /\ join_completed' = TRUE
        /\ pc' = [pc EXCEPT ![c] = "joined"]
        /\ UNCHANGED join_claimed
     \/ /\ ClaimFree /\ Joinable
        /\ join_claimed' = TRUE
        /\ pc' = [pc EXCEPT ![c] = "joining"]
        /\ UNCHANGED join_completed
  /\ UNCHANGED <<lifecycle, wakeVars, registered, thread, loopVars, rpc,
                 localVars, out, stop_returns, start_returns>>

\* reactor_thread_.join() blocks until the thread function has returned
JoinThread(c) ==
  /\ pc[c] = "joining"
  /\ thread = "ended"
  /\ thread' = "none"
  /\ pc' = [pc EXCEPT ![c] = "joinDone"]
  /\ UNCHANGED <<lifecycle, wakeVars, joinVars, registered, loopVars, rpc,
                 localVars, out, stop_returns, start_returns>>

JoinReleased(c) ==
  /\ pc[c] = "joinDone"
  /\ ReleaseClaim
  /\ pc' = [pc EXCEPT ![c] = "joined"]
  /\ UNCHANGED <<lifecycle, wakeVars, registered, thread, loopVars, rpc,
                 localVars, out, stop_returns, start_returns>>

CallReturns(c) ==
  /\ pc[c] = "joined"
  /\ LET r == IF out[c].result = "latest" THEN stop_result ELSE out[c].result
     IN IF out[c].call = "stop"
        THEN stop_returns' = stop_returns \cup {r} /\ UNCHANGED start_returns
        ELSE start_returns' = start_returns \cup {r} /\ UNCHANGED stop_returns
  /\ pc' = [pc EXCEPT ![c] = "idle"]
  /\ out' = [out EXCEPT ![c] = NoResult]
  /\ UNCHANGED <<lifecycle, wakeVars, joinVars, registered, thread, loopVars,
                 rpc, localVars>>

------------------------------------------------------------------------------
(***************************************************************************)
(* The reactor thread.  index is the loop index of the phase it is in;     *)
(* fail holds its three local Status variables.                            *)
(***************************************************************************)
shared == <<lifecycle, wakeVars, joinVars, registered, thread>>
Pipe(i) == registered[i]
N == Len(registered)

\* Mutants: the prefix to cancel is one too long, or leaves out the last attempt
FailStartup_OneTooMany(attempted) == rpc' = "cancel" /\ index' = attempted + 1
FailStartup_SkipsLast(attempted) == rpc' = "cancel" /\ index' = attempted - 1
\* fail_startup: cancel the pipelines attempted so far, in reverse order
FailStartup(attempted) == rpc' = "cancel" /\ index' = attempted

StartPipeline ==
  /\ rpc = "start"
  /\ index < N
  /\ \/ /\ pipe' = [pipe EXCEPT ![Pipe(index + 1)] = "running"]
        /\ index' = index + 1
        /\ UNCHANGED <<rpc, fail>>
     \/ /\ pipe' = [pipe EXCEPT ![Pipe(index + 1)] = "error"]
        /\ fail' \in Observed(Blame("media", "media"))
        /\ FailStartup(index + 1)
  /\ UNCHANGED <<shared, loopVars, ready, stopped, passes, observed, callVars>>

AllStarted ==
  /\ rpc = "start"
  /\ index = N
  /\ rpc' = "initialize"
  /\ UNCHANGED <<shared, loopVars, localVars, callVars>>

\* LinuxEventLoop::initialize either owns both descriptors or neither
InitializeLoop ==
  /\ rpc = "initialize"
  /\ \/ /\ loop' = "open"
        /\ eventfd' = FALSE
        /\ rpc' = "register"
        /\ UNCHANGED <<index, fail>>
     \/ /\ fail' = Blame("reactor", "reactor")
        /\ FailStartup(N)
        /\ UNCHANGED loopVars
  /\ UNCHANGED <<shared, ready, stopped, passes, observed, pipe, callVars>>

\* Registering every source; a failed registration may have invalidated the
\* loop, that is closed both descriptors, when its own rollback failed
RegisterSources ==
  /\ rpc = "register"
  /\ \/ /\ rpc' = "observe"
        /\ UNCHANGED <<loopVars, index, fail>>
     \/ /\ fail' \in {Blame("reactor", "reactor")} \cup Observed(Blame("media", "media"))
        /\ loop' \in {"open", "closed"}
        /\ FailStartup(N)
        /\ UNCHANGED eventfd
  /\ UNCHANGED <<shared, ready, stopped, passes, observed, pipe, callVars>>

ObserveRunning ==
  /\ rpc = "observe"
  /\ observed' = TRUE
  /\ fail' \in Observed(fail)
  /\ IF fail'.observer = "ok"
     THEN rpc' = "publish" /\ UNCHANGED index
     ELSE FailStartup(N)
  /\ UNCHANGED <<shared, loopVars, ready, stopped, passes, pipe, callVars>>

PublishRunning ==
  /\ rpc = "publish"
  /\ state' = "Running" /\ startup_result' = "ok" /\ startup_completed' = TRUE
  /\ rpc' = "wait"
  /\ UNCHANGED <<last_failure, stop_result, thread_exited, wakeVars, joinVars,
                 registered, thread, loopVars, localVars, callVars>>

\* wait_once: a ready eventfd is always part of the events reported, and read;
\* R is the set of pipelines whose sources evaluate as ready
WaitOnce(R) ==
  /\ rpc = "wait"
  /\ eventfd' = FALSE
  /\ ready' = R
  /\ fail' \in Observed(fail)
  /\ rpc' = "check"
  /\ UNCHANGED <<shared, loop, index, stopped, passes, observed, pipe, callVars>>

WaitFails ==
  /\ rpc = "wait"
  /\ fail' \in {Blame("reactor", "reactor")} \cup Observed(Blame("media", "media"))
  /\ rpc' = "mark"
  /\ UNCHANGED <<shared, loopVars, index, ready, stopped, passes, observed,
                 pipe, callVars>>

\* stop_requested() is read after the wait and before any tick
CheckStop ==
  /\ rpc = "check"
  /\ rpc' = IF stop_requested THEN "mark" ELSE "tick"
  /\ UNCHANGED <<shared, loopVars, localVars, callVars>>

TickPipeline(i) ==
  /\ rpc = "tick"
  /\ i \in ready
  /\ \A j \in ready : i <= j
  /\ \/ /\ ready' = ready \ {i}
        /\ fail' \in Observed(fail)
        /\ UNCHANGED pipe
     \/ /\ pipe' = [pipe EXCEPT ![Pipe(i)] = "error"]
        /\ fail' \in Observed(Blame("media", "media"))
        /\ ready' = {}
  /\ UNCHANGED <<shared, loopVars, rpc, index, stopped, passes, observed,
                 callVars>>

TurnEnds ==
  /\ rpc = "tick"
  /\ ready = {}
  /\ rpc' = IF AllOk THEN "wait" ELSE "mark"
  /\ UNCHANGED <<shared, loopVars, localVars, callVars>>

\* An exception escaping a pipeline call or an allocation is caught by
\* reactor_main, which forgets the failures recorded so far
ReactorThrows ==
  /\ rpc \in {"start", "register", "tick", "drain"}
  /\ fail' = [media |-> "exception", reactor |-> "ok", observer |-> "ok"]
  /\ observed' = TRUE
  /\ rpc' = "mark"
  /\ UNCHANGED <<shared, loopVars, index, ready, stopped, passes, pipe, callVars>>

\* mark_reactor_exiting, first half: later stops will not claim a wake
MarkExiting ==
  /\ rpc = "mark"
  /\ reactor_exiting' = TRUE
  /\ rpc' = "await"
  /\ UNCHANGED <<lifecycle, stop_requested, wake_in_flight, joinVars, registered,
                 thread, loopVars, localVars, callVars>>

\* Mutant: the reactor leaves without waiting for claimed wakes
NoWakeInFlight_Ignored == TRUE
NoWakeInFlight == wake_in_flight = 0

\* mark_reactor_exiting, second half: the wakes claimed before are waited for
AwaitWakes ==
  /\ rpc = "await"
  /\ NoWakeInFlight
  /\ rpc' = IF AllOk THEN "drain" ELSE "cancel"
  /\ index' = N /\ stopped' = {} /\ passes' = 0
  /\ UNCHANGED <<shared, loopVars, ready, fail, observed, pipe, callVars>>

\* What a stop() that asks for another turn leaves: a drain under way, or, when the
\* last reset is refused with kWouldBlock, a pipeline in Error; stopping one in
\* Error only resets it again
StillStopping(s) == IF s = "error" THEN {"error"} ELSE {"draining", "error"}

\* One pipeline.stop() of a drain pass, which visits the pipelines in reverse
DrainPipeline ==
  /\ rpc = "drain"
  /\ index > 0
  /\ \/ /\ index \in stopped
        /\ index' = index - 1
        /\ UNCHANGED <<rpc, stopped, fail, pipe>>
     \/ /\ index \notin stopped
        /\ pipe' = [pipe EXCEPT ![Pipe(index)] = "stopped"]
        /\ stopped' = stopped \cup {index}
        /\ index' = index - 1
        /\ UNCHANGED <<rpc, fail>>
     \/ /\ index \notin stopped
        /\ \E s \in StillStopping(pipe[Pipe(index)]) :
              pipe' = [pipe EXCEPT ![Pipe(index)] = s]
        /\ index' = index - 1
        /\ UNCHANGED <<rpc, stopped, fail>>
     \/ /\ index \notin stopped
        /\ pipe' = [pipe EXCEPT ![Pipe(index)] = "error"]
        /\ fail' \in Observed(Blame("media", "media"))
        /\ rpc' = "cancel" /\ index' = N
        /\ UNCHANGED stopped
  /\ UNCHANGED <<shared, loopVars, ready, passes, observed, callVars>>

AllStopped == stopped = 1..N

\* After a pass: done, another pass before the deadline, or the deadline is
\* reached.  Passes without progress sleep, so only DrainPasses of them fit.
DrainPassEnds ==
  /\ rpc = "drain"
  /\ index = 0
  /\ \/ /\ AllStopped
        /\ rpc' = "close"
        /\ UNCHANGED <<index, passes, fail>>
     \/ /\ ~AllStopped
        /\ passes < DrainPasses
        /\ passes' = passes + 1 /\ index' = N
        /\ UNCHANGED <<rpc, fail>>
     \/ /\ ~AllStopped
        /\ fail' \in Observed(Blame("media", "timeout"))
        /\ rpc' = "cancel" /\ index' = N
        /\ UNCHANGED passes
  /\ UNCHANGED <<shared, loopVars, ready, stopped, observed, pipe, callVars>>

\* The clock, the deadline's arithmetic or the back-off sleep fails, on entry
\* or after a pass that left work
DrainClockFails ==
  /\ rpc = "drain"
  /\ \/ index = N /\ passes = 0
     \/ index = 0 /\ ~AllStopped
  /\ fail' = Blame("reactor", "reactor")
  /\ rpc' = "cancel" /\ index' = N
  /\ UNCHANGED <<shared, loopVars, ready, stopped, passes, observed, pipe,
                 callVars>>

Cancelled == Pipe(index)

\* cancel_prefix, one pipeline at a time in reverse; cancelling a stopped
\* pipeline does nothing, any other is reset and may be left in Error
CancelPipeline ==
  /\ rpc = "cancel"
  /\ index > 0
  /\ \/ /\ pipe' = [pipe EXCEPT ![Cancelled] = "stopped"]
        /\ UNCHANGED fail
     \/ /\ pipe[Cancelled] # "stopped"
        /\ pipe' = [pipe EXCEPT ![Cancelled] = "error"]
        /\ fail' = Blame("media", "cancel")
  /\ index' = index - 1
  /\ UNCHANGED <<shared, loopVars, rpc, ready, stopped, passes, observed,
                 callVars>>

AllCancelled ==
  /\ rpc = "cancel"
  /\ index = 0
  /\ rpc' = "close"
  /\ UNCHANGED <<shared, loopVars, localVars, callVars>>

\* LinuxEventLoop::close gives up both descriptors even when close(2) fails
CloseLoop ==
  /\ rpc = "close"
  /\ loop' = "closed" /\ eventfd' = FALSE
  /\ LET closes == {fail} \cup IF loop = "open"
                               THEN {Blame("reactor", "reactor")} ELSE {}
     IN fail' \in IF observed THEN UNION {Observed(f) : f \in closes} ELSE closes
  /\ observed' = FALSE
  /\ rpc' = "finish"
  /\ UNCHANGED <<shared, index, ready, stopped, passes, pipe, callVars>>

FinalFailure == IF fail.media = "ok" /\ stop_result # "ok"
                THEN stop_result ELSE SelectedFailure

\* finish(): publish the outcome, and release a start() still waiting
Finish ==
  /\ rpc = "finish"
  /\ LET final == FinalFailure
     IN /\ stop_result' = final
        /\ startup_result' = IF startup_completed THEN startup_result
                             ELSE IF final = "ok" THEN "internal" ELSE final
        /\ state' = IF final = "ok" THEN "Stopped" ELSE "Error"
        /\ last_failure' = IF final = "ok" THEN last_failure ELSE final
  /\ thread_exited' = TRUE /\ startup_completed' = TRUE
  /\ rpc' = "ending"
  /\ UNCHANGED <<wakeVars, joinVars, registered, thread, loopVars, localVars,
                 callVars>>

\* The thread function returns some time after finish() published the outcome
ThreadEnds ==
  /\ rpc = "ending"
  /\ rpc' = "ended" /\ thread' = "ended"
  /\ UNCHANGED <<lifecycle, wakeVars, joinVars, registered, loopVars, localVars,
                 callVars>>

------------------------------------------------------------------------------
Startup == StartPipeline \/ AllStarted \/ InitializeLoop \/ RegisterSources
             \/ ObserveRunning \/ PublishRunning
Turn    == \/ \E R \in SUBSET (1..N) : WaitOnce(R)
           \/ WaitFails \/ CheckStop \/ TurnEnds
           \/ \E i \in 1..N : TickPipeline(i)
Exit    == MarkExiting \/ AwaitWakes \/ DrainPipeline \/ DrainPassEnds
             \/ DrainClockFails \/ CancelPipeline \/ AllCancelled \/ CloseLoop
             \/ Finish \/ ThreadEnds
Reactor == Startup \/ Turn \/ Exit \/ ReactorThrows

Call(c) == \/ \E p \in Pipelines : RegisterPipeline(c, p)
           \/ Launch(c) \/ LaunchFails(c) \/ StopCalled(c)
Return(c) == \/ StartupObserved(c) \/ StartReturns(c) \/ StopDecides(c)
             \/ Wake(c) \/ WakeReleased(c) \/ JoinReactor(c) \/ JoinThread(c)
             \/ JoinReleased(c) \/ CallReturns(c)

Next == Reactor \/ \E c \in Callers : Call(c) \/ Return(c)

Spec == Init /\ [][Next]_vars

\* A call in progress keeps running, and so does the reactor thread between
\* waits.  epoll_wait itself is only guaranteed to return once eventfd is
\* readable: no device has to produce an event.
Fairness ==
  /\ WF_vars(Startup \/ Exit \/ CheckStop \/ TurnEnds
               \/ \E i \in 1..N : TickPipeline(i))
  /\ WF_vars(eventfd /\ \E R \in SUBSET (1..N) : WaitOnce(R))
  /\ \A c \in Callers : WF_vars(Return(c))

FairSpec == Spec /\ Fairness

------------------------------------------------------------------------------
(***************************************************************************)
(* Properties.                                                             *)
(***************************************************************************)

\* Every variable has its type.
TypeOK ==
  /\ state \in RuntimeState
  /\ {last_failure, stop_result, startup_result} \subseteq Status
  /\ {startup_completed, thread_exited, stop_requested, reactor_exiting,
      join_claimed, join_completed, eventfd, observed} \subseteq BOOLEAN
  /\ wake_in_flight \in Nat
  /\ registered \in Seq(Pipelines)
  /\ thread \in {"none", "live", "ended"} /\ loop \in {"open", "closed"}
  /\ rpc \in ReactorPhase
  /\ index \in 0..N /\ passes \in Nat
  /\ ready \subseteq 1..N /\ stopped \subseteq 1..N
  /\ fail \in [media : MediaStatus \cup {"ok"}, reactor : {"ok", "reactor"},
               observer : {"ok", "observer"}]
  /\ pipe \in [Pipelines -> PipeState]
  /\ pc \in [Callers -> CallerPhase] /\ out \in [Callers -> Results]
  /\ stop_returns \subseteq Status /\ start_returns \subseteq Status

\* wake() runs without mutex_, so only the wake_in_flight_ protocol keeps the
\* reactor from closing the eventfd under it: a caller about to write finds the
\* descriptor open.
WakeNeedsOpenLoop == \A c \in Callers : pc[c] = "wake" => loop = "open"

\* std::thread::join is called by one caller at a time and never on a thread
\* already joined: whoever is inside holds the claim, alone, on a thread that
\* is still joinable.
SingleJoinOwner ==
  \A c \in Callers : pc[c] = "joining" =>
     /\ Joinable /\ join_claimed /\ ~join_completed
     /\ \A d \in Callers \ {c} : pc[d] \notin {"joining", "joinDone"}

\* stop() returns, and start() reports a failure, only after the reactor thread
\* has been joined: no thread outlives the call that promised it was gone.
ReturnedMeansJoined ==
  stop_returns # {} \/ start_returns \ {"ok"} # {} => ~Joinable

\* Once the outcome is published nothing is left half done: no pipeline still
\* runs or drains and the loop is closed; Stopped means that every pipeline was
\* drained to its end.  The outcome is what every start and stop reports: the
\* first media failure if there was one, whatever reactor, observer or wake
\* failures were noticed before it.
ExitLeavesNothing ==
  thread_exited /\ rpc # "off" =>
     /\ loop = "closed" /\ wake_in_flight = 0
     /\ \A k \in 1..N : pipe[registered[k]] \notin {"running", "draining"}
     /\ state = "Stopped" => \A k \in 1..N : pipe[registered[k]] = "stopped"
     /\ (\E k \in 1..N : pipe[registered[k]] = "error") => stop_result \in MediaStatus
     /\ state = "Error" => last_failure = stop_result /\ stop_result # "ok"
     /\ fail.media # "ok" => stop_result = fail.media
     /\ stop_returns \cup (start_returns \ {"ok"}) \subseteq {stop_result}

\* Every stop() returns, though no device ever produces an event again.
StopReturns == \A c \in Callers : pc[c] = "stopEntry" ~> pc[c] = "idle"

\* Every start() that launched the thread returns.
StartCompletes == \A c \in Callers : pc[c] = "startWait" ~> pc[c] = "idle"

------------------------------------------------------------------------------
(***************************************************************************)
(* The inductive invariants behind the safety properties.                  *)
(***************************************************************************)
Wakers == {c \in Callers : pc[c] \in {"wake", "woken"}}

\* wake_in_flight_ counts the callers between claiming and releasing a wake.
WakesCounted == wake_in_flight = Cardinality(Wakers)

\* How far the reactor thread has come determines what state_ can be, whether
\* the loop is open, and whether a stop may still claim a wake.
PhaseInv ==
  /\ state = "Created" => rpc = "off"
  /\ state = "Starting" => wake_in_flight = 0
  /\ rpc = "off" => /\ wake_in_flight = 0
                    /\ state \in {"Created", "Stopped", "Error"}
                    /\ state = "Error" => thread_exited
  /\ rpc \in StartupPhase => state = "Starting"
  /\ rpc \in {"register", "observe", "publish"} => loop = "open"
  /\ rpc \in {"wait", "check", "tick"} => state \in {"Running", "Stopping"}
  /\ rpc \in RunPhase \cup {"await"} =>
        /\ state \in {"Starting", "Running", "Stopping"}
        /\ state # "Starting" => loop = "open"
  /\ rpc \in {"mark", "await"} /\ state = "Starting" => fail.media # "ok"
  /\ rpc = "drain" => state # "Starting" /\ loop = "open"
  /\ rpc \in ExitPhase \cup {"await"} => reactor_exiting \/ state = "Starting"
  /\ rpc \in ExitPhase => /\ wake_in_flight = 0
                          /\ state \in {"Starting", "Running", "Stopping"}
  /\ rpc \in {"ending", "ended"} => /\ wake_in_flight = 0
                                    /\ thread_exited
                                    /\ state \in {"Stopped", "Error"}

\* Whoever is inside the join owns the claim; once the join is completed, or
\* anything but a successful start has returned, there is no thread left, and
\* outside Created none can come back.
JoinInv ==
  /\ state = "Created" => \A c \in Callers : pc[c] \in {"idle", "stopEntry"}
  /\ \A c \in Callers : pc[c] \in {"joining", "joinDone"} =>
        join_claimed /\ ~join_completed
  /\ \A c, d \in Callers : /\ pc[c] \in {"joining", "joinDone"}
                           /\ pc[d] \in {"joining", "joinDone"}
                           => c = d
  /\ \A c \in Callers : pc[c] = "joining" => Joinable
  /\ \A c \in Callers : pc[c] = "joinDone" => ~Joinable
  /\ join_completed => ~Joinable
  /\ \A c \in Callers : pc[c] = "joined" => join_completed
  /\ rpc \in {"off", "ended"} \/ thread = "live"
  /\ rpc = "off" => thread = "none"
  /\ stop_returns # {} \/ start_returns \ {"ok"} # {} =>
        ~Joinable /\ state # "Created"
InJoin == {"join", "joining", "joinDone", "joined"}

\* How far the reactor has come also determines what it has done to the
\* pipelines, in its own loops' prefixes and suffixes, and what it knows of
\* failures: none is left active behind the cancelling loop, and no error of a
\* pipeline is forgotten.
PipesInv ==
  /\ \A i, j \in 1..N : registered[i] = registered[j] => i = j
  /\ rpc = "off" => index = 0 /\ \A p \in Pipelines : pipe[p] = "created"
  /\ rpc = "start" => \A k \in 1..N : k > index => pipe[Pipe(k)] = "created"
  /\ rpc = "drain" => \A k \in stopped : pipe[Pipe(k)] = "stopped"
  /\ rpc = "cancel" => \A k \in 1..N : k > index => pipe[Pipe(k)] \notin {"running", "draining"}
  /\ rpc \in {"close", "finish", "ending", "ended"} =>
        \A k \in 1..N : pipe[Pipe(k)] \notin {"running", "draining"}
  /\ \A k \in 1..N : pipe[Pipe(k)] = "error" =>
        fail.media # "ok" \/ rpc = "drain" \/ (rpc = "cancel" /\ k <= index)
  /\ rpc = "cancel" => ~AllOk
  /\ rpc \in {"close", "finish"} /\ AllOk =>
        state # "Starting" /\ \A k \in 1..N : pipe[Pipe(k)] = "stopped"

\* The verdict is given once, by the step that ends the run; until then no call
\* has returned one, and every call that is still to return one reads it then or
\* has read this very one.
VerdictInv ==
  /\ rpc \notin {"off", "ending", "ended"} =>
        ~thread_exited /\ (startup_completed => state # "Starting" /\ startup_result = "ok")
  /\ rpc \notin {"off", "ending", "ended"} /\ ~startup_completed => state = "Starting"
  /\ rpc \in {"finish", "ending", "ended"} => loop = "closed"
  /\ rpc \in {"ending", "ended"} =>
        /\ state = "Stopped" => \A k \in 1..N : pipe[Pipe(k)] = "stopped"
        /\ state = "Error" => last_failure = stop_result /\ stop_result # "ok"
        /\ fail.media # "ok" => stop_result = fail.media
        /\ startup_result \in {"ok", stop_result}
        /\ stop_returns \cup (start_returns \ {"ok"}) \subseteq {stop_result}
  /\ \A c \in Callers : pc[c] = "startRead" => startup_completed
  /\ \A c \in Callers : pc[c] \in InJoin /\ rpc # "off" =>
        \/ out[c].result = "latest"
        \/ thread_exited /\ out[c].result = stop_result
==============================================================================
