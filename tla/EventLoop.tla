------------------------------ MODULE EventLoop ------------------------------
(***************************************************************************)
(* LinuxEventLoop: epoll and eventfd under one reactor thread.  The thread *)
(* initializes the loop, registers the wait sources, publishes that it runs*)
(* (to those who may stop it), then waits turn after turn, and closes the  *)
(* loop.  Other threads only wake it, from the moment it is published - the*)
(* first wait has not begun yet - until it is closed, be it after a turn   *)
(* that failed.  In PlatformRuntime a stop waits for the publication, and  *)
(* the close for the wakes that were claimed before it (WakeNeedsOpenLoop).*)
(*                                                                         *)
(* The kernel's side is modelled beside the loop's own tables, so that they*)
(* can be compared: which descriptors it watches and with what token, what *)
(* each of them is ready for (level-triggered), and how many of the loop's *)
(* own descriptors are open.                                               *)
(***************************************************************************)
EXTENDS Naturals, Sequences, Functions

CONSTANTS
  Sources,           \* the wait sources
  DescriptorsOf,     \* what poll_descriptors returns: their descriptors, and
  EventsOf,          \* what is requested of each descriptor
  ReadyFor,          \* what each becomes ready for
  PipelineOf,        \* the pipeline each source is registered for
  MaxInterruptions,  \* kMaxConsecutiveInterruptions
  MaxCounter         \* a bound: the wakes the eventfd counts before it is read

Fds == UNION {Range(DescriptorsOf[s]) : s \in Sources}

ASSUME SourceAssumption ==
  /\ DescriptorsOf \in [Sources -> Seq(Fds) \ {<<>>}]
  /\ EventsOf \in [Fds -> (SUBSET {"in", "rdnorm", "out", "pri"}) \ {{}}]
  /\ ReadyFor \in [Fds -> (SUBSET {"in", "out", "pri", "err", "hup"}) \ {{}}]
  /\ MaxInterruptions \in Nat \ {0} /\ MaxCounter \in Nat \ {0}

VARIABLES
  epoll_fd, event_fd,  \* whether each is held (>= 0)
  invalidated, next_token,
  sources,             \* the committed SourceRecords
  pc, adding, added,   \* the registration under way and its added_count
  complete,            \* whether its rollback has gone well so far
  turn,                \* the LinuxEventLoopTurn being made
  ready_sources,       \* indexes of sources still to be evaluated in this turn
  open,                \* kernel: how many epoll and event descriptors are open
  watched,             \* kernel: the descriptors in the epoll set, with token
  counter,             \* kernel: the eventfd's
  ready,               \* kernel: what each descriptor is ready for
  report,              \* kernel: what this turn's epoll_wait saw of each descriptor
  woken                \* whether a wake has not been answered by a turn yet

loopVars   == <<epoll_fd, event_fd, invalidated, next_token, sources>>
callVars   == <<pc, adding, added, complete, turn, ready_sources>>
kernelVars == <<open, watched, counter, ready, report>>
vars == <<loopVars, callVars, kernelVars, woken>>

NoTurn   == [control |-> FALSE, pipelines |-> <<>>, interrupted |-> 0]
Quiet    == [fd \in Fds |-> {}]
NoReport == [control |-> FALSE, fds |-> Quiet]

Init ==
  /\ epoll_fd = FALSE /\ event_fd = FALSE /\ invalidated = FALSE /\ next_token = 1
  /\ sources = <<>>
  /\ pc = "new" /\ adding = "none" /\ added = 0 /\ complete = TRUE
  /\ turn = NoTurn /\ ready_sources = {}
  /\ open = [epoll |-> 0, event |-> 0] /\ watched = {} /\ counter = 0
  /\ ready = Quiet /\ report = NoReport
  /\ woken = FALSE

------------------------------------------------------------------------------
(***************************************************************************)
(* The translation between poll and epoll events.                          *)
(***************************************************************************)
Reading == {"in", "rdnorm"}

epoll_interests(requested) ==
  (IF requested \cap Reading # {} THEN {"in"} ELSE {}) \cup (requested \ Reading)

\* Mutant: a source that asked for POLLRDNORM is told of POLLIN
requested_poll_events_Raw(events, requested) == events
requested_poll_events(events, requested) ==
  (events \ {"in"}) \cup IF "in" \notin events THEN {}
                         ELSE IF requested \cap Reading = {} THEN {"in"}
                         ELSE requested \cap Reading

\* epoll always reports errors and hang-ups
Seen(w) == ready[w.fd] \cap (epoll_interests(EventsOf[w.fd]) \cup {"err", "hup"})

------------------------------------------------------------------------------
(***************************************************************************)
(* initialize, invalidate and close                                        *)
(***************************************************************************)
\* All three system calls succeed, or ScopedLoopFds gives back what they made
Initialize ==
  /\ pc = "new"
  /\ \/ /\ pc' = "idle" /\ epoll_fd' = TRUE /\ event_fd' = TRUE
        /\ open' = [epoll |-> open.epoll + 1, event |-> open.event + 1]
     \/ pc' = "failed" /\ UNCHANGED <<epoll_fd, event_fd, open>>
  /\ UNCHANGED <<invalidated, next_token, sources, adding, added, complete, turn,
                 ready_sources, watched, counter, ready, report, woken>>

\* Both descriptors are forgotten before they are closed, and closed whatever
\* close(2) says; the kernel's epoll set and counter go with them
ReleaseBoth ==
  /\ epoll_fd' = FALSE /\ event_fd' = FALSE
  /\ open' = [epoll |-> open.epoll - (IF epoll_fd THEN 1 ELSE 0),
              event |-> open.event - (IF event_fd THEN 1 ELSE 0)]
  /\ watched' = {} /\ counter' = 0

Close ==
  /\ pc \in {"new", "idle", "between", "failed"}
  /\ pc' = "closed"
  /\ ReleaseBoth
  /\ UNCHANGED <<invalidated, next_token, sources, adding, added, complete, turn,
                 ready_sources, ready, report, woken>>

------------------------------------------------------------------------------
(***************************************************************************)
(* register_source                                                         *)
(***************************************************************************)
Registered == {sources[i].source : i \in DOMAIN sources}
registered_fds == UNION {Range(DescriptorsOf[s]) : s \in Registered}
Descriptors == DescriptorsOf[adding]
Token(k) == next_token + k - 1

\* A source twice, or a descriptor twice, in one source or two, is refused
Acceptable(s) ==
  /\ s \notin Registered
  /\ IsInjective(DescriptorsOf[s])
  /\ Range(DescriptorsOf[s]) \cap registered_fds = {}

RegisterSource(s) ==
  /\ pc = "idle" /\ ~invalidated /\ epoll_fd /\ event_fd
  /\ Acceptable(s)
  /\ pc' = "add" /\ adding' = s /\ added' = 0 /\ complete' = TRUE
  /\ UNCHANGED <<loopVars, turn, ready_sources, kernelVars, woken>>

\* epoll_ctl refuses a descriptor it already watches
AddDescriptor ==
  /\ pc = "add" /\ added < Len(Descriptors)
  /\ LET fd == Descriptors[added + 1]
     IN  \/ /\ \A w \in watched : w.fd # fd
            /\ watched' = watched \cup {[fd |-> fd, token |-> Token(added + 1)]}
            /\ added' = added + 1 /\ UNCHANGED pc
         \/ pc' = "rollback" /\ UNCHANGED <<watched, added>>
  /\ UNCHANGED <<loopVars, adding, complete, turn, ready_sources, open, counter, ready,
                 report, woken>>

TokensUsed == next_token' = next_token + Len(Descriptors)

\* The tables are swapped in together once the kernel has everything
Commit ==
  /\ pc = "add" /\ added = Len(Descriptors)
  /\ pc' = "idle" /\ adding' = "none" /\ added' = 0
  /\ sources' = Append(sources, [source |-> adding,
                                 tokens |-> [k \in DOMAIN Descriptors |-> Token(k)],
                                 revents |-> [k \in DOMAIN Descriptors |-> {}]])
  /\ TokensUsed
  /\ UNCHANGED <<epoll_fd, event_fd, invalidated, complete, turn, ready_sources,
                 kernelVars, woken>>

\* rollback_registration: the last one added first, each whether or not the
\* others could be removed
RollbackDescriptor ==
  /\ pc = "rollback" /\ added > 0
  /\ \/ /\ watched' = {w \in watched : w.fd # Descriptors[added]}
        /\ UNCHANGED complete
     \/ complete' = FALSE /\ UNCHANGED watched
  /\ added' = added - 1
  /\ UNCHANGED <<loopVars, pc, adding, turn, ready_sources, open, counter, ready, report,
                 woken>>

\* Mutant: a descriptor that could not be removed is left to the kernel
InvalidateUnless_Ignored(rolledBack) == UNCHANGED <<epoll_fd, event_fd, invalidated, open,
                                                    watched, counter>>
\* What the kernel may still watch is dropped with the whole epoll set
InvalidateUnless(rolledBack) ==
  IF rolledBack
  THEN UNCHANGED <<epoll_fd, event_fd, invalidated, open, watched, counter>>
  ELSE invalidated' = TRUE /\ ReleaseBoth

RolledBack ==
  /\ pc = "rollback" /\ added = 0
  /\ InvalidateUnless(complete)
  /\ pc' = "idle" /\ adding' = "none" /\ complete' = TRUE
  /\ UNCHANGED <<next_token, sources, added, turn, ready_sources, ready, report, woken>>

------------------------------------------------------------------------------
(***************************************************************************)
(* wait_once: one turn                                                     *)
(***************************************************************************)
\* Running is published once every source is registered: the loop can be woken now,
\* though the first wait is still to come
Publish ==
  /\ pc = "idle" /\ epoll_fd /\ event_fd
  /\ pc' = "between"
  /\ UNCHANGED <<loopVars, adding, added, complete, turn, ready_sources, kernelVars, woken>>

WaitCalled ==
  /\ pc = "between"
  /\ pc' = "wait"
  /\ UNCHANGED <<loopVars, adding, added, complete, turn, ready_sources, kernelVars, woken>>

\* A turn that fails ends the reactor's waiting; the caller learns of no wake
TurnFails ==
  pc' = "failed" /\ turn' = NoTurn /\ ready_sources' = {} /\ report' = NoReport

\* A signal, or an error of epoll_wait
Interrupted ==
  /\ pc = "wait"
  /\ IF turn.interrupted + 1 >= MaxInterruptions THEN TurnFails
     ELSE /\ turn' = [turn EXCEPT !.interrupted = @ + 1]
          /\ UNCHANGED <<pc, ready_sources, report>>
  /\ UNCHANGED <<loopVars, adding, added, complete, open, watched, counter, ready, woken>>

WaitFails ==
  /\ pc = "wait"
  /\ TurnFails
  /\ UNCHANGED <<loopVars, adding, added, complete, open, watched, counter, ready, woken>>

\* There is room for every descriptor and the eventfd, so all that is ready is told
EpollReturns ==
  /\ pc = "wait"
  /\ counter > 0 \/ \E w \in watched : Seen(w) # {}
  /\ report' = [control |-> counter > 0,
                fds |-> [fd \in Fds |-> UNION {Seen(w) : w \in {v \in watched : v.fd = fd}}]]
  /\ pc' = "dispatch"
  /\ UNCHANGED <<loopVars, adding, added, complete, turn, ready_sources, open, watched,
                 counter, ready, woken>>

\* What is told, and what of it the k-th descriptor of the i-th source has the
\* token of
Told == {w \in watched : report.fds[w.fd] # {}}
ToldOf(i, k) == {w \in Told : w.token = sources[i].tokens[k]}

\* revents starts from zero in every turn
Revents(i, k) ==
  UNION {requested_poll_events(report.fds[w.fd], EventsOf[DescriptorsOf[sources[i].source][k]]) :
           w \in ToldOf(i, k)}

\* Mutant: a control event that comes with others is drained and not told
ControlTold_Alone == report.control /\ Told = {}
ControlTold == report.control

\* Every event finds its source by its token; the eventfd is read once
Dispatch ==
  /\ pc = "dispatch"
  /\ sources' = [i \in DOMAIN sources |->
       [sources[i] EXCEPT !.revents = [k \in DOMAIN @ |-> Revents(i, k)]]]
  /\ \/ /\ pc' = "evaluate"
        /\ ready_sources' = {i \in DOMAIN sources :
                               \E k \in DOMAIN sources[i].tokens : ToldOf(i, k) # {}}
        /\ turn' = [turn EXCEPT !.control = ControlTold]
        /\ counter' = IF report.control THEN 0 ELSE counter
        /\ UNCHANGED report
     \/ report.control /\ TurnFails /\ UNCHANGED counter
  /\ UNCHANGED <<epoll_fd, event_fd, invalidated, next_token, adding, added, complete, open,
                 watched, ready, woken>>

Lowest == CHOOSE i \in ready_sources : \A j \in ready_sources : i <= j

\* Mutant: the first source evaluated ends the turn
Remaining_None == {}
Remaining == ready_sources \ {Lowest}

\* A source may find its device ready or not, or fail
EvaluateSource ==
  /\ pc = "evaluate" /\ ready_sources # {}
  /\ LET pipeline == PipelineOf[sources[Lowest].source]
     IN  \/ /\ turn' = IF pipeline \in Range(turn.pipelines) THEN turn
                       ELSE [turn EXCEPT !.pipelines = Append(@, pipeline)]
            /\ ready_sources' = Remaining /\ UNCHANGED <<pc, report>>
         \/ ready_sources' = Remaining /\ UNCHANGED <<pc, turn, report>>
         \/ TurnFails
  /\ UNCHANGED <<loopVars, adding, added, complete, open, watched, counter, ready, woken>>

TurnReturns ==
  /\ pc = "evaluate" /\ ready_sources = {}
  /\ pc' = "between" /\ turn' = NoTurn /\ report' = NoReport
  /\ woken' = (woken /\ ~turn.control)
  /\ UNCHANGED <<loopVars, adding, added, complete, ready_sources, open, watched, counter,
                 ready>>

Waiting == pc \in {"wait", "dispatch", "evaluate", "between"}

\* From any other thread, between the publication and the close: before the first
\* wait, at any point of a turn, between turns, and after one that failed
Wake ==
  /\ Waiting \/ pc = "failed"
  /\ event_fd /\ counter < MaxCounter
  /\ counter' = counter + 1 /\ woken' = TRUE
  /\ UNCHANGED <<loopVars, callVars, open, watched, ready, report>>

\* The devices: each descriptor becomes ready and is so until it is read
Device ==
  /\ \E fd \in Fds : \E events \in {{}, ReadyFor[fd]} : ready' = [ready EXCEPT ![fd] = events]
  /\ UNCHANGED <<loopVars, callVars, open, watched, counter, report, woken>>

------------------------------------------------------------------------------
Turn == WaitCalled \/ EpollReturns \/ Dispatch \/ EvaluateSource \/ TurnReturns

Next == \/ Initialize \/ Close
        \/ \E s \in Sources : RegisterSource(s)
        \/ AddDescriptor \/ Commit \/ RollbackDescriptor \/ RolledBack
        \/ Publish \/ Turn \/ Interrupted \/ WaitFails
        \/ Wake \/ Device

\* The reactor takes turn after turn; epoll_wait returns when there is an event
Spec == Init /\ [][Next]_vars /\ WF_vars(Turn)

------------------------------------------------------------------------------
(***************************************************************************)
(* Properties.                                                             *)
(***************************************************************************)

\* What the kernel is to watch for the sources registered so far
Committed ==
  UNION {{[fd |-> DescriptorsOf[r.source][k], token |-> r.tokens[k]] : k \in DOMAIN r.tokens} :
           r \in Range(sources)}

\* Between calls the loop's tables and the kernel agree, after whatever failed
\* half way: it watches every descriptor of every registered source under the
\* token they have it under, and no other, unless the loop is given up as a whole.
TablesMatchKernel ==
  /\ open.epoll = (IF epoll_fd THEN 1 ELSE 0) /\ open.event = (IF event_fd THEN 1 ELSE 0)
  /\ pc \notin {"add", "rollback"} /\ epoll_fd => watched = Committed

\* A source is shown what the kernel saw of its own descriptors in this very
\* turn, in the terms it asked for: no other's events, and none of an earlier turn.
OwnEventsShown ==
  pc = "evaluate" =>
    \A r \in Range(sources) : \A k \in DOMAIN r.revents :
      LET fd == DescriptorsOf[r.source][k]
      IN  /\ r.revents[k] \subseteq EventsOf[fd] \cup {"err", "hup"}
          /\ (r.revents[k] # {}) <=> (report.fds[fd] # {})

\* A wake is never lost, whether it falls before the first wait, into a turn or
\* between two: until a turn tells of it, or the loop fails, the next turn has it.
NoWakeLost ==
  woken /\ Waiting =>
    counter > 0 \/ (pc = "evaluate" /\ turn.control)

\* A source whose device stays ready is evaluated over and over as long as the
\* reactor takes its turns: none is starved by the others or by the eventfd.
NoSourceStarves ==
  \A s \in Sources :
    <>[](Waiting /\ s \in Registered
          /\ \E w \in watched : w.fd \in Range(DescriptorsOf[s]) /\ Seen(w) # {})
      => []<>(pc = "evaluate" /\ ready_sources # {} /\ sources[Lowest].source = s)

------------------------------------------------------------------------------
(***************************************************************************)
(* The inductive invariants behind the safety properties.                  *)
(***************************************************************************)
Events == {"in", "rdnorm", "out", "pri", "err", "hup"}
Record == [source : Sources, tokens : Seq(Nat), revents : Seq(SUBSET Events)]

\* Every variable has its type.
TypeOK ==
  /\ {epoll_fd, event_fd, invalidated, complete, woken} \subseteq BOOLEAN
  /\ next_token \in Nat /\ sources \in Seq(Record)
  /\ pc \in {"new", "idle", "add", "rollback", "between", "failed", "closed"}
              \cup {"wait", "dispatch", "evaluate"}
  /\ adding \in Sources \cup {"none"} /\ added \in Nat
  /\ turn \in [control : BOOLEAN, pipelines : Seq({PipelineOf[s] : s \in Sources}),
               interrupted : Nat]
  /\ ready_sources \subseteq DOMAIN sources
  /\ open \in [epoll : Nat, event : Nat]
  /\ watched \subseteq [fd : Fds, token : Nat] /\ counter \in 0..MaxCounter
  /\ ready \in [Fds -> SUBSET Events]
  /\ report \in [control : BOOLEAN, fds : [Fds -> SUBSET Events]]

\* The descriptors a registration has added so far.
Staged == {[fd |-> Descriptors[k], token |-> Token(k)] : k \in 1..added}

\* What a registration in progress has added is known to the last descriptor, as
\* long as nothing of it could not be removed; and a token, once given to a
\* descriptor, is no other's.
TablesInv ==
  /\ TablesMatchKernel
  /\ pc = "new" => sources = <<>> /\ ~epoll_fd /\ ~event_fd /\ watched = {}
  /\ pc \in {"add", "rollback", "between", "wait", "dispatch", "evaluate"} => epoll_fd /\ event_fd
  /\ \A i \in DOMAIN sources :
        LET size == Len(DescriptorsOf[sources[i].source])
        IN  Len(sources[i].tokens) = size /\ Len(sources[i].revents) = size
  /\ pc \in {"add", "rollback"} => adding \in Sources /\ Acceptable(adding) /\ added <= Len(Descriptors)
  /\ pc = "add" => complete
  /\ pc \in {"add", "rollback"} /\ complete => watched = Committed \cup Staged
  /\ \A w \in Committed : w.token < next_token
  /\ \A v, w \in Committed : v.token = w.token => v = w

\* No wake comes before the loop is published, and none is read without being told.
WakesInv ==
  /\ pc \in {"new", "idle", "add", "rollback"} => ~woken
  /\ NoWakeLost

\* epoll reports nothing that was not asked for, errors and hang-ups aside.
ReportInv ==
  /\ pc \in {"dispatch", "evaluate"} => \A fd \in Fds :
        report.fds[fd] \subseteq epoll_interests(EventsOf[fd]) \cup {"err", "hup"}
  /\ OwnEventsShown
==============================================================================
