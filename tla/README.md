# EAVP in TLA+

TLA+ models of EAVP, the C++11 embedded audio/video platform of this repository:
its Linux runtime and event loop, its media pipeline and backends, the V4L2 and
ALSA capture nodes, the selection of a backend and the buffers handed to it, and
the control plane around it all. TLC checks the models on small instances; TLAPS
proves their safety properties for every value of their constants. Paths below are
relative to the repository's root (`src/` is the implementation, `include/` its
headers).

Every module is translated from the code, not from the design documents; where
the two disagree, a run of its own shows it (see *Findings*).

## 1. The system

EAVP is a library. A host program builds a `MediaPipeline` out of `MediaNode`s
(capture sources, processors, encoders, sinks) connected by typed ports, and
either ticks it itself or hands it to `LinuxPlatformRuntime`, whose single reactor
thread waits on the devices' descriptors and ticks what is ready. A control plane
keeps a desired and an actual state and reconciles the two.

| Component | State it keeps | Operations | Hard part | What makes it correct |
|---|---|---|---|---|
| **LinuxPlatformRuntime** `src/platform/linux/platform_runtime.cpp` | lifecycle state, the run's results, stop request, wakes in flight, claim on the join, registered pipelines, the thread | `register_pipeline`, `start`, `stop`, destructor; the reactor's loop | control threads race the reactor and one another; wake against close; double join; failures half way through start and drain | one verdict for all callers; joined once; the eventfd never written after close; *Stopped* means drained; every call returns |
| **LinuxEventLoop** `linux_event_loop.cpp` | epoll and event descriptors, sources, tokens | `initialize`, `register_source`, `wait_once`, `wake`, `close` | rollback of half a registration; events for removed descriptors | tables and kernel agree; a failed registration leaves nothing |
| **MediaGraph** `src/media/graph.cpp` | nodes, edges | `add_node`, `connect`, `topological_order` | insert, recompute, take back | acyclic always; refuses cycles only; the order is topological |
| **MediaPipeline**, **MediaNode** `pipeline.cpp`, `node.cpp` | state, graph, nodes, drain order and index | `add_node`, `connect`, `start`, `tick`, `stop`, `cancel`, destructor | rollback of a start; a drain in instalments; resets that fail; hooks that throw; re-use of old orders | start is all or nothing; a drain is a frontier; *Stopped* holds nothing |
| **Ports, queues, backend nodes, reference backends** `port.hpp`, `queue.hpp`, `backend_node.cpp`, `reference_backend.cpp` | bounded queues, pending slots, the backend's delayed queue | `send`/`receive`, `submit`/`receive`/`drain`, `tick`/`stop`/`reset` | backpressure at several points at once; drain through delay; device loss; refused reset; restarts | nothing lost, doubled or overtaken; drains end having delivered everything |
| **V4L2 capture** `v4l2_system.cpp`, `v4l2_capture.cpp` | descriptor, kernel buffers, mappings; formats, pending frame, last timestamp and sequence | the lifecycle hooks, one system call after another | any call fails at any point; the start's rollback; sequence wrap; backpressure | the session is accounted for; buffers return to the driver; no frame vanishes in silence |
| **ALSA capture** `alsa_system.cpp`, `alsa_capture.cpp` | PCM handle, suspend flag; partial frame, pending frame, anchor, samples emitted, discontinuity | the lifecycle hooks, reading, anchoring, recovering | the device captures, overruns and suspends by itself | samples are dated by their frames; gaps are marked; the device is closed |
| **Control plane** `src/control/*` | versioned maps, desired and actual | `set`/`erase`/`snapshot`, commands, `reconcile_once` | actual state is a cache of a pipeline that also changes by itself | converges; never claims a state it is not in |
| **SimulatedPlatform, ReferenceMediaPlatform** `src/platform/*.cpp` | control plane plus pipeline, health, metrics | `initialize`, `dispatch`, `reconcile_once`, `tick`, `reset_pipeline` | failures between pipeline and published state | published state follows the pipeline |
| **BackendRegistry, Capability** | providers, frozen flag | `register_provider`, `freeze`, `select_*` | ranking and diagnostics over many candidates | the best match is chosen, whatever the order of registration |
| **Buffer, MappedRegion** | storage, planes, live mappings | `map_plane`, `unmap`, move | exactly-once unmap under moves | no two writers; storage outlives its mappings |
| **Formats, codecs, packets, metrics, health, Status/Result, configuration, API wrappers** | values | validation and formatting | none | - |

Interaction: a client selects a provider from the registry, assembles nodes into a
pipeline and gives it to a platform or the runtime; callers -> `PlatformRuntime` (mutex, condition variable, eventfd);
reactor -> `LinuxEventLoop` and `MediaPipeline` (plain calls); pipeline -> nodes
(virtual hooks); nodes -> nodes through ports and queues; nodes -> devices
through an API object that tests replace; the reconciler -> pipeline and stores.

`PROJECT.json` lists the components with what is modelled of each and the
hazards (`hazards`), each at its line with the properties that cover it.

## 2. The modules

| Module | Models | MC module, configurations | Proofs |
|---|---|---|---|
| `PlatformRuntime` | runtime, and the event loop as the runtime uses it | `MCPlatformRuntime`: `_safety`, `_live`, `_wakelost` | `PlatformRuntimeProofs` |
| `EventLoop` | the event loop's tables and the kernel's beside them | `MCEventLoop`: `_loop` | `EventLoopProofs` |
| `MediaGraph` | graph, Kahn's algorithm (recursive function) | in `MCMediaPipeline`, by `GraphSound` | - |
| `MediaPipeline` | pipeline and nodes' state machines | `MCMediaPipeline`: `_nodes` | `MediaPipelineProofs` |
| `PipelineService` | what a pipeline promises to its clients: outcome of each call by state | refined by `MediaPipeline` (`KeepsService`) | in `MediaPipelineProofs` |
| `BackendPipeline` | source, processor, encoder, sink with ports and backends | itself: `_flow`, `_stale` | `BackendPipelineProofs` |
| `V4L2Capture` | V4L2 session, node, driver | itself: `_capture` | `V4L2CaptureProofs` |
| `AlsaCapture` | ALSA session, node, device | itself: `_capture` | `AlsaCaptureProofs` |
| `ControlPlane` | stores, reconciler, commands and the two platforms over a pipeline | itself: `_control`, `_draining` | `ControlPlaneProofs` |
| `VideoLayout` | video formats, plane and buffer arithmetic, layout negotiation | through `FramePath` | in `FramePathProofs` |
| `BackendRegistry` | providers, capability matching, ranking, selection | through `FramePath` | in `FramePathProofs` |
| `FramePath` | from a selection to a buffer, its slices and maps, and a submitted frame | `MCFramePath`: `_frames` | `FramePathProofs` |

*How they compose.* `MediaPipeline` takes the order of a graph as the constant
`OrderOf`, under the assumptions it needs; `MCMediaPipeline` gives it `MediaGraph`'s
algorithm, so TLC checks those assumptions of Kahn's algorithm itself, and
`GraphSound` checks that the pipeline takes only `MediaGraph`'s steps on its graph,
in whatever state it is. `PipelineService` is the abstract specification between
the pipeline and those who drive it: `KeepsService` shows that `MediaPipeline`
implements it (a call that runs maps to a pending one, its loop's steps to
stutters), and `ControlPlane` is built on the service's `Outcomes` instead of on
nodes. `FramePath` extends `BackendRegistry`, which extends `VideoLayout`: the
layout negotiated by a selection is the one whose planes are then allocated,
sliced, mapped and submitted.

### PlatformRuntime

*State.* One variable per member of `LinuxPlatformRuntime::Impl` that the mutex
guards, under the same name; the `std::thread`; the loop's descriptors
(`loop`, `eventfd`); the reactor's position `rpc` with its local variables; and a
position `pc` and pending result per control thread.
*Steps.* One action is one critical section, or one call outside of it: `Wake` and
`JoinThread` run without the mutex as in the code, between the sections that
count them in and out. A condition variable is a guard, since every wait re-tests
its predicate under the lock and every change of it is notified.
*Abstracted.* A pipeline is the state it can be left in (a stop that asks for another
turn leaves one draining or, its last reset refused, in *Error*; `StillStopping`); a
`Status` is its origin;
`stop_timeout_ms` is `DrainPasses`, how many passes over the pipelines fit in it;
the failing clock and the failing sleep of the drain are one. *Left out:* test
hooks, metrics, `state()` and `last_failure()` (pure reads), the destructor (it is
`stop`) and a join called on the reactor's own thread (it throws
`std::system_error`).

### EventLoop

*State.* The loop's own tables (`sources` with tokens and `revents`, `next_token`,
which descriptors it holds, `invalidated`), the position of the call, and the
kernel's side: the watched set with its tokens, the eventfd's counter, what each
descriptor is ready for (level-triggered), how many descriptors are open.
*Steps.* One system call each, with either result, so that a registration may
stop after any descriptor and its rollback may fail at any. `epoll_wait` takes a
snapshot; devices change between any two steps. Other threads wake the loop from
the moment the reactor publishes *Running* (`Publish`, before the first `wait_once`)
until it closes the loop, be that after a turn that failed; a stop waits for the
publication, and the close for the wakes claimed before it, as `PlatformRuntime` has
them.
*Abstracted.* One `epoll_wait` has room for everything, as the code sizes it. *Left
out:* a second life after `close` (the runtime starts once), metrics.

### MediaGraph, MediaPipeline, PipelineService

*State.* `graph`, `node` (each node's `state_`), `state`, `drain_order`,
`drain_index`, and the position `pc`, `i` in the loop of the call that runs. One
action is one call of a node's method in a loop of `start`, `stop`, `tick` or
`cancel`, because the hook behind it may return, refuse, fail or throw, and what
an exception leaves behind depends on where it leaves. `threw` remembers whether
one ever did. A node's method is an operator from its state to the set of its
outcomes. The destructor is a call of `stop` whose result is lost, followed by
the nodes' own destruction. One thread uses a pipeline, as the design demands.

### BackendPipeline

*State.* A record per node with its input queue, its two pending slots and its
backend's queue and state, plus where the loop of `tick` or `stop` is. A node's
`tick` and `stop` are computed as a chain of the calls inside them (send pending
output, receive, send, submit pending input, receive, submit), each passing the
nodes on to the next. The processor and the encoder node are the same code twice;
one definition stands for both.
*Failures.* In a node's call one thing may go wrong that is not of its own making,
chosen from the constant `Faults`: the source's buffer or frame cannot be created, a
counter or the sink's gauge cannot be set, a port or a backend has no memory for a
push, an output cannot be made (no memory, or a frame that cannot be encoded, which
also puts an encoder in *Error*). Each is placed where the code meets it, so that the
call leaves behind what it had done by then: a frame created and pending, a packet
out of the queue. `"stall"` is no failure; it stands for a consumer that is itself
held up, which the reference sink never is. `cause` remembers the step that failed.
*Not assumed:* `OutputDelay < QueueCapacity`, which no line of the code tests. It
holds in the instance that checks liveness, for `DrainEnds` fails without it (see the
observations); what is proved does not need it.
*Left out:* a call from another thread than the backend's, which it refuses.

### V4L2Capture

*State.* What `V4L2System` and the node remember (`sys`, `fd`, `kernel_buffers`,
`regions`, `formats`, `pending`, `last`), what the device really holds (`held`,
`driver`, `streaming`) and the frames it has produced. One action is one system
call with either result, so that a failure can come anywhere in `prepare`,
`start` and `reset`; the rollbacks run the same release loop as `reset`. The tick
is dequeue, copy and requeue, send. Timestamps and the 32-bit sequence are kept
(`Modulus` for 2^32); pixels, planes, formats and metrics are not; `last` is the
newest *captured* frame. The destructor (`cleanup_noexcept`) releases in the same
order as `reset` and loses the results. *Left out:* retries on `EINTR`; `ENOENT`,
which the code maps to a retry and V4L2 does not return from these calls;
exceptions out of the API object, which the Linux one never throws.
*Assumed:* a driver never drops `Modulus` frames between two it delivers.

### AlsaCapture

*State.* The node's timeline (`partial`, `pending`, `anchor`, `emitted`,
`discontinuity`), `suspended`, and a device that captures one sample per unit of
time into a ring of `BufferFrames`. A sample is named by the time at which it was
captured, so that a timestamp can be compared with the truth. The device moves
between any two steps: it captures, overruns when the ring is full, suspends. A
tick is at most three steps (clock and anchor, read, send), for time may pass
between them. Lifecycle calls are one step each; a failed parameter call is a
failed `prepare`, which closes the device. *External:* after a `snd_pcm_start` the ring
is empty; a successful `snd_pcm_resume` leaves in it what was captured before the
suspend and not read, and the device goes on behind that (`Resumes`). `spliced` keeps
the times at which this happened: those samples are dated too late, and the gap
behind them is not marked (see the observations). `TimelineExact` and `GapsMarked` say that
nothing else is: resumes of a ring with samples are among their behaviours, and only
what a resume kept is excepted.

### ControlPlane

*State.* `desired` and `actual` by key, the platform's `health` entry, the pipeline
(its state in `PipelineService`, `"none"` while the pointer is null), and where
the owning thread is: the writes `todo` of the current step and the `status` that
will be returned. `platform` chooses between `SimulatedPlatform` and
`ReferenceMediaPlatform`, whose calls differ in what they publish.
*Steps.* One thread owns the pipeline and calls `initialize`, `reconcile_once`,
`tick` and `reset_pipeline`. `dispatch` and readers come between any two store
writes, each of which is a step and may run out of memory (`StoreStarves`, which
`starved` remembers, because what has half been published is then not repaired).
`MaxTrouble` bounds how often a node or memory may fail. *Left out:* the stores'
version counter and the values of other keys; the packets the nodes handle.

### VideoLayout, BackendRegistry, FramePath

*State.* The registered providers and `frozen`; the last selection with the probes
it saw; one storage with its address, the buffers over it, the client's mapped
regions, and how many maps of the storage are not undone.
*Steps.* `register_provider`, `freeze`, a selection (every provider probed anew, with
any of its answers), `Buffer::create`, slices, `map_plane` (which the storage may
refuse or cut short), the moves and the destruction of regions, and the
submission of a frame, which checks the addresses the request only promised.
*Abstracted.* `std::size_t` is `0..MaxSize`, small enough to overflow; every
operation of a layout grows its value, so overflow is looked at once, at its end.
The client selects once per behaviour and after freezing, as the platforms do:
`select_*` is const and returns a copy. *Left out:* the map mode, the bytes of the
storage, `export_dmabuf`, the text of rejections.

## 3. The runs

| Run | Instance | Properties | What it shows |
|---|---|---|---|
| `runtime_safety` | 3 callers, 2 pipelines with a source each, every step may fail | `TypeOK` `WakeNeedsOpenLoop` `SingleJoinOwner` `ReturnedMeansJoined` `ExitLeavesNothing` | the races of start, stop, wake, join and close are harmless |
| `runtime_live` | 2 callers, 1 pipeline, wakes succeed | `StopReturns` `StartCompletes` | every call returns |
| `runtime_wakelost` | as before, wakes may fail | `StopReturns` (violated) | finding 1 |
| `event_loop` | 3 sources over 4 descriptors, two of them sharing one, any call may fail | `TablesMatchKernel` `OwnEventsShown` `NoWakeLost` `NoSourceStarves` | tables and kernel agree; events and wakes reach whom they belong to |
| `pipeline_nodes` | 3 nodes, all graphs built in any order, hooks that fail, wait or throw | `TypeOK` `RunningTogether` `StoppedIsQuiet` `DrainFrontier` `DestroyLeavesQuiet` `StartAllOrNothing` `ResetReachesAll` `GraphSound` `KeepsService` | no call leaves a node active; the contract is kept |
| `backend_flow` | queues of 1 and 2, delay 1, loss after 10, refused reset, a sink held up, all seven failures, 12 frames, 2 sessions | `NothingLost` `FlowInOrder` `DrainDeliversAll` `DrainEnds` `OnlyFaultsFail` | frames survive every backpressure and drain; errors come from outside the nodes |
| `backend_stale` | no delay, loss after 2, 3 frames, 2 sessions | `SessionsDoNotMix` (violated) | finding 2 |
| `v4l2_capture` | 3 buffers, sequence modulo 4, 8 frames | `SessionAccounted` `BuffersInPlace` `FramesAccounted` | sessions and frames are accounted for whatever fails |
| `alsa_capture` | frames of 2 samples, ring of 2, clock to 9 | `DeviceAccounted` `TimelineExact` `GapsMarked` | samples are dated and gaps marked, but for what a resume leaves in the ring |
| `control` | both platforms, commands at any time, 5 failures | `PublishedTruth` `NoErrorBesideRunning` `StopConverges` `StartSettles` | the published state follows the pipeline; commands are carried out |
| `control_draining` | as before, 2 failures | `DrainingIsDraining` (violated) | finding 3 |
| `frames` | 4 provider objects under 3 ids, 126 requests over 8 layouts, 4 shapes of storage | `BestSelected` `NegotiatedIsUsable` `MapsAccounted` `BuffersHonest` `PromiseKept` | the best provider is selected, its layout is usable, its buffers honest |

*Why the bounds suffice.* Three callers give a start and two stops at once, which
is what the claim on the join and the wake count are about; two pipelines give a
drain a finished one and a blocked one, and a cancel an order. Three nodes have a
node before, at and after the frontier, in a chain, a fork and a join; a hook
throws in pipelines of at most two nodes (`ThrowBound`), which have a node before
and a node after the one that throws. Two sources that share a descriptor make the
second registration fail in the code itself, and one with two descriptors fails
half way; a counter of 2 has a wake after a wake, two interruptions a retry and a
give-up. Twelve frames fill every place a frame can be in (ports, slots and queues
together) and leave the loss of the device until after that; each failure meets each
node, before and in a drain, and in a second session. Three V4L2 buffers
distinguish first, middle and last in the queue and mapping loops; eight frames
pass the wrap of the sequence twice. Nine units of time (the ring's two have passed
when the device is opened) are enough for a frame, an overrun or a suspend, a resume
with samples in the ring, and the two frames after it. Five failures let a start, a
drain, its reset, a rebuild and a store write fail in one behaviour. A memory of
128 bytes (`MaxSize` = 127) holds each picture of 4 by 2 pixels, and no longer all
of those that are laid out again under stricter alignments; one id is reported
by two providers, so a registration is refused; two regions are enough to be
moved between, and two buffers to slice a slice. Frames are followed for three
of the requests (`Framed`): a layout taken as it is, one that is converted, one
at an offset. A negotiated layout is looked at from four addresses (`Addresses`), the
one that is aligned for everything among them and one aligned for nothing.

Symmetry: callers (the same code, and no property orders them) and regions are
symmetric; no run with a temporal property uses it.

`CHECK_DEADLOCK FALSE` stands where the system may stop: a destroyed pipeline or
node, a platform whose `initialize` failed, a bound that is reached.

*Fairness.* `runtime_live` assumes that threads keep running: the reactor's
enabled steps and those of a caller inside a call are eventually taken, and a
wait on the event loop returns once the eventfd is readable (not that a device
ever has an event). Nothing is assumed of clients calling anything.
`event_loop` assumes that the reactor takes its next turn and that `epoll_wait`
returns when it has an event. `backend_flow` assumes that a call runs to its end,
that whoever stops a pipeline calls `stop` again while it returns `kWouldBlock`
(`PlatformRuntime`'s drain loop and the reconciler do), and that a consumer is
not held up, or refused memory, every time it is asked. `control` assumes that a call once made goes
on and that the owner keeps calling `reconcile_once`, whatever else it calls
between (strong fairness, since other calls disable it for a while); ticks,
resets and commands need never come.

## 4. The proofs

Every safety invariant and action property of the runs is proved, and so is the
refinement; what is left to TLC is listed at the end. A module's proofs have the
same shape. The property is seldom inductive, so a stronger invariant is, made
of named parts (in the module itself, or in the proofs where it is only their
bookkeeping); there is a lemma for each action or group of actions that can
disturb a part, one that composes them into `Inv /\ [Next]_vars => Inv'`, and a
last temporal step. The assumptions are the `ASSUME`s of the modules, which TLC
evaluates in the runs.

**`PlatformRuntimeProofs`**, for any finite sets of callers, pipelines and sources
and any failure flags. That the reactor finds no wake in flight says nothing
unless the count equals the callers that are about to write. `IInv` is `TypeOK`,
`WakesCounted` (`wake_in_flight` is the number of callers between counting in and
out), `PhaseInv` (which reactor positions go with which lifecycle state and which
descriptors are open), `JoinInv` (claim, completion and thread agree, with one
caller in the section), `PipesInv` (which pipelines the reactor has started, drained
or cancelled at each position) and `VerdictInv` (what its recorded failures come to
as the result that callers are given). Each part has a lemma for the callers and
one for the reactor. `ExitSafety` needs the last two.

**`MediaPipelineProofs`**, for any finite set of nodes, any graph and any `OrderOf`
that lists a graph's nodes once each (`OrderAssumption`). `Inv` is `TypeOK`,
`Control` (where each loop runs, and that the order in use is that of the graph),
`Together` (all nodes of a running pipeline run, those before the start loop's
position already) and `DrainFrontier`; it holds with exceptions too. `Reach` adds
that only nodes of the drain order are ever active and that a reset loop without
a failure leaves created nodes behind it, which gives `ResetComplete` although
nodes may have been added since the order was computed. `Settled` says what start,
its rollback, the resets and the destructor have let go of as long as no hook has
thrown (after a throw it may be otherwise, see the observations), and gives
`StoppedSafety`, `DestroySafety` and `StartAtomic`. `Serving` says which call each
loop belongs to, and in which state: with it each step of the detailed pipeline is
shown to be a step of `PipelineService` or a stutter under the refinement mapping
(`ServiceRefined`): the status returned is one the service allows for the state
the call was made in.

**`EventLoopProofs`**, for any sources, descriptors and events. `TablesInv` follows a
registration descriptor by descriptor: what it has added is known up to the last
as long as every removal of a rollback succeeded, and a token once given is no
other's, so an event finds its own source. `WakesInv` says that no wake
is read without being told, `ReportInv` keeps what `epoll_wait` returned to what was
asked for. `WakeSafety` is about wakes at any point from the publication to the close:
before the first wait the counter alone holds them, and a turn that fails owes them
nothing, since the reactor then leaves.

**`ControlPlaneProofs`**. The published state is written key by key, so the invariant
is about the writes that are still to come: `WritesInv` says what each call has
still to write and in which order, so that no reader sees an error beside a
running pipeline, `CleanInv` that details of an error remain only until they are
cleared, and `TruthInv` that what is published is so wherever it is not about to
be overwritten. Both of the latter are claimed only
while no write has run out of memory.

**`V4L2CaptureProofs`**, for any number of buffers and any modulus. `SessionInv` says
for each system call of `prepare`, `start` and `reset` how much of the session there
is before it, whichever failed. `FramesInv` balances frames produced against those
sent, pending and counted as lost. Its one hard step is arithmetic: the gap that
the node computes modulo 2^32 is the true one, because a driver drops fewer than
`Modulus` frames between two.

**`AlsaCaptureProofs`**, for any frame and ring sizes. `DeviceInv` relates node,
session and device. `RingInv` is about the ring: what it holds was captured
before now, in order, and each sample no later than its distance from the ring's end
says, exactly then unless a resume kept it; and sent frames, pending frame, partial
block and ring are one sequence that has gaps only where a resume joined it.
`TimelineInv` says that the samples held by the node are those before the ring's, and
that the anchor moved on by what was sent dates the first of them (or earlier by the
fallback's lag); `GapsInv` that samples are missing after the newest frame only if the
next one will be marked, or a resume joined the two.

**`BackendPipelineProofs`**, for any capacities, delay, faults and bounds. Ports, slots and backends are seen as eleven
stretches of one sequence, from what is delivered to the source's pending frame;
every call inside a node's `tick` and `stop` either moves the first frame of a
stretch to the end of the next, or nothing. The frames are then in order
(`Good`), all older than the next to be created (`Fresh`), and all there
(`Whole`); what the calls do is proved once for the chain that a node runs, and
`PhaseInv` with its `DrainInv` says which nodes a drain has emptied. So a drain
that ends has nothing left anywhere but in what was delivered. That a call fails
only if something was denied to it (`Denied`: a failure from outside, or the device
lost) is carried through the same chain, and `PhaseInv` excludes every other refusal:
`FaultSafety`.

**`FramePathProofs`**, for any providers, answers, requests, constraints and sizes.
Sizes come first. Euclid's function is recursive, and so is a layout: that the
function its equation describes exists is shown by giving one, and what it yields
by the principle of the least number (a least right size with a wrong divisor
would have a lesser remainder with one), which stands in for induction. A
layout has three planes at most, since a pixel format has, and is unfolded. With
the least common multiple of two alignments a multiple of each, every plane
fulfils its constraint (`LaidOutTold`). `RegistryInv` says that a successful
selection is the negotiation with what one provider answered, the best one: a
best exists because scores are four numbers of which the last is the provider's
own. `MapsInv` counts the regions that hold the storage. `StorageInv` says that
buffers lie within the negotiated planes, and that the last answer is what the
provider's check gives for the storage. From these: `BestIsSelected`,
`UsableNegotiated`, `MapsSafe`, `BuffersSafe`, `PromiseIsKept`. The bound `MaxSize`
stays a parameter, so they hold at the real width of a `std::size_t`.

*Model-checked only:* the liveness properties (`StopReturns`, `StartCompletes`,
`NoSourceStarves`, `DrainEnds`, `StopConverges`, `StartSettles`), because the prover
does not reason about fairness and ENABLED; `GraphSound`, which says what Kahn's
algorithm computes and what it refuses, turn by turn of its loop; and the three
runs that show a violation.

## 5. Findings

1. `runtime_wakelost` - a stop whose `write(eventfd)` fails records the failure and
   joins all the same; nothing has woken the reactor.
2. `backend_stale` - `reset` leaves the input queues as they are; the next session
   begins with the old one's frames. `ReferenceMediaPlatform` rebuilds its
   pipeline instead, `MediaPipeline` alone does not.
3. `control_draining` - a stop whose reset is refused with `kWouldBlock` leaves the
   pipeline in *Error*; the reconciler takes the code for a drain under way and
   publishes *draining* (`pipeline_reconciler.cpp:59`), and health says ok.

Observations met while modelling, which no run reports:

- *Pipeline.* An exception out of a hook leaves `start` with nodes prepared and the
  pipeline *Created*; the destructor's `stop` then only changes the state
  (`pipeline.cpp:158`). `connect` is accepted in *Error* while the old drain order
  is kept (`pipeline.cpp:45`).
- *Backends.* `ReferencePacketSink` has no `on_reset`, and its `on_stop` sets the gauge
  of an empty queue outside its try block: an exception there leaves `stop` with the
  pipeline *Draining*.
- *Delay and queue.* An encoder whose `output_delay` is not shorter than its
  `queue_capacity` gives nothing out before a drain (`reference_backend.cpp:415`) and,
  once full, takes nothing in (`:388`), while the drain begins only when the input is
  used up: `stop` returns `kWouldBlock` for ever, although
  `src/docs/superpowers/specs/2026-08-18-eavp-media-backend-foundation-design.md:290`
  promises that a drain outputs everything and ends. `DrainEnds` shows it when
  `BackendPipeline_flow.cfg` is given `QueueCapacity = 1`.
- *ALSA.* A resume that succeeds only clears `suspended_` (`alsa_system.cpp:508`). What
  the ring holds from before the suspend is read into the frame after it. The anchor, the
  ring's time less what it holds, dates it too late by the length of the suspend, and
  the gap behind it falls into that frame or one that is not marked, while
  `src/docs/migrations/0.2-to-0.3-audio.md:38` says that `pts` is the time of the first
  sample. In `alsa_capture`, `TimelineExact` without its premise `~Kept(...)`
  shows it.
- *V4L2.* A start that cannot be undone resets the session but not the node's
  formats; `stop` and `prepare` of the bare node then succeed without a session
  (`v4l2_capture.cpp:585`). `MediaPipeline` resets such a node and hides it.
- *Control plane.* `SimulatedPlatform` keeps a published *running* after a failed
  tick and the next `reconcile_once` reports health ok; `tick(0)` reports ok. A
  `set` that runs out of memory leaves the actual state stale. `initialize`
  cannot be repeated after a failure. A `reset_pipeline` whose rebuild fails
  leaves no pipeline, while `initialize` goes on returning ok. A start requested
  during a drain publishes *error* beside a pipeline that goes on draining.
- *Selection.* Providers are probed at every selection while their ids are taken to
  be stable. When the best candidate matches but its negotiation fails, the next
  one is not tried. A negotiation does not report the address alignment it needs:
  the client learns of it when a frame is refused.

## 6. Plan

What remains worth proving:

1. `GraphSound` for any number of nodes: the algorithm's loop as an invariant over its
   turns (the degree of a node is the number of its sources not yet output),
   with the principle of the least number in the place of induction, as for
   Euclid's function. It would also discharge `OrderAssumption`.
2. The refinement `KeepsService` used the other way: that `ControlPlane`, built on the
   service's outcomes, keeps its properties over `MediaPipeline` itself.

## 7. Not modelled

- V4L2 and ALSA configuration, and the wrappers of libc and libasound: argument
  validation, and calls whose results are the nondeterminism of the models.
- Audio formats, codecs and packets, and the base types (`Status`, `Result`, ids,
  time): values that are validated once and have no state.
- The values of metrics. That a counter or gauge fails is an outcome of the source and
  the sink in `BackendPipeline` and of the observers in `V4L2Capture`, `AlsaCapture` and
  `PlatformRuntime`.
- The copying of pixels and samples; `NativeBufferHandle` and `export_dmabuf`, a
  move-only descriptor that no path of the modelled code duplicates.
- The executor, a bounded loop over `tick` without state: the tick actions repeat.
- The bound on the turns of `ReferenceMediaPlatform::tick`: whether the frames arrive
  within it is an open outcome in `ControlPlane`; `BackendPipeline` shows that they
  arrive in the end.
- Test hooks.

## Running

```
tlc -workers 2 -config PlatformRuntime_safety.cfg MCPlatformRuntime
tlapm PlatformRuntimeProofs.tla
```
