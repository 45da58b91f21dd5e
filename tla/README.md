# TLA+ specifications of rtctrl-platform

This directory holds the formal models of the real-time control platform: TLA+
modules translated from the C++ and C sources, TLC configurations that check
them on small instances, and TLAPS proofs of the results that matter most.
`PROJECT.json` maps every definition to the source lines it stands for, and
lists runs, mutants, hazards, findings and theorems.

Run a model with `tlc -config X.cfg M` and a proof with `tlapm M.tla`.

## 1. The system

rtctrl-platform controls the joints of a robot from user space. One process
runs a `RealtimeEngine`: an I/O thread owns the actuator hardware behind the
port `hal::IActuatorHal`, a control thread computes commands, and lock-free
rings join them with each other, with the source of targets and with readers
of telemetry. Adapters implement the port for a serial servo bus, a kernel
driver, a shared-memory region and a simulation. Camera, inference, preview
and voice applications run beside the control process and never inside its
loops.

| Component | State | Operations | Hard behaviour | What makes it correct |
|---|---|---|---|---|
| SPSC ring, `modules/ipc` | head, tail, slots | try_push, try_pop, drain_latest, size_approx | two threads without a lock, stale acquire loads | a bounded FIFO queue without a data race |
| Realtime engine, `modules/runtime` | lifecycle, atomics (stop, disarm, fatal, armed, fault latch, startup gates), four rings, locals of both loops | start, join, request_stop, request_disarm, try_submit, try_read_latest, io_loop, control_loop | startup handshake of three threads, delayed threads, missing feedback, requests racing a cycle, failures at every step | energized only when authorized, never closed energized, only fresh targets written, faults and disarm final, stop served |
| Safety policy, `modules/safety` | none | evaluate, make_safe_command | expiry and limit boundaries | the decision the engine acts on |
| Joint PD, policy mapper, `modules/control` | gains, last action | update, map | numeric | commands carry the lease of their target |
| Kernel mailbox driver, `kernel/driver` | safety state, staged flag, lease, watchdog timer, DMA ring, session | open, release, ARM, DISARM, SUBMIT, READ, watchdog, interrupt, suspend, resume, remove, shutdown | spinlock, mutex, hrtimer callback, interrupt, PM core, DMA | output only in ARMED, shut down in time, DMA quiet before DISARMED or free |
| Kernel mailbox HAL, `adapters/actuator/mailbox` | fd, sequence, cached feedback | the port's calls over ioctls | partial failure of SUBMIT then ARM, cached feedback | follows the driver's protocol |
| Actuator HAL and half-duplex link, `modules/actuator` | open, armed, feedback_ready, retained transmission | open_safe, arm, read, write, emergency_stop, close | a transmission still retained when the stop comes, a bus with one wire | nobody talks into an answer; a stop that was sent stands |
| Dynamixel, `adapters/actuator/dynamixel`, `modules/protocol` | seen mask, fault bits, parser | encode, decode | a frame from several packets that come in pieces, late or not at all | a frame is of one round and has all its errors |
| Shared motor region, `modules/ipc`, `adapters/ipc/posix_shm`, `adapters/actuator/shared_memory` | sequence locks, enable line, fault code, mappings | publish, read, create, attach, close, the port's calls | two processes word by word, deaths, restarts, orphaned mappings | no torn snapshot, no order of an earlier run, dead feedback is a fault |
| EtherCAT master, `adapters/ethercat/igh` | reservation, active, cycle open, bus state | activate, receive, send, close | a library call that fails anywhere | driven only on a bus that told its state; nothing stays reserved |
| Command bridge, `modules/bridge` | session, last sequence, sources, published slot | poll | loss, replay, reordering, priority takeover, backpressure | the newest valid target of the best source, once |
| Camera, `modules/capture`, `adapters/capture` | descriptors, mappings, held frame, buffer queue | create, acquire, release, close | failures anywhere in open, a failing release | a buffer has one owner; nothing is left or closed twice |
| Face video, `apps/face_recognition` | mailboxes of captured and encoded images, gallery, clients, threads | capture, main loop, enrollment, submit, publish, accept, serve, the destructors | five threads, overwriting mailboxes, exceptions at every point | what is shown belongs together, losses are told, every way out ends |
| NPU and JPEG hardware, `adapters/inference/rknn`, `mpp_jpeg.cpp` | contexts, native inputs, outputs_valid, retained input task | construct, run, encode, destroy | ownership at the point of failure | freed exactly once, no stale outputs |
| Companion, `apps/companion` (Python) | dialogue state, event queue, connection | post, action, tick, interrupt | timeouts, late answers, queue overflow | not modelled |
| Transports, POSIX real-time, numeric vision code, products, tools | descriptors | system calls, arithmetic, wiring | statuses | not modelled but for the serial statuses |

How they interact: a source (command bridge or application) calls
`try_submit`; the control thread drains `targets_` and `states_`, runs the
controller and pushes to `commands_`; the I/O thread drains `commands_`, asks
the safety policy, and writes through the HAL; it pushes samples to `states_`
and `snapshots_`. Management threads only set atomics. The HAL of the mailbox
adapter talks to the driver by ioctl, the driver to the endpoint by a coherent
DMA ring, a doorbell and an interrupt. The serial HAL talks to its servos over a
half-duplex link, the shared-memory HAL to an L0 process that owns the EtherCAT
master. In `rtctrl_face_video` a capture thread hands images to the main loop
by one mailbox and the main loop hands them to an encoder thread by another one;
an HTTP server with a thread per client shows what was encoded.

## 2. Modules

| Module | Models | Used by |
|---|---|---|
| `PreviewChannel` | the abstract channel from the camera to those who watch | `FaceVideo` refines it |
| `BoundedQueue` | the abstract FIFO queue that drops the new value when full | `SpscRing` refines it |
| `SpscRing` | `spsc_ring.hpp` | `MCSpscRing`, `SpscRingProofs` |
| `PeriodicTimer` | the deadlines of `PeriodicTimer::wait_next` | `RealtimeEngine` |
| `SafetyPolicy` | frames, `SafetyPolicy`, `JointPd::update` | `RealtimeEngine` |
| `RealtimeEngine` | `realtime_engine.cpp` | `MCRealtimeEngine` |
| `RealtimeEngineProofs`, `RealtimeEngineSafetyProofs` | proofs | |
| `KernelMailbox` | `rtctrl_mailbox.c` | `MCKernelMailbox`, `KernelMailboxProofs` |
| `VisionInterlock` | `vision_interlock.hpp` | `CommandBridge` |
| `CommandBridge` | `target_arbiter.cpp`, `framed_command_source.cpp` | `MCCommandBridge`, `CommandBridgeProofs` |
| `SerialLink` | `half_duplex_serial_link.cpp`, `posix_serial_transport.cpp` | `ActuatorStack` |
| `DynamixelProtocol` | `dynamixel_protocol.cpp`, `dynamixel_v2.cpp` | `ActuatorStack` |
| `ActuatorStack` | `protocol_actuator_hal.cpp` under the I/O loop, bus and servos | two configurations, `ActuatorStackProofs` |
| `Snapshot` | one direction of `shared_motor_abi.hpp` | `SharedMotor`, twice |
| `IghMaster` | `igh_master.cpp` | `SharedMotor` |
| `SharedMotor` | `shared_memory_hal.cpp`, `posix_shared_memory.cpp`, both processes | `SharedMotorProofs` |
| `Camera` | `capture.c`, `v4l2_capture.c` | `FaceVideo` |
| `RknnBackend` | `rknn/src/backend.cpp` | `FaceVideo` |
| `MppSession` | `mpp_jpeg.cpp` | `FaceVideo` |
| `FaceVideo` | `video_main.cpp`, `async_preview.cpp`, `preview_server.cpp`, the rest of the program | `FaceVideoProofs` |

### SpscRing

`head` and `tail` are the published indices, `headSeen` and `tailSeen` what an
acquire load returned. A call is several steps: the load of the other index
(which may return any value between the last one seen and the current one),
the copy of the slot, the release store. Values are numbered. The slots are a
function from `0..Capacity-1`, so that wrap-around is real. `drain_latest`
takes a batch whose size it computes once, as the code does. The refinement
maps the published range of the slots to the sequence of `BoundedQueue`.

This refinement is what allows `RealtimeEngine` to treat its four rings as
sequences with atomic push and drain.

### RealtimeEngine

One action per step between two visible accesses of shared state:

| Code | Actions |
|---|---|
| `start`, `join` | `StartBegin`, `StartReset`, `SpawnIo`, `SpawnControl`, `SpawnFails`, `OwnerReady`, `OwnerNotReady`, `Join` |
| `request_stop`, `request_disarm`, `try_submit`, `try_read_latest` | `RequestStop`, `RequestDisarm`, `TrySubmit`, `TryReadLatest` |
| `io_loop`, startup | `IoConfigure`, `IoOpen`, `IoPoll`, `IoPollWait`, `IoReady`, `IoNotReady` |
| `io_loop`, cycle | `IoCheck`, `IoWake`, `IoReadOk`, `IoReadNotReady`, `IoReadFault`, `IoDecide`, `IoActFault`, `IoActIdle`, `IoActArm`, `IoActWrite`, `IoWaitFails` |
| `control_loop` | `CtlConfigure`, `CtlCheck`, `CtlWake`, `CtlUpdate`, `CtlWaitFails` |

`ownerPc`, `ioPc` and `ctlPc` are the program counters. `hal` is what the
hardware does: closed, safe, energized, or *abandoned*, which stands for a
`close()` of hardware nobody stopped. The HAL is external: each call may return
each of its statuses and a read may return any sample of the configured set.
`now` is the monotonic clock; threads wake at any time after their deadline,
which is how lateness, overruns and expired leases arise.

Reductions: the check and the push of `try_submit` are one step, as are the
update of the controller and its push (nobody else writes the variables they
read in between); the two waits of the owner are one; locking memory is merged
with the reset of the flags. Joint values are symbolic: `Ok`, `OutOfRange` and
so on, one per verdict the code can give. Metrics and the report are left out,
and so is the sequence number the controller gives commands, which nothing
reads.

### KernelMailbox

A section under `state_lock` is one step; `mutex` holds the owner of
`transition_lock`. `pc`, `call` and `frame` are the locals of each user thread,
which all share the one open file; `pm` is the point of the PM core, which runs
suspend, resume, remove and shutdown one after the other. The hrtimer is four
variables: its expiry, whether it is enqueued, and its callback, which reads
the clock before it gets the lock and is enqueued again after it left it.
`hrtimer_cancel` waits for the callback. The interrupt handler acknowledges
before it takes the lock. The endpoint reads the ring while its DMA is active,
becomes quiet some time after it was disabled (or never), faults at any time,
and loses everything when the reset line is asserted; the line itself may fail.

Reductions are stated at the head of the module. The feedback ring appears only
as a protocol error that READ_FEEDBACK finds. Returns with an error that change
nothing are not steps. 32-bit ring indices are represented by the commands
between them: the code compares differences of indices modulo 2^32 with a depth
of 8, which wrap-around does not change. A suspended device is modelled beside
running calls although the freezer usually stops user threads before; this only
adds interleavings, and the finding does not depend on it.

### CommandBridge

One management thread runs the loop of `rtctrl_vision_control_replay.cpp`: it
reads the clock, reports due observations to `VisionInterlock`, checks it, and
polls the arbiter, which polls every source. `pc`, `slot`, `seen`, `got` and
`winner` are the locals of the two `poll` functions; one action is one frame,
one piece of junk or one source. A link gives any item of `Frames` at any time,
so that frames are lost, repeated and reordered without a history of what was
sent. A receive buffer holds items rather than bytes: a whole frame, the part of
one that has arrived, or junk; a full buffer loses one byte of its first item,
which is then junk. `ingress` and `lastOut` are the engine's target ring and the
last sequence the control loop accepted; `heard` is a history variable with the
last target it took of each source. The engine of this module is only its
ingress: `disarm` closes it, `Drain` empties it. What the targets do after it is
the subject of `RealtimeEngine`.

### ActuatorStack

One action is one call of the HAL together with what the I/O loop decides from
its result, so the loop is that of `RealtimeEngine` with the clock folded into
choices: a deadline has passed or not whenever a read is NotReady. The unit of
transmission is a packet, named by what it does: `tx` is what the link retains,
`wire` what the kernel took. `flush_transmit` may end after any packet, and a
failing `write()` keeps the batch, as in the code. Answers arrive in halves, so
that a read may end inside one and the parser has to resynchronise; what it finds
is stated as the positions of whole packets (`Popped`) and the incomplete one at
the end (`LeftBehind`) rather than as its loop over bytes. Each sample
knows whether a newer request has reached the servos (`old`); a frame with old
and new samples is what must not happen. The bus loses packets and parts of
packets, and always may where two ends talk at once; the bound `MaxNoise` counts
the losses that no collision explains. Reading an idle line is modelled both
ways (`IdleReads`): the code takes a read of 0 bytes for a closed line, which is
what Linux returns for the raw terminal it sets up, while docs/dynamixel.md
expects EAGAIN. A run is assumed to start on a quiet bus.

An armed cycle writes one of `Commands`. A position is sent with a Bulk Read
behind it. A command that has expired is replaced by a safe-stop command
(realtime_engine.cpp:295-300), of which the codec makes a torque-off without a
Bulk Read (dynamixel_protocol.cpp:289-292) while the engine stays armed; a command
that cannot be encoded is not sent and is an error. So a torque-off may be that of
a command or that of `emergency_stop()`. `stopLost` tells that a stop was refused
while the link held no torque-off of either kind, or that the last one on its way
was destroyed.

### SharedMotor

`Snapshot` is the sequence lock at the level of its shared words, instantiated
for commands and for feedback. Two words stand for all: `stamp` (generation and
times) and `body` (joints), each tagged with how many publications ago it was
written, so that a torn copy is one whose tags differ. The sequence number is
its parity; what comparing it tells the reader is kept as `reader.moved`.

The controller is the I/O loop over `SharedMemoryHal`, attached to a region; L0
creates the region, activates the master and cycles. Both die anywhere
(`MaxDeaths`) and start again; a region that loses its name goes on as an
orphan that only the controller sees. Time is ticks: older than one tick is too
old. What L0 does between `receive()` and `send()` is not in the repository:
docs/igh-ethercat.md gives the order, and `L0Input`, `Driven`, `L0Output` are
marked external in the map. What is driven needs a readable command within its
lease, the enable line and a ready bus.

`create_owner` takes ownership of the name only with the mapping: where ftruncate
or mmap fails, `L0CreateFails` leaves the name, without a header, and the next
`create_owner` is refused until `RemoveName`. `MaxRegions` counts the regions that
were sized, not the attempts.

`deaths` weakens two properties on purpose. A writer that dies between its two
sequence numbers leaves the parity odd, and the next one makes it even while it
writes, so that a torn snapshot can be accepted (shared_motor_abi.hpp:145):
`SnapshotsAreWhole` excepts the directions in `torn`. A controller that dies
leaves no hold frame: `OldGoalsAreNotDriven` excepts runs with a death, in which
the next controller that arms within the lease lets L0 drive the old goal.

### FaceVideo

Five kinds of threads. One step is what a thread does between two points where
another may see or change what it works on; a time-out that only makes a thread
look again is stuttering. An image is the sequence number of its frame, the
frame its pixels are of, the frame its boxes are of (the detector's output) and,
where there is a face, the frame its names are of (the recogniser's output);
these are equal unless a buffer is reused too early or stale outputs are taken.
A gallery file is the number of samples in it, 0 if it is not whole: nothing looks
at the stream between the last write and the rename (pipeline.cpp:323-335), so
that a write that falls short (`shortWrite`) is renamed like any other, while what
throws removes the temporary file. `Camera`, `RknnBackend`
and `MppSession` are what the program owns: descriptors, mappings, contexts,
tasks, with a failure after every call that acquires one. `MppSession` has one
row per call of `Session::encode` that may fail, with who refers to the frame
and to the packet there, and counts how often the handler frees them. All
failures are in one run. Reduced: four slots of clients to one, 30 frames of
warm-up to one, drawing and status text to nothing.

`PreviewChannel` is what all this is to those who watch: each frame is shown whole,
in order and once, or not at all, and a stream only goes forward. The program
refines it, `Visible` and `Watching` being the mapping.

The transitions of `FaceVideo` have no cycles but stuttering, and deadlock is checked, so that
absence of deadlock means that every way out of the program comes to its end.

## 3. Runs

Bounds: one tick is one control period; periods, validities and leases of one
to three ticks with two to five ticks of clock let every lease expire before,
at and after its use. Rings of one or two slots overflow after two values. One
joint stands for all: the policy looks at the joints one by one and stops at
the first verdict. Two targets show reordering; two user threads show every
overlap of two calls.

| Run | Question | Bounds worth noting |
|---|---|---|
| `spsc_ring` | does the ring implement the queue, without a race on a slot? | 4 slots, 6 values: wraps around |
| `engine_order` | do targets reach the hardware in the order of their sequence numbers and within their leases, however late the threads? | 2 submissions in any order of their numbers; without a lease of the transport, when the target validity of 2 ticks binds, and with one of 1 tick; 2 command slots, a snapshot ring that overflows, 4 ticks; `VIEW` without the snapshots, see below |
| `engine_liveness` | is hardware energized only behind both gates, do feedback and fault latch survive, does start() return, are stop, disarm and faults served, and is at most one output accepted after a disarm? | fair, every failure of startup and operation, authorized and not, up to the horizon below |
| `mailbox_threads` | is the safety state machine right for two threads, PM core, interrupt, endpoint and failing reset? | 3 sessions, 2 ring slots, symmetric threads |
| `mailbox_trips` | are expired outputs and faults shut down, does every call end? | fair, one thread and the PM core, leases below and above the timeout |
| `command_bridge` | does the newest live target of the best source reach the engine once, with its lease, and only behind a fresh Clear? | 2 sources, equal and different priorities, one link reopened, 2 sessions, buffer of 2 items, ingress of 1, 2 ticks; the local lease is shorter than the sources', so that only the proof of `LeasesHold` speaks of the other case |
| `actuator_serial` | is the bus used by one end at a time, are frames true, do stops stand and take effect? | fair, 2 servos, position, safe-stop and invalid commands, one lost packet, every failure of the device, both readings of an idle line |
| `shared_motor` | do snapshots, stops and faults get across between two processes? | 2 slaves, 2 attempts, one death of either process, one failing bus call, creations that fail at will |
| `vision` | does the program implement `PreviewChannel`, does what is shown belong together, do the balances of the mailboxes hold, and is nothing left behind on any way out? | 4 frames, 2 buffers, 1 client slot with 2 connections, every failure; that two slots never share a socket is left to the proof of `ClientsAreOwned` |
| `engine_lost_stop`, `mailbox_unwatched`, `actuator_dropped_stop` | three statements of the documentation that the code does not keep | see section 5 |

A run is a question about a whole component, with all its failures at once,
rather than one per kind of failure: interleavings of two failures are where
these programs go wrong. Two servos are the least that can be of two rounds; two
slaves the least of which one can be silent; two buffers the least with one out
and one being filled; two attempts the least with a retry. One death, one lost
packet or one failing bus call suffices for each property to be violated by its
mutant; that more of them change nothing is shown for the
safety properties by the proofs, not by the runs. The type invariants of four modules
are conjuncts of `EndpointIsQuiet`, `FramesAreTrue`, `NothingOutlivesItsOwner` and
`NothingIsLeft`, so that TLC checks them too; the others are proved only.

`engine_order` is run with the `VIEW` `WithoutSnapshots`: the engine pushes to the
snapshot ring but never reads it, its length decides nothing but whether a push is
dropped, and both properties are about the rest, so that two states that differ in
the snapshots alone have the same future as far as they are concerned.

`CHECK_DEADLOCK FALSE`: the clock of every bounded model stops at `MaxTime`,
an engine ends in `joined`, a removed device has nothing left to do, a bus
that may lose no more waits for a run that does not come, and L0 has no region
left to create. `vision` checks deadlock.

Fairness. In the engine each thread is weakly fair and time passes: the threads
are scheduled by the kernel, sleep on absolute deadlines and never wait for a
lock. The fairness is of waking in time; a sleep that fails is never obliged to. Nothing is assumed of management threads. The clock of the model stops at
`MaxTime`, so liveness is asked for requests made up to `Horizon`, one period
before, after which a wake-up may be cut off. In the driver the callback and the
handler are weakly fair; a call that has begun and the PM core are strongly
fair, because a kernel mutex is handed to its waiters in order. No fairness is
assumed of user threads that start calls, or of the endpoint. In the serial
stack the loop is weakly fair as long as it does not fault, the bus delivers and
the servos answer, and a kernel buffer that is looked at again and again takes
something in the end (strong fairness of a cycle that sends); no deadline, loss
or failure is ever obliged to happen.

Every property of a passing run has a mutant in `PROJECT.json`: the definition
`...OffByOne`, `...Unchecked` and so on next to the definition it replaces is a
plausible error of that code, and TLC finds the property violated with it.

## 4. Proofs

| Module | Theorems | Assumptions |
|---|---|---|
| `SpscRingProofs` | `TypeCorrect`, `RaceFree`, `DrainComplete`, `RingImplementsQueue` | the capacity is a positive natural number |
| `RealtimeEngineProofs` | `TypeCorrect`, `CyclesKeepTheirPhase` | `EngineAssumption` (what `valid_config` checks, and the types of the environment) |
| `RealtimeEngineSafetyProofs` | `OnlyAuthorized`, `FlagsAreTrue`, `FreshToTheHardware`, `FeedbackBeforeOutput`, `TargetsInOrder`, `FaultStaysLatched`, `DisarmIsFinal` | the same |
| `KernelMailboxProofs` | `TypeCorrect`, `OutputIsOwned`, `EndpointStaysQuiet`, `StagedCommandIsThere`, `SessionsStartQuiesced` | `MailboxAssumption`: types, and that `free` and `pm`, the other holders of the lock, name no user thread |
| `CommandBridgeProofs` | `TypeCorrect`, `LeasesHold`, `NothingIsForgotten`, `NeverBack`, `BestOnly`, `ClearOnly` | `BridgeAssumption`, `VisionAssumption` (types, positive capacities, leases and maximal age) |
| `ActuatorStackProofs` | `HalfDuplex`, `FramesAreOneRound`, `StopIsLast` | at least one servo; any number of losses, any set of link events, either reading of an idle line |
| `SharedMotorProofs` | `OwnedToTheEnd`, `WholeSnapshots`, `BusIsAskedFirst`, `OldGoalsAreReplaced`, `StoppedFeedbackIsNoticed` | types, at least one attempt and one slave |
| `FaceVideoProofs` | `Invariance`, `PublishedPixels`, `PublishedFaces`, `EveryFrameIsAccounted`, `ClientsAreOwned`, `NothingIsLeftBehind`, `ProgramImplementsChannel`, `GalleryIsSafe` | the assumptions of the module and of its parts: types, at least two buffers, and that slots are natural numbers, the indices of the array of clients |

Each invariant `IInv` below was checked by TLC on small instances before it was
proved. A proof has one lemma per part of the invariant, with one step per action
that touches it.

*Ring.* The invariant says that the seen indices lie between the last value the
owner of the index published and its current one, that the two published
indices are at most a capacity apart, and that every slot between them holds
the value pushed there. Race freedom follows because a slot under copy lies in
the published range of one side and outside the writable range of the other.
The refinement step needs in addition that two indices in that range with the
same remainder are equal.

*Engine.* None of the safety properties is inductive. `IInv` of
`RealtimeEngineSafetyProofs` adds: `GateInv`, the order in which the three
threads pass the startup gates; `OwnerInv`, what the owner's point says about
lifecycle and failures; `HardwareInv`, what the hardware does at every point of
the I/O thread, and that a latched fault cannot be followed by an action;
`FeedbackInv`, that an armed cycle about to decide has read a sample; and
`LeaseInv`, that every position command, in the ring or in the I/O thread's
hands, ends within its target's leases. Without `GateInv` the hardware could be
energized with `ctlStartup = 0`; without `LeaseInv` freshness of a command
popped from the ring cannot be concluded. `OrderInv` states `PipelineOrdered`
command by command; what keeps it is that no command carries a target newer than
`lastTargetSeq`, which the control loop compares every new target with.
`CyclesKeepTheirPhase` needs the types alone and a lemma about integer division.
`DisarmIsFinal` has a predicate of its own: once energized hardware is left it is
`Off`, which means that a fault is latched, that the loop has ended, or that a
disarm request waits at a step other than the one that arms; no step leaves `Off`.
The exception is real: a request that arrives after `IoDecide` has looked at it
still lets this cycle arm, and the next one takes it back.

*Bridge.* `BridgeInv` adds to the types: `LoopInv`, the locals of the two polls
at each point of the loop (a decoded target is of this poll and of this source);
`SlotInv`, an entry is of its own source; `WinnerInv`, among the slots judged so
far the winner lives and beats every live one; `DeliveryInv`, the last item of
the ingress is the published one and its number is new to the control loop;
`OrderInv`, from the arbiter's entry over the ingress to the control loop the
targets of a source only get older; and `VisionInv`, a poll without a disarm has
a recent Clear behind it. `SourceNeverGoesBack` needs `OrderInv`, because the
arbiter publishes the same target of a source again after another one expired;
`BestSourceWins` needs `WinnerInv` together with the single clock reading of a
poll.

`FlagsAreTrue`, that `armed_` and `safe_entered` tell the state of the hardware
at every point of the I/O thread, is proved only: `OnlyAuthorized` rests on it.

*Kernel mailbox.* `PmInv` says at which points of the PM core the device is out
of use, `transition_lock` held and DMA ended; `FileInv`, that a thread that opens
or releases is alone and that an ioctl holds the file open; `ArmedInv`, that
ARMED belongs to an open session and that a stop past its first section has left
it; `OutputInv`, that CONTROL goes with ARMED and that DISARMED has quiet DMA;
`RingInv`, that the ring holds commands of this session only. A stop writes
DISARMED in a later section than the one that cleared CONTROL: that nothing has
armed the device in between is what `ArmedInv` says, from the holder of
`transition_lock` (`LockIsHeld`). Watchdog and interrupt take no part in it, since
all they do is leave ARMED.

*Actuator stack.* `HalfDuplex` rests on a silence: whenever the loop may send a
transaction (`MaySend`), no packet waits, nobody is to answer, nothing has arrived
and no servo counts as seen (`SilenceInv`). It holds because a transaction ends in
its Bulk Read (`TransactionInv`) and the next command comes behind a complete frame
or behind the opening of the link. A safe-stop command has no Bulk Read: it is
written in that silence as well, and behind it the engine gets no further frame, and
so writes nothing, but the torque-off of a stop. `RoundInv` follows the answers: among what has
arrived no servo occurs twice but as the two halves of one packet, all of it
answers the last request, and no servo is both seen and still to come. A frame
needs every servo, so that it is of one round. `StopInv` speaks of the packets in
link and kernel together, because `flush_transmit` moves any number of them from
one to the other.

*Shared motor.* `WholeSnapshots` is the argument of the sequence lock. The stamp a
reader has *will fit* (`WillFit`): unless the sequence number has moved since, the
body it copies next is of the same publication. The commands need a case more
than the feedback, since `create_owner` zeroes a region under the hands of the
controller: what is found then are zeros, which drive nothing. `AgeInv`, that no
copy of a feedback stamp is younger than the region's, makes feedback that has
stopped grow old for the controller too. `GoalInv`: a goal in the region is of the
run that is on, or a hold frame is about to replace it. `RegionInv` ties the
steps of `create_owner` to what is in the region and says that a region with a header
has its L0 process unless one has died; `HalInv`, that no controller gets past its
attach at one without, as a failing `create_owner` leaves; `BusInv` ties what the master
reports to the slaves it has asked. The exceptions for a writer's death (`torn`, `deaths`)
are those of the properties, see section 2.

*Face video.* `ImageTypes` says whose pixels an image has: one that has left the
buffers is `Faithful`, one behind the inference `Recognised`. It needs
`BufferInv`, that a buffer of the camera is queued, filled or held, and never two
of these. `FlowInv` and `NewerInv` order the places an image passes from the driver
to the server. A hand-over moves it one place further or drops it, so that the
order at all places makes what is published newer than what was: the one hard step
of `ProgramImplementsChannel`, in which publishing maps to `Show`, a frame the
driver fills to `Capture`, the acceptor and the threads of clients to viewers that
come, are sent a frame and leave, and everything else to stuttering. `AccountInv` are the balances at the three places
where images are lost (`CameraAccount`, `MainAccount`, `PreviewAccount`): what came in
is what went out, what was counted as dropped, what somebody has in hand, and a rest.
`LossesAreTold` bounds the rest by three images: the one `main()` had when it threw, the job
of a worker that threw, and the job that waited when the preview was stopped. Of the
last one nobody is told, see section 5. Frames of the warm-up and corrupt ones are
given back before they are converted and are not in these counts. `GalleryInv` says
which file a save leaves; a file that a short write has cut is its exception. `CameraOwns`, `NpuInv` and
`SlotInv` say that what the program has of the system is what its objects hold;
that two slots never share a descriptor needs that connections are numbered
downwards. The server takes the least free slot, which exists because the natural
numbers are well founded: hence the assumption on `Slots`.

Only model-checked: everything temporal under fairness (`StartReturns`,
`RequestsAreServed`, `WatchdogTrips`, `FaultIsServed`,
`CallsReturn`, `AnswersBecomeAFrame`, `StopTakesEffect`), since TLAPS proves neither
liveness nor anything about `ENABLED`, and that `FaceVideo` has no deadlock. Every
other property of a passing run is stated by a theorem.

## 5. Findings

1. `engine_lost_stop`: `start()` publishes `running_` before it clears `stop_`,
   so that a stop that another thread requests in between, while the engine already
   says that it is running, is lost, against architecture.md:133. Requests made
   before `start()` do not count: the property is about runs without any.
2. `mailbox_unwatched`: with two threads on the file, the second half of one
   DISARM can cancel the watchdog of a later ARM, and the output stays on past
   its lease, against kernel/driver/README.md:42. With one thread on the file,
   which is how `KernelMailboxHal` uses it, the property holds.
3. `actuator_dropped_stop`: the kernel takes the torque-on of the arm batch and
   the link retains the Bulk Read behind it; the emergency stop of the next cycle
   is answered WouldBlock, which `emergency_stop()` does not look at
   (protocol_actuator_hal.cpp:114), and the run ends with energized servos,
   against CONTRIBUTING.md:34. Where the link takes the torque-off and the bus
   does not lose it, `StopStands` and `StopTakesEffect` hold.

Seen while modelling, without a run of their own:

- An engine that arms and disarms before the owner stores `Ready` reports
  `Armed` and then `Starting` (realtime_engine.cpp:108), for a moment.
- A DISARM that passed its first section before a removal reads STATUS after
  the registers are released (rtctrl_mailbox.c:452, against
  kernel/driver/README.md:12). Accesses to registers are not in the model.
- On Linux the first poll of a silent serial line fails at once, because a read
  of 0 bytes counts as a closed line (posix_serial_transport.cpp:83).
- An expired command makes the engine write a safe-stop command and stay armed, but
  on Dynamixel no Bulk Read goes with it: reads stay NotReady until the state validity
  has passed and a fault is latched, so that the servos do not come back with a fresh
  target. docs/architecture.md:136 has faults of I/O, values and limits latched and lets
  expiry take the safe way without. `ReleasedAndSilent` is this state of the model.
- An L0 process that died, or a `create_owner` whose ftruncate or mmap failed, leaves
  the name behind: `owner_` is set with the mapping only (posix_shared_memory.cpp:45,
  59-63, 110). `create_owner` then fails until somebody removes it (line 54;
  `RemoveName` of the model).
- apps/face_recognition/README.md:58 says that temporary file and rename keep half a
  JSON from being published; a write that falls short, as on a full disk, is not
  looked at and is renamed over the gallery (pipeline.cpp:323-335), and the program may
  still exit with 0.
- A sample that L0 took after the controller's cycle began counts as an I/O
  error and is latched as a fault (shared_memory_hal.cpp:34).
- A `receive()` that fails at a slave has already counted the slaves behind it
  as operational (igh_master.cpp:344); L0 has to go by its result, not by
  `ready()`.
- The error of the capture thread wins over an image that is already there.
- `finish()` discards a job that still waits (async_preview.cpp:110, as
  async_preview.hpp:44 says): that image is neither published nor counted as an
  overwrite, also when the program exits with 0.
- A writer of the shared region that dies between its two sequence numbers makes the
  readers of its successor accept torn snapshots (shared_motor_abi.hpp:145); no
  property covers this, see `torn` in section 2.

## 6. Plan

In this order, the most important behaviour first. A check of everything should
stay within an hour, so that later modules share runs where their questions
allow it.

1. Done: ring, engine, kernel mailbox, command bridge, serial actuator stack,
   shared motor region with the EtherCAT master, face video (section 2).
2. Done: proofs of every safety invariant and action property of the runs
   (section 4).
3. An abstract specification of the driver (who may have output, and from when to
   when), with `KernelMailbox` shown to implement it.
4. Where time remains: the mailbox HAL composed with `KernelMailbox`; the bridge
   with an arbiter that is rebuilt beside a running engine; the synthetic camera.

## 7. Not modelled

Floating-point control, the numeric code of inference and vision, byte layouts
and checksums (the codecs are modelled by what they accept); thin wrappers of
system calls, whose failures are events of the models that use them; the
simulated HAL, the kernel mailbox HAL's own state and the synthetic camera;
SocketCAN; the batch tools and the companion service, which is a Python program
beside the control system; command lines, measurements, build and deployment
scripts, experiment records. In the driver: probe failures, the feedback ring
but for its protocol errors, the read-only ioctls, and accesses to registers of
a device in reset. In the engine: metrics and the report. In the shared region:
the IMU and the liveness counter. In the camera: formats, and the argument
checks of the C interface that its only user never violates. In the preview:
HTTP, and who is told what in the status.
