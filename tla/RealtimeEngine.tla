---- MODULE RealtimeEngine ----
(***************************************************************************)
(* runtime::RealtimeEngine (modules/runtime): the I/O thread that owns the  *)
(* actuator hardware, the control thread, the lifecycle owner that starts   *)
(* and joins them, and the management calls of other threads.               *)
(*                                                                          *)
(* The four SPSC rings are bounded queues whose operations are atomic:      *)
(* SpscRing.tla shows that the ring implements them.  The HAL is the port   *)
(* hal::IActuatorHal: every call may return every status, and emergency_stop*)
(* makes the hardware safe.  Threads run at any relative speed; `now` is    *)
(* the monotonic clock all of them read.                                    *)
(***************************************************************************)
EXTENDS SafetyPolicy, PeriodicTimer, Sequences, SequencesExt

CONSTANTS
    \* RuntimeConfig, in clock ticks
    IoPeriod, ControlPeriod, CommandValidity, TargetValidity, StateValidity,
    StartupTimeout, StartupPoll,
    \* capacities of states_, commands_, targets_ and snapshots_ (0 where nobody reads them)
    StateSlots, CommandSlots, TargetSlots, SnapshotSlots,
    \* bounds of the model and the data the environment may deliver
    ArmModes,       \* RuntimeConfig::arm_actuation, the values a run may have
    MaxTime,        \* the clock stops here
    MaxSubmits,     \* number of targets submitted
    Events,         \* what the environment may do, a subset of AllEvents
    SeqSteps,       \* by how much the sequence number of a sample exceeds the last one
    SampleAges,     \* how old a sample can be when the HAL delivers it
    SampleJoints,   \* joint data of samples
    SampleFaults,   \* fault bits of samples
    Targets         \* what may be submitted: creation time relative to the submission,
                    \* lease from creation to valid_until (0: no transport deadline)

\* Requests of other threads, and failures of the platform and of the HAL.
\* "setupFails" are the failures that strict thread configurations do not
\* accept, "startupTime" lets time pass before the loops run, and "snapshots"
\* means that somebody reads the snapshots.
AllEvents ==
    {"stop", "disarm", "snapshots", "startupTime", "setupFails", "spawnFails", "waitFails",
     "openFails", "sleepFails", "readFails", "readNotReady", "armFails", "writeFails"}

\* valid_config(), and what the environment may deliver.
ASSUME EngineAssumption ==
    /\ IoPeriod \in Nat \ {0} /\ ControlPeriod \in Nat \ {0}
    /\ ControlPeriod % IoPeriod = 0
    /\ CommandValidity \in Nat /\ CommandValidity >= ControlPeriod
    /\ TargetValidity \in Nat /\ TargetValidity >= ControlPeriod
    /\ StateValidity \in Nat /\ StateValidity >= ControlPeriod
    /\ StartupPoll \in Nat \ {0}
    /\ StartupTimeout \in Nat /\ StartupTimeout >= StartupPoll
    /\ {StateSlots, CommandSlots, TargetSlots} \subseteq Nat \ {0} /\ SnapshotSlots \in Nat
    /\ MaxTime \in Nat /\ MaxSubmits \in Nat
    /\ ArmModes \subseteq BOOLEAN /\ Events \subseteq AllEvents
    /\ SeqSteps \subseteq Nat /\ SampleAges \subseteq Int /\ SampleJoints \subseteq JointData
    /\ SampleFaults \subseteq BOOLEAN
    /\ Targets \subseteq [seq : Nat, offset : Int, lease : Nat, joint : JointData]

VARIABLES
    now,            \* CLOCK_MONOTONIC
    armActuation,   \* RuntimeConfig::arm_actuation
    \* atomics shared by the threads
    running, lifecycle, stop, fatal, disarm, armed, faultLatched, ioStartup, ctlStartup,
    \* rings
    states, commands, targets, snapshots,
    \* lifecycle owner
    ownerPc,
    \* I/O thread
    ioPc, ioNext, ioBegin, lastRead, state, command, safeEntered,
    \* hardware behind the HAL: "closed", "safe", "energized" or "abandoned" (see Closed)
    hal,
    \* control thread
    ctlPc, ctlNext, ctlBegin, target, hasTarget, lastTargetSeq, lastStateSeq,
    \* submissions made
    submits

ownerVars == <<ownerPc, running, lifecycle>>
flags == <<stop, fatal, disarm, armed, faultLatched, ioStartup, ctlStartup>>
rings == <<states, commands, targets, snapshots>>
ioVars == <<ioPc, ioNext, ioBegin, lastRead, state, command, safeEntered, hal>>
ctlVars == <<ctlPc, ctlNext, ctlBegin, target, hasTarget, lastTargetSeq, lastStateSeq>>
mgrVars == <<submits>>
vars == <<now, armActuation, ownerVars, flags, rings, ioVars, ctlVars, mgrVars>>

None == "none"

\* try_push: a full ring drops the new value.
TryPush(ring, value, slots) == IF Len(ring) < slots THEN Append(ring, value) ELSE ring

Init ==
    /\ now = 0
    /\ armActuation \in ArmModes
    /\ ownerPc = "created" /\ running = FALSE /\ lifecycle = "Created"
    /\ stop = FALSE /\ fatal = FALSE /\ disarm = FALSE /\ armed = FALSE
    /\ faultLatched = FALSE /\ ioStartup = 0 /\ ctlStartup = 0
    /\ states = << >> /\ commands = << >> /\ targets = << >> /\ snapshots = << >>
    /\ ioPc = None /\ ioNext = 0 /\ ioBegin = 0 /\ lastRead = 0
    /\ state = NoSensorFrame /\ command = NoCommand /\ safeEntered = FALSE
    /\ hal = "closed"
    /\ ctlPc = None /\ ctlNext = 0 /\ ctlBegin = 0
    /\ target = NoTarget /\ hasTarget = FALSE
    /\ lastTargetSeq = 0 /\ lastStateSeq = 0
    /\ submits = 0

\* Mutant of RuntimeState: a stop hides the fault.
RuntimeStateStopFirst ==
    IF lifecycle \in {"Stopped", "Created"} THEN lifecycle
    ELSE IF stop THEN "Stopping"
    ELSE IF faultLatched \/ fatal THEN "FaultLatched"
    ELSE IF armed THEN "Armed" ELSE lifecycle

\* RealtimeEngine::state().
RuntimeState ==
    IF lifecycle \in {"Stopped", "Created"} THEN lifecycle
    ELSE IF faultLatched \/ fatal THEN "FaultLatched"
    ELSE IF stop THEN "Stopping"
    ELSE IF armed THEN "Armed" ELSE lifecycle

LoopsRun == ioStartup # 0 /\ ctlStartup # 0

Tick ==
    /\ now < MaxTime
    /\ LoopsRun \/ "startupTime" \in Events
    /\ now' = now + 1
    /\ UNCHANGED <<armActuation, ownerVars, flags, rings, ioVars, ctlVars, mgrVars>>

-----------------------------------------------------------------------------
(* The lifecycle owner: start() and join(). *)

StartBegin ==
    /\ ownerPc = "created"
    /\ running' = TRUE /\ lifecycle' = "Starting" /\ ownerPc' = "reset"
    /\ UNCHANGED <<now, armActuation, flags, rings, ioVars, ctlVars, mgrVars>>

\* The flags are reset and the memory is locked; with strict threads a
\* failure to lock it ends the start.
StartReset ==
    /\ ownerPc = "reset"
    /\ stop' = FALSE /\ ioStartup' = 0 /\ ctlStartup' = 0
    /\ \/ /\ fatal' = FALSE
          /\ ownerPc' = "spawnIo" /\ UNCHANGED <<running, lifecycle>>
       \/ /\ "setupFails" \in Events
          /\ fatal' = TRUE
          /\ ownerPc' = "joined" /\ running' = FALSE /\ lifecycle' = "Stopped"
    /\ UNCHANGED <<now, armActuation, disarm, armed, faultLatched, rings, ioVars, ctlVars, mgrVars>>

SpawnIo ==
    /\ ownerPc = "spawnIo"
    /\ ioPc' = "configure" /\ ownerPc' = "spawnControl"
    /\ UNCHANGED <<now, armActuation, running, lifecycle, flags, rings, ioNext, ioBegin, lastRead,
                   state, command, safeEntered, hal, ctlVars, mgrVars>>

SpawnControl ==
    /\ ownerPc = "spawnControl"
    /\ ctlPc' = "configure" /\ ownerPc' = "wait"
    /\ UNCHANGED <<now, armActuation, running, lifecycle, flags, rings, ioVars, ctlNext, ctlBegin,
                   target, hasTarget, lastTargetSeq, lastStateSeq, mgrVars>>

\* std::thread throws.
SpawnFails ==
    /\ ownerPc \in {"spawnIo", "spawnControl"} /\ "spawnFails" \in Events
    /\ fatal' = TRUE /\ stop' = TRUE /\ ownerPc' = "join"
    /\ UNCHANGED <<now, armActuation, running, lifecycle, disarm, armed, faultLatched, ioStartup,
                   ctlStartup, rings, ioVars, ctlVars, mgrVars>>

\* wait_for_startup returns false: the thread failed, or 1000 polls of one
\* millisecond did not see its answer.
WaitForStartupFails(startup) ==
    startup < 0 \/ (startup = 0 /\ "waitFails" \in Events)

\* Both threads are up.
OwnerReady ==
    /\ ownerPc = "wait" /\ ioStartup > 0 /\ ctlStartup > 0
    /\ ownerPc' = "started" /\ lifecycle' = "Ready"
    /\ UNCHANGED <<now, armActuation, running, flags, rings, ioVars, ctlVars, mgrVars>>

\* Mutant of OwnerNotReady: the threads are not told to stop.
OwnerNotReadyKeepsRunning ==
    /\ ownerPc = "wait"
    /\ \/ WaitForStartupFails(ioStartup)
       \/ ioStartup > 0 /\ WaitForStartupFails(ctlStartup)
    /\ stop' = stop /\ ownerPc' = "join"
    /\ UNCHANGED <<now, armActuation, running, lifecycle, fatal, disarm, armed, faultLatched,
                   ioStartup, ctlStartup, rings, ioVars, ctlVars, mgrVars>>

OwnerNotReady ==
    /\ ownerPc = "wait"
    /\ \/ WaitForStartupFails(ioStartup)
       \/ ioStartup > 0 /\ WaitForStartupFails(ctlStartup)
    /\ stop' = TRUE /\ ownerPc' = "join"
    /\ UNCHANGED <<now, armActuation, running, lifecycle, fatal, disarm, armed, faultLatched,
                   ioStartup, ctlStartup, rings, ioVars, ctlVars, mgrVars>>

\* join() returns when both threads ended.  After a successful start the
\* owner may call it at any time.
Join ==
    /\ ownerPc \in {"started", "join"}
    /\ ioPc \in {None, "done"} /\ ctlPc \in {None, "done"}
    /\ running' = FALSE /\ lifecycle' = "Stopped" /\ ownerPc' = "joined"
    /\ UNCHANGED <<now, armActuation, flags, rings, ioVars, ctlVars, mgrVars>>

Owner ==
    \/ StartBegin \/ StartReset \/ SpawnIo \/ SpawnControl \/ SpawnFails
    \/ OwnerReady \/ OwnerNotReady \/ Join

-----------------------------------------------------------------------------
(* Management calls of other threads. *)

RequestStop ==
    /\ "stop" \in Events
    /\ stop' = TRUE
    /\ UNCHANGED <<now, armActuation, ownerVars, fatal, disarm, armed, faultLatched, ioStartup,
                   ctlStartup, rings, ioVars, ctlVars, mgrVars>>

RequestDisarm ==
    /\ "disarm" \in Events
    /\ disarm' = TRUE
    /\ UNCHANGED <<now, armActuation, ownerVars, stop, fatal, armed, faultLatched, ioStartup,
                   ctlStartup, rings, ioVars, ctlVars, mgrVars>>

\* A target made by the only producer of the ingress.
Submitted ==
    {[seq |-> t.seq, created |-> now + t.offset,
      until |-> IF t.lease = 0 THEN 0 ELSE now + t.offset + t.lease, joint |-> t.joint] :
        t \in Targets}

TrySubmit ==
    /\ submits < MaxSubmits /\ submits' = submits + 1
    /\ running /\ ~stop /\ ~disarm
    /\ \E t \in Submitted : targets' = TryPush(targets, t, TargetSlots)
    /\ UNCHANGED <<now, armActuation, ownerVars, flags, states, commands, snapshots, ioVars,
                   ctlVars>>

\* try_read_latest drains the snapshots; the newest is the caller's.
TryReadLatest ==
    /\ "snapshots" \in Events /\ snapshots # << >>
    /\ snapshots' = << >>
    /\ UNCHANGED <<now, armActuation, ownerVars, flags, states, commands, targets, ioVars,
                   ctlVars, submits>>

Management == RequestStop \/ RequestDisarm \/ TrySubmit \/ TryReadLatest

-----------------------------------------------------------------------------
(* The I/O thread. *)

\* What a HAL read at time t may deliver.
Samples(t) ==
    {[seq |-> state.seq + n, time |-> t - a, joint |-> q, fault |-> f] :
        n \in SeqSteps, a \in SampleAges, q \in SampleJoints, f \in SampleFaults}

\* A startup step fails: the hardware is stopped and closed, and the thread ends.
AbortStartup ==
    /\ fatal' = TRUE /\ ioStartup' = -1 /\ stop' = TRUE
    /\ hal' = "closed" /\ ioPc' = "done"
    /\ UNCHANGED <<disarm, armed, faultLatched, ctlStartup>>

IoConfigure ==
    /\ ioPc = "configure"
    /\ \/ /\ ioPc' = "open"
          /\ UNCHANGED <<flags, hal>>
       \/ "setupFails" \in Events /\ AbortStartup
    /\ UNCHANGED <<now, armActuation, ownerVars, rings, ioNext, ioBegin, lastRead, state, command,
                   safeEntered, ctlVars, mgrVars>>

\* hal_.open_safe().  ioNext holds the deadline of the first feedback while the thread polls.
IoOpen ==
    /\ ioPc = "open"
    /\ \/ /\ hal' = "safe"
          /\ ioPc' = IF armActuation THEN "poll" ELSE "gate"
          /\ ioNext' = IF armActuation THEN now + StartupTimeout ELSE ioNext
          /\ UNCHANGED flags
       \/ "openFails" \in Events /\ AbortStartup /\ UNCHANGED ioNext
    /\ UNCHANGED <<now, armActuation, ownerVars, rings, ioBegin, lastRead, state, command,
                   safeEntered, ctlVars, mgrVars>>

\* One read of the startup loop.  ioBegin holds the time of the next poll.
IoPoll ==
    /\ ioPc = "poll"
    /\ \/ \* a complete sample
          /\ ~stop
          /\ state' \in Samples(now)
          /\ ioPc' = "gate"
          /\ UNCHANGED <<flags, hal, ioBegin>>
       \/ \* not ready: poll again
          /\ ~stop /\ "readNotReady" \in Events /\ now < ioNext
          /\ ioBegin' = IF now + StartupPoll < ioNext THEN now + StartupPoll ELSE ioNext
          /\ ioPc' = "pollWait"
          /\ UNCHANGED <<flags, hal, state>>
       \/ \* stop, an I/O error, or not ready at the deadline
          /\ \/ stop \/ "readFails" \in Events
             \/ "readNotReady" \in Events /\ now >= ioNext
          /\ AbortStartup /\ UNCHANGED <<state, ioBegin>>
    /\ UNCHANGED <<now, armActuation, ownerVars, rings, ioNext, lastRead, command, safeEntered,
                   ctlVars, mgrVars>>

IoPollWait ==
    /\ ioPc = "pollWait"
    /\ \/ /\ now >= ioBegin
          /\ ioPc' = "poll"
          /\ UNCHANGED <<flags, hal>>
       \/ "sleepFails" \in Events /\ AbortStartup
    /\ UNCHANGED <<now, armActuation, ownerVars, rings, ioNext, ioBegin, lastRead, state, command,
                   safeEntered, ctlVars, mgrVars>>

\* Both gates are passed: the startup sample goes to the controller, the
\* timer starts and the hardware counts as safe.
IoReady ==
    /\ ioPc = "gate" /\ ctlStartup > 0 /\ ~stop
    /\ states' = IF armActuation THEN TryPush(states, state, StateSlots) ELSE states
    /\ snapshots' = IF armActuation THEN TryPush(snapshots, state, SnapshotSlots) ELSE snapshots
    /\ ioStartup' = 1
    /\ ioNext' = now + IoPeriod
    /\ command' = MakeSafeCommand(state, now)
    /\ safeEntered' = ~armed
    /\ lastRead' = now
    /\ ioPc' = "check" /\ ioBegin' = 0
    /\ UNCHANGED <<now, armActuation, ownerVars, stop, fatal, disarm, armed, faultLatched,
                   ctlStartup, commands, targets, state, hal, ctlVars, mgrVars>>

\* The control thread failed or is not seen in time, or stop was requested.
IoNotReady ==
    /\ ioPc = "gate"
    /\ WaitForStartupFails(ctlStartup) \/ (stop /\ ctlStartup > 0)
    /\ AbortStartup
    /\ UNCHANGED <<now, armActuation, ownerVars, rings, ioNext, ioBegin, lastRead, state, command,
                   safeEntered, ctlVars, mgrVars>>

\* close() of hardware nobody stopped leaves it "abandoned".
Closed(h) == IF h = "energized" THEN "abandoned" ELSE "closed"

\* Mutant of IoExit: the hardware is closed without an emergency stop.
IoExitNoStop ==
    /\ hal' = Closed(hal)
    /\ armed' = FALSE
    /\ ioPc' = "done"

\* The end of io_loop.
IoExit ==
    /\ hal' = Closed(IF safeEntered THEN hal ELSE "safe")
    /\ armed' = FALSE
    /\ ioPc' = "done"

IoCheck ==
    /\ ioPc = "check"
    /\ \/ ~stop /\ ioPc' = "wait" /\ UNCHANGED <<hal, armed>>
       \/ stop /\ IoExit
    /\ UNCHANGED <<now, armActuation, ownerVars, stop, fatal, disarm, faultLatched, ioStartup,
                   ctlStartup, rings, ioNext, ioBegin, lastRead, state, command, safeEntered,
                   ctlVars, mgrVars>>

IoWaitFails ==
    /\ ioPc = "wait" /\ "sleepFails" \in Events
    /\ fatal' = TRUE /\ stop' = TRUE
    /\ IoExit
    /\ UNCHANGED <<now, armActuation, ownerVars, disarm, faultLatched, ioStartup, ctlStartup,
                   rings, ioNext, ioBegin, lastRead, state, command, safeEntered, ctlVars, mgrVars>>

\* wait_next() returns; a disarm request is carried out.
IoWake ==
    /\ ioPc = "wait" /\ now >= ioNext
    /\ ioBegin' = now
    /\ ioNext' = NextDeadline(ioNext, now, IoPeriod)
    /\ IF disarm /\ ~safeEntered
       THEN hal' = "safe" /\ safeEntered' = TRUE /\ armed' = FALSE
       ELSE UNCHANGED <<hal, safeEntered, armed>>
    /\ ioPc' = "read"
    /\ UNCHANGED <<now, armActuation, ownerVars, stop, fatal, disarm, faultLatched, ioStartup,
                   ctlStartup, rings, lastRead, state, command, ctlVars, mgrVars>>

IoReadOk ==
    /\ ioPc = "read"
    /\ state' \in Samples(ioBegin)
    /\ lastRead' = ioBegin
    /\ snapshots' = TryPush(snapshots, state', SnapshotSlots)
    /\ states' = TryPush(states, state', StateSlots)
    /\ ioPc' = "decide"
    /\ UNCHANGED <<now, armActuation, ownerVars, flags, commands, targets, ioNext, ioBegin,
                   command, safeEntered, hal, ctlVars, mgrVars>>

\* The I/O cycle ends; begin_ns goes out of scope.
EndCycle ==
    /\ ioPc' = "check"
    /\ ioBegin' = 0

FeedbackMissing == ioBegin - lastRead > StateValidity

\* Mutant of IoReadNotReady: an armed cycle goes on without feedback.
IoReadNotReadyGoesOn ==
    /\ ioPc = "read" /\ "readNotReady" \in Events /\ ~FeedbackMissing
    /\ IF ~armActuation \/ disarm
       THEN EndCycle
       ELSE ioPc' = "decide" /\ UNCHANGED ioBegin
    /\ UNCHANGED <<now, armActuation, ownerVars, flags, rings, ioNext, lastRead, state, command,
                   safeEntered, hal, ctlVars, mgrVars>>

\* No complete feedback yet.  Before the first arm the fresh startup sample
\* may still authorize it; otherwise the cycle ends here.
IoReadNotReady ==
    /\ ioPc = "read" /\ "readNotReady" \in Events /\ ~FeedbackMissing
    /\ IF armed \/ ~armActuation \/ disarm
       THEN EndCycle
       ELSE ioPc' = "decide" /\ UNCHANGED ioBegin
    /\ UNCHANGED <<now, armActuation, ownerVars, flags, rings, ioNext, lastRead, state, command,
                   safeEntered, hal, ctlVars, mgrVars>>

\* An I/O error, or no feedback for too long.
IoReadFault ==
    /\ ioPc = "read"
    /\ "readFails" \in Events \/ ("readNotReady" \in Events /\ FeedbackMissing)
    /\ faultLatched' = TRUE /\ armed' = FALSE
    /\ ioPc' = "decide"
    /\ UNCHANGED <<now, armActuation, ownerVars, stop, fatal, disarm, ioStartup, ctlStartup, rings,
                   ioNext, ioBegin, lastRead, state, command, safeEntered, hal, ctlVars, mgrVars>>

\* hal_.emergency_stop(), unless the hardware is in the safe state already.
EnterSafeState ==
    /\ hal' = IF safeEntered THEN hal ELSE "safe"
    /\ safeEntered' = TRUE

\* Mutant of IoDecide: a disarmed engine may arm again.
IoDecideIgnoresDisarm ==
    /\ ioPc = "decide"
    /\ command' = IF commands = << >> THEN command ELSE Last(commands)
    /\ commands' = << >>
    /\ IF faultLatched THEN EnterSafeState ELSE UNCHANGED <<hal, safeEntered>>
    /\ IF faultLatched \/ ~armActuation
       THEN EndCycle
       ELSE ioPc' = "act" /\ UNCHANGED ioBegin
    /\ UNCHANGED <<now, armActuation, ownerVars, flags, states, targets, snapshots, ioNext,
                   lastRead, state, ctlVars, mgrVars>>

\* The newest command is taken over; a latched fault, a run without
\* authorization and a disarm request end the cycle.
IoDecide ==
    /\ ioPc = "decide"
    /\ command' = IF commands = << >> THEN command ELSE Last(commands)
    /\ commands' = << >>
    /\ IF faultLatched THEN EnterSafeState ELSE UNCHANGED <<hal, safeEntered>>
    /\ IF faultLatched \/ ~armActuation \/ disarm
       THEN EndCycle
       ELSE ioPc' = "act" /\ UNCHANGED ioBegin
    /\ UNCHANGED <<now, armActuation, ownerVars, flags, states, targets, snapshots, ioNext,
                   lastRead, state, ctlVars, mgrVars>>

Decision == Evaluate(state, command, ioBegin)

LatchFault ==
    /\ faultLatched' = TRUE /\ armed' = FALSE
    /\ EnterSafeState

\* An expired command is replaced by a safe one.
CommandToSend ==
    IF Decision = "CommandExpired" THEN MakeSafeCommand(state, ioBegin) ELSE command

IoActFault ==
    /\ ioPc = "act" /\ Decision \in FaultDecisions
    /\ LatchFault
    /\ EndCycle
    /\ UNCHANGED <<now, armActuation, ownerVars, stop, fatal, disarm, ioStartup, ctlStartup, rings,
                   ioNext, lastRead, state, command, ctlVars, mgrVars>>

SampleFresh == state.time <= ioBegin /\ ioBegin - state.time <= StateValidity

\* Not armed, and nothing to arm for: no valid command, or no fresh sample.
IoActIdle ==
    /\ ioPc = "act" /\ ~armed
    /\ Decision = "CommandExpired" \/ (Decision = "Accept" /\ ~SampleFresh)
    /\ command' = CommandToSend
    /\ EndCycle
    /\ UNCHANGED <<now, armActuation, ownerVars, flags, rings, ioNext, lastRead, state,
                   safeEntered, hal, ctlVars, mgrVars>>

\* hal_.arm(): on success the cycle ends, and a command is sent after the next read.
IoActArm ==
    /\ ioPc = "act" /\ ~armed
    /\ Decision = "Accept" /\ SampleFresh
    /\ \/ /\ hal' = "energized" /\ armed' = TRUE /\ safeEntered' = FALSE
          /\ UNCHANGED faultLatched
       \/ /\ "armFails" \in Events
          /\ faultLatched' = TRUE /\ hal' = "safe" /\ safeEntered' = TRUE
          /\ UNCHANGED armed
    /\ EndCycle
    /\ UNCHANGED <<now, armActuation, ownerVars, stop, fatal, disarm, ioStartup, ctlStartup, rings,
                   ioNext, lastRead, state, command, ctlVars, mgrVars>>

\* hal_.write() of the command or of the safe command that replaces it.
IoActWrite ==
    /\ ioPc = "act" /\ armed
    /\ Decision \in {"Accept", "CommandExpired"}
    /\ command' = CommandToSend
    /\ \/ UNCHANGED <<armed, faultLatched, hal, safeEntered>>
       \/ "writeFails" \in Events /\ LatchFault
    /\ EndCycle
    /\ UNCHANGED <<now, armActuation, ownerVars, stop, fatal, disarm, ioStartup, ctlStartup, rings,
                   ioNext, lastRead, state, ctlVars, mgrVars>>

Io ==
    \/ IoConfigure \/ IoOpen \/ IoPoll \/ IoPollWait \/ IoReady \/ IoNotReady
    \/ IoCheck \/ IoWaitFails \/ IoWake \/ IoReadOk \/ IoReadNotReady \/ IoReadFault
    \/ IoDecide \/ IoActFault \/ IoActIdle \/ IoActArm \/ IoActWrite

-----------------------------------------------------------------------------
(* The control thread. *)

CtlConfigure ==
    /\ ctlPc = "configure"
    /\ \/ /\ ctlStartup' = 1
          /\ ctlNext' = now + ControlPeriod
          /\ ctlPc' = "check"
          /\ UNCHANGED <<stop, fatal>>
       \/ /\ "setupFails" \in Events
          /\ fatal' = TRUE /\ ctlStartup' = -1 /\ stop' = TRUE
          /\ ctlPc' = "done"
          /\ UNCHANGED ctlNext
    /\ UNCHANGED <<now, armActuation, ownerVars, disarm, armed, faultLatched, ioStartup, rings,
                   ioVars, ctlBegin, target, hasTarget, lastTargetSeq, lastStateSeq, mgrVars>>

\* Mutant of CtlCheck: the loop condition is lost.
CtlCheckIgnoresStop ==
    /\ ctlPc = "check"
    /\ ctlPc' = "wait"
    /\ UNCHANGED <<now, armActuation, ownerVars, flags, rings, ioVars, ctlNext, ctlBegin, target,
                   hasTarget, lastTargetSeq, lastStateSeq, mgrVars>>

CtlCheck ==
    /\ ctlPc = "check"
    /\ ctlPc' = IF stop THEN "done" ELSE "wait"
    /\ UNCHANGED <<now, armActuation, ownerVars, flags, rings, ioVars, ctlNext, ctlBegin, target,
                   hasTarget, lastTargetSeq, lastStateSeq, mgrVars>>

CtlWaitFails ==
    /\ ctlPc = "wait" /\ "sleepFails" \in Events
    /\ fatal' = TRUE /\ stop' = TRUE
    /\ ctlPc' = "done"
    /\ UNCHANGED <<now, armActuation, ownerVars, disarm, armed, faultLatched, ioStartup,
                   ctlStartup, rings, ioVars, ctlNext, ctlBegin, target, hasTarget, lastTargetSeq,
                   lastStateSeq, mgrVars>>

\* Mutant of Acceptable: an older target is accepted.
AcceptableAnySeq(t) == t.seq > 0 /\ t.created <= now + ControlPeriod

\* A drained target replaces the current one if it is newer and does not lie
\* further in the future than one period.
Acceptable(t) == t.seq > lastTargetSeq /\ t.created <= now + ControlPeriod

CtlWake ==
    /\ ctlPc = "wait" /\ now >= ctlNext
    /\ ctlBegin' = now
    /\ ctlNext' = NextDeadline(ctlNext, now, ControlPeriod)
    /\ targets' = << >>
    /\ IF targets # << >> /\ Acceptable(Last(targets))
       THEN /\ target' = Last(targets)
            /\ lastTargetSeq' = Last(targets).seq
            /\ hasTarget' = TRUE
       ELSE UNCHANGED <<target, lastTargetSeq, hasTarget>>
    /\ ctlPc' = "update"
    /\ UNCHANGED <<now, armActuation, ownerVars, flags, states, commands, snapshots, ioVars,
                   lastStateSeq, mgrVars>>

StateFresh(s) ==
    /\ s.seq > lastStateSeq
    /\ s.time <= ctlBegin /\ ctlBegin - s.time <= StateValidity

TransportLeaseFresh ==
    target.until = 0 \/ (target.until >= target.created /\ ctlBegin <= target.until)

TargetFresh ==
    /\ hasTarget
    /\ target.created <= ctlBegin /\ ctlBegin - target.created <= TargetValidity
    /\ TransportLeaseFresh

\* The controller runs on a fresh sample and a fresh target, and its command
\* is pushed.  begin_ns goes out of scope.
CtlUpdate ==
    /\ ctlPc = "update"
    /\ states' = << >>
    /\ lastStateSeq' = IF states = << >> THEN lastStateSeq ELSE Last(states).seq
    /\ commands' =
          IF /\ states # << >> /\ StateFresh(Last(states)) /\ TargetFresh
             /\ UpdateSucceeds(Last(states), target)
          THEN TryPush(commands, UpdateCommand(target, ctlBegin, CommandValidity), CommandSlots)
          ELSE commands
    /\ ctlPc' = "check" /\ ctlBegin' = 0
    /\ UNCHANGED <<now, armActuation, ownerVars, flags, targets, snapshots, ioVars, ctlNext,
                   target, hasTarget, lastTargetSeq, mgrVars>>

Control == CtlConfigure \/ CtlCheck \/ CtlWaitFails \/ CtlWake \/ CtlUpdate

Next == Tick \/ Owner \/ Management \/ Io \/ Control

Spec == Init /\ [][Next]_vars

\* A thread before its deadline is asleep: nothing obliges its sleep to fail.
IoAwake == (ioPc = "wait" => now >= ioNext) /\ (ioPc = "pollWait" => now >= ioBegin)
CtlAwake == ctlPc = "wait" => now >= ctlNext

\* Threads that can run do run, and time passes.
Fairness ==
    /\ WF_vars(Tick) /\ WF_vars(Owner)
    /\ WF_vars(IoAwake /\ Io) /\ WF_vars(CtlAwake /\ Control)

FairSpec == Spec /\ Fairness

-----------------------------------------------------------------------------
(* Properties. *)

FlagTypes ==
    /\ armActuation \in BOOLEAN /\ running \in BOOLEAN
    /\ stop \in BOOLEAN /\ fatal \in BOOLEAN /\ disarm \in BOOLEAN
    /\ armed \in BOOLEAN /\ faultLatched \in BOOLEAN
    /\ safeEntered \in BOOLEAN /\ hasTarget \in BOOLEAN

SharedTypes ==
    /\ now \in 0..MaxTime
    /\ lifecycle \in {"Created", "Starting", "Ready", "Stopped"}
    /\ ioStartup \in {-1, 0, 1} /\ ctlStartup \in {-1, 0, 1}
    /\ ownerPc \in {"created", "reset", "spawnIo", "spawnControl", "wait",
                    "started", "join", "joined"}
    /\ submits \in 0..MaxSubmits

RingTypes ==
    /\ states \in Seq(SensorFrames) /\ Len(states) <= StateSlots
    /\ commands \in Seq(CommandFrames) /\ Len(commands) <= CommandSlots
    /\ targets \in Seq(ControlTargets) /\ Len(targets) <= TargetSlots
    /\ snapshots \in Seq(SensorFrames) /\ Len(snapshots) <= SnapshotSlots

IoTypes ==
    /\ ioPc \in {None, "configure", "open", "poll", "pollWait", "gate", "check", "wait",
                 "read", "decide", "act", "done"}
    /\ ioNext \in Int /\ ioBegin \in Int /\ lastRead \in Int
    /\ state \in SensorFrames /\ command \in CommandFrames
    /\ hal \in {"closed", "safe", "energized", "abandoned"}

CtlTypes ==
    /\ ctlPc \in {None, "configure", "check", "wait", "update", "done"}
    /\ ctlNext \in Int /\ ctlBegin \in Int
    /\ target \in ControlTargets
    /\ lastTargetSeq \in Nat /\ lastStateSeq \in Nat

\* Every variable has its type, and no ring holds more than its slots.
TypeOK == FlagTypes /\ SharedTypes /\ RingTypes /\ IoTypes /\ CtlTypes

\* The hardware is energized only for an authorized run whose two threads
\* both passed their startup gates, and never after the run ended.  It is
\* never closed while energized: every way out of the I/O loop stops it first.
EnergizedOnlyIfAuthorized ==
    /\ hal = "energized" =>
          /\ armActuation /\ ioStartup = 1 /\ ctlStartup = 1
          /\ ioPc \in {"check", "wait", "read", "decide", "act"}
    /\ hal # "abandoned"
    /\ lifecycle = "Stopped" => hal = "closed"

\* hardware_safe_state_entered and armed_ tell what the hardware does: an
\* emergency stop is skipped only when the hardware is safe already, and
\* hardware that no longer counts as armed is stopped before its cycle ends.
FlagsTellTheHardware ==
    /\ (hal = "energized") = (ioStartup = 1 /\ ioPc # "done" /\ ~safeEntered)
    /\ armed => hal = "energized"
    /\ hal = "energized" /\ ~armed => faultLatched /\ ioPc = "decide"

\* A call of hal_.arm() or hal_.write() that is accepted.
HalOutput ==
    /\ ioPc = "act" /\ ioPc' = "check"
    /\ Decision \notin FaultDecisions
    /\ armed \/ hal' = "energized"

PositionWritten == HalOutput /\ armed /\ Decision = "Accept"

\* End-to-end freshness: however the threads are delayed and the rings are
\* filled, a position reaches the hardware only within target_validity plus
\* command_validity of the creation of its target, and only command_validity
\* after the deadline its transport gave it.
WrittenTargetIsFresh ==
    [][PositionWritten =>
          /\ ioBegin <= command.target.created + TargetValidity + CommandValidity
          /\ command.target.until # 0 => ioBegin <= command.target.until + CommandValidity]_vars

\* A command is written only in a cycle that read complete feedback: after the
\* arm transaction and after a missing answer the next output waits.
WriteNeedsFeedback ==
    [][HalOutput /\ armed => lastRead = ioBegin]_vars

\* The targets of two commands are in the order of their sequence numbers.
InOrder(c, d) ==
    c.mode = "Position" /\ d.mode = "Position" => c.target.seq <= d.target.seq

\* Targets are never reordered: the commands on their way to the hardware, from
\* the I/O thread's own to the newest in the ring, carry targets in the order of
\* their sequence numbers, none newer than the one the controller holds.
PipelineOrdered ==
    LET pipeline == <<command>> \o commands IN
    /\ \A i, j \in 1..Len(pipeline) : i < j => InOrder(pipeline[i], pipeline[j])
    /\ \A i \in 1..Len(pipeline) :
          pipeline[i].mode = "Position" => pipeline[i].target.seq <= lastTargetSeq

\* The state other threads see never goes from a fault back to operation.
FaultIsSticky ==
    [][RuntimeState = "FaultLatched" => RuntimeState' \in {"FaultLatched", "Stopped"}]_vars

\* The last time at which every thread still gets its next wake-up in the model.
Horizon == MaxTime - ControlPeriod

\* A stop request made once start() has reset the flags ends both threads, and
\* the engine stops.  A disarm request and a latched fault de-energize the
\* hardware for good.
RequestsAreServed ==
    /\ stop /\ ownerPc \notin {"created", "reset"} /\ now <= Horizon ~> lifecycle = "Stopped"
    /\ disarm /\ now <= Horizon ~> [](hal # "energized")
    /\ faultLatched ~> [](hal # "energized")

\* "A request racing this cycle takes effect no later than the next I/O cycle"
\* (realtime_engine.cpp:326): once a cycle begins after the request, the
\* hardware is not energized again.  Disarm, fault and stop are terminal for an
\* engine: it energizes the hardware at most once (runtime_ports.hpp:35).
DisarmTakesEffect ==
    /\ [](disarm /\ ioPc = "wait" => [](ioPc = "read" => [](hal # "energized")))
    /\ [](hal = "energized" => [](hal # "energized" => [](hal # "energized")))

\* start() returns: the owner and the two threads never wait for each other
\* forever, and a start that failed ends the threads it made.
StartReturns ==
    /\ ownerPc = "reset" ~> ownerPc \in {"started", "join", "joined"}
    /\ ownerPc = "join" /\ now <= Horizon ~> ownerPc = "joined"

\* architecture.md:133: request_stop() finally enters the stop and close path, of
\* every run in which nobody asks before start(): the requests meant are those of
\* other threads while the engine is running.
StopRequestIsServed ==
    [](ownerPc = "created" => ~stop) =>
        (stop /\ running /\ now <= Horizon ~> lifecycle = "Stopped")

====
