---- MODULE KernelMailbox ----
(***************************************************************************)
(* kernel/driver/rtctrl_mailbox.c: the driver of the companion endpoint.    *)
(* User threads share the one open file; the PM core suspends, resumes,     *)
(* removes and shuts down the device; the watchdog hrtimer and the interrupt*)
(* run beside them, and the endpoint reads commands by DMA.                 *)
(*                                                                          *)
(* A section under state_lock is one step.  Taking transition_lock is merged*)
(* with the section that follows it, releasing it with the one before, and  *)
(* polling DMA_QUIESCED with the section that uses the answer: the poller   *)
(* holds transition_lock, so that nobody enables the endpoint in between.   *)
(***************************************************************************)
EXTENDS Integers, Sequences, FiniteSets

CONSTANTS
    Users,          \* threads that use the file
    WatchdogTimeout,\* watchdog_timeout_ns, in clock ticks
    MinLease,       \* RTCTRL_MB_MIN_REMAINING_LEASE_NS
    RingDepth,      \* RTCTRL_MB_RING_DEPTH
    \* bounds of the model and the data of the environment
    MaxTime,        \* the clock stops here
    MaxSessions,    \* number of sessions
    Leases,         \* valid_until_ns of a frame, relative to its submission
    Events          \* what the environment may do, a subset of AllEvents

\* "malformed" are frames that fail rtctrl_command_valid, repeat a sequence
\* number or, in the feedback ring, break the protocol.
AllEvents == {"fault", "malformed", "suspend", "remove", "resetFails"}

ASSUME MailboxAssumption ==
    /\ IsFiniteSet(Users) /\ {"free", "pm"} \cap Users = {}
    /\ WatchdogTimeout \in Nat \ {0} /\ MinLease \in Nat \ {0} /\ RingDepth \in Nat \ {0}
    /\ MaxTime \in Nat /\ MaxSessions \in Nat /\ Leases \subseteq Nat
    /\ Events \subseteq AllEvents

VARIABLES
    now,            \* CLOCK_MONOTONIC
    \* struct rtctrl_mailbox_dev, under state_lock
    state, staged, deadline, kick, epoch, preserve,
    \* transition_lock (its holder), `opened`, and whether the file is open
    mutex, opened, file,
    \* the hrtimer: its expiry, whether it is enqueued, its callback and the
    \* time the callback read
    expires, queued, callback, callbackTime,
    \* the interrupt handler
    irq,
    \* endpoint: CONTROL.ENABLE, DMA in progress, STATUS.FAULT, a pending
    \* interrupt, the hard reset line, the commands it has not consumed
    enabled, dma, fault, pending, reset, ring,
    \* user threads: where they are, in which call, with which frame
    pc, call, frame,
    \* PM core, and whether the devres of the device are released
    pm, released

driverVars == <<state, staged, deadline, kick, epoch, preserve>>
lockVars == <<mutex, opened, file>>
timerVars == <<expires, queued, callback, callbackTime>>
endpointVars == <<enabled, dma, fault, pending, reset, ring>>
userVars == <<pc, call, frame>>
pmVars == <<pm, released>>
vars == <<now, driverVars, lockVars, timerVars, irq, endpointVars, userVars, pmVars>>

States == {"DISARMED", "ARMED", "FAULTED", "DEAD", "STOPPING", "SUSPENDED"}
Kinds == {"POSITION", "SAFE_STOP"}
Frames == [kind : Kinds, until : Nat]
NoFrame == [kind |-> "SAFE_STOP", until |-> 0]
Commands == [kind : Kinds, session : Nat]
Free == "free"
Pm == "pm"
Holders == Users \cup {Free, Pm}

Earlier(a, b) == IF a < b THEN a ELSE b

\* When the watchdog has to trip.
Expiry == Earlier(kick + WatchdogTimeout, deadline)

\* After probe: disarmed, in its first session, DMA quiet.
Init ==
    /\ now = 0
    /\ state = "DISARMED" /\ staged = FALSE /\ deadline = 0 /\ kick = 0
    /\ epoch = 1 /\ preserve = FALSE
    /\ mutex = Free /\ opened = FALSE /\ file = FALSE
    /\ expires = 0 /\ queued = FALSE /\ callback = "idle" /\ callbackTime = 0
    /\ irq = "idle"
    /\ enabled = FALSE /\ dma = FALSE /\ fault = FALSE /\ pending = FALSE
    /\ reset = FALSE /\ ring = << >>
    /\ pc = [u \in Users |-> "idle"] /\ call = [u \in Users |-> "ioctl"]
    /\ frame = [u \in Users |-> NoFrame]
    /\ pm = "idle" /\ released = FALSE

Tick ==
    /\ now < MaxTime /\ now' = now + 1
    /\ UNCHANGED <<driverVars, lockVars, timerVars, irq, endpointVars, userVars, pmVars>>

\* rtctrl_hw_disable_locked, and the state that comes with it.
DisableAnd(next) == enabled' = FALSE /\ state' = next /\ staged' = FALSE

\* hrtimer_start
StartTimer(at) == expires' = at /\ queued' = TRUE

\* hrtimer_cancel waits for a running callback.
CancelTimer == callback = "idle" /\ queued' = FALSE /\ UNCHANGED <<expires, callback, callbackTime>>

Goto(u, label) == pc' = [pc EXCEPT ![u] = label]

\* The end of a call: transition_lock is released and the locals go.
Return(u) ==
    /\ Goto(u, "idle") /\ mutex' = Free
    /\ call' = [call EXCEPT ![u] = "ioctl"] /\ frame' = [frame EXCEPT ![u] = NoFrame]

Usable == state \in {"DISARMED", "ARMED"}

-----------------------------------------------------------------------------
(* rtctrl_stop_locked, by a user thread that holds transition_lock. *)

\* Mutant of StopDisable: the safe command stays staged.
StopDisableStaged(u) ==
    /\ pc[u] = "stop"
    /\ IF state \in {"DEAD", "SUSPENDED"} THEN UNCHANGED <<enabled, state, staged>>
       ELSE enabled' = FALSE /\ state' = "STOPPING" /\ staged' = staged
    /\ Goto(u, "stopCancel")
    /\ UNCHANGED <<now, deadline, kick, epoch, preserve, lockVars, timerVars, irq, dma, fault,
                   pending, reset, ring, call, frame, pmVars>>

StopDisable(u) ==
    /\ pc[u] = "stop"
    /\ IF state \in {"DEAD", "SUSPENDED"} THEN UNCHANGED <<enabled, state, staged>>
       ELSE DisableAnd("STOPPING")
    /\ Goto(u, "stopCancel")
    /\ UNCHANGED <<now, deadline, kick, epoch, preserve, lockVars, timerVars, irq, dma, fault,
                   pending, reset, ring, call, frame, pmVars>>

StopCancel(u) ==
    /\ pc[u] = "stopCancel" /\ CancelTimer
    /\ Goto(u, "stopQuiesce")
    /\ UNCHANGED <<now, driverVars, lockVars, irq, endpointVars, call, frame, pmVars>>

\* The state a stop ends in; the poll of DMA_QUIESCED timed out if DMA is active.
Stopped(final) ==
    state' = IF state # "STOPPING" THEN state ELSE IF dma THEN "FAULTED" ELSE final

\* Mutant of StopFinish: the error path of a submission keeps transition_lock.
StopFinishKeepsLock(u) ==
    /\ pc[u] = "stopQuiesce"
    /\ Stopped(IF call[u] = "ioctl" THEN "FAULTED" ELSE "DISARMED")
    /\ Goto(u, CASE call[u] = "open" -> "openReset" [] call[u] = "release" -> "releaseFinish"
                 [] call[u] = "ioctl" -> "idle")
    /\ UNCHANGED <<now, staged, deadline, kick, epoch, preserve, lockVars, timerVars, irq,
                   endpointVars, call, frame, pmVars>>

StopFinish(u) ==
    /\ pc[u] = "stopQuiesce"
    /\ Stopped(IF call[u] = "ioctl" THEN "FAULTED" ELSE "DISARMED")
    /\ \/ call[u] = "open" /\ Goto(u, "openReset") /\ UNCHANGED <<mutex, call, frame>>
       \/ call[u] = "release" /\ Goto(u, "releaseFinish") /\ UNCHANGED <<mutex, call, frame>>
       \/ call[u] = "ioctl" /\ Return(u)
    /\ UNCHANGED <<now, staged, deadline, kick, epoch, preserve, opened, file, timerVars, irq,
                   endpointVars, pmVars>>

-----------------------------------------------------------------------------
(* rtctrl_open and rtctrl_release. *)

Open(u) ==
    /\ pc[u] = "idle" /\ ~opened /\ ~released /\ epoch < MaxSessions
    /\ opened' = TRUE /\ Goto(u, "open")
    /\ UNCHANGED <<now, driverVars, mutex, file, timerVars, irq, endpointVars, call, frame, pmVars>>

OpenLocked(u) ==
    /\ pc[u] = "open" /\ mutex = Free
    /\ \/ /\ state \in {"DEAD", "STOPPING", "SUSPENDED"}
          /\ opened' = FALSE /\ Return(u)
       \/ /\ state \in {"DISARMED", "ARMED", "FAULTED"}
          /\ mutex' = u /\ call' = [call EXCEPT ![u] = "open"]
          /\ Goto(u, IF state = "DISARMED" THEN "openReset" ELSE "stop")
          /\ UNCHANGED <<opened, frame>>
    /\ UNCHANGED <<now, driverVars, file, timerVars, irq, endpointVars, pmVars>>

\* Mutant of ResetSession: the commands of the last session stay in the ring.
ResetSessionKeepsRing == staged' = FALSE /\ deadline' = 0 /\ epoch' = epoch + 1 /\ ring' = ring

\* rtctrl_reset_session_locked: the producer is set to the consumer.
ResetSession == staged' = FALSE /\ deadline' = 0 /\ epoch' = epoch + 1 /\ ring' = << >>

\* Mutant of OpenReset: the state after the stop is not read again.
OpenResetUnchecked(u) ==
    /\ pc[u] = "openReset" /\ Return(u)
    /\ ResetSession /\ file' = TRUE /\ UNCHANGED opened
    /\ UNCHANGED <<now, state, kick, preserve, timerVars, irq, enabled, dma, fault, pending,
                   reset, pmVars>>

OpenReset(u) ==
    /\ pc[u] = "openReset" /\ Return(u)
    /\ IF state = "DISARMED"
       THEN ResetSession /\ file' = TRUE /\ UNCHANGED opened
       ELSE opened' = FALSE /\ UNCHANGED <<staged, deadline, epoch, ring, file>>
    /\ UNCHANGED <<now, state, kick, preserve, timerVars, irq, enabled, dma, fault, pending,
                   reset, pmVars>>

\* The last reference to the file goes: no call is in progress on it.
Release(u) ==
    /\ file /\ \A v \in Users : pc[v] = "idle"
    /\ mutex = Free /\ mutex' = u /\ file' = FALSE
    /\ call' = [call EXCEPT ![u] = "release"]
    /\ Goto(u, IF state \in {"DEAD", "SUSPENDED"} THEN "releaseFinish" ELSE "stop")
    /\ UNCHANGED <<now, driverVars, opened, timerVars, irq, endpointVars, frame, pmVars>>

ReleaseFinish(u) ==
    /\ pc[u] = "releaseFinish"
    /\ opened' = FALSE /\ Return(u)
    /\ UNCHANGED <<now, driverVars, file, timerVars, irq, endpointVars, pmVars>>

-----------------------------------------------------------------------------
(* The ioctls.  Those that only read are left out, and so are returns with an *)
(* error that change nothing.                                                 *)

\* Mutant of Arm: the watchdog is left to the first command.
ArmUnwatched(u) ==
    /\ file /\ pc[u] = "idle" /\ mutex = Free
    /\ state = "DISARMED" /\ ~fault /\ ~reset /\ staged
    /\ deadline - now >= MinLease
    /\ kick' = now /\ state' = "ARMED" /\ enabled' = TRUE
    /\ UNCHANGED <<now, staged, deadline, epoch, preserve, lockVars, timerVars, irq, dma, fault,
                   pending, reset, ring, userVars, pmVars>>

Arm(u) ==
    /\ file /\ pc[u] = "idle" /\ mutex = Free
    /\ state = "DISARMED" /\ ~fault /\ ~reset /\ staged
    /\ deadline - now >= MinLease
    /\ kick' = now /\ state' = "ARMED" /\ enabled' = TRUE
    /\ StartTimer(Earlier(now + WatchdogTimeout, deadline))
    /\ UNCHANGED <<now, staged, deadline, epoch, preserve, lockVars, callback, callbackTime, irq,
                   dma, fault, pending, reset, ring, userVars, pmVars>>

\* The first section of rtctrl_disarm runs without transition_lock.
Disarm(u) ==
    /\ file /\ pc[u] = "idle" /\ state \notin {"DEAD", "SUSPENDED"}
    /\ DisableAnd("STOPPING")
    /\ Goto(u, "disarm")
    /\ UNCHANGED <<now, deadline, kick, epoch, preserve, lockVars, timerVars, irq, dma, fault,
                   pending, reset, ring, call, frame, pmVars>>

DisarmCancel(u) ==
    /\ pc[u] = "disarm" /\ mutex = Free /\ CancelTimer
    /\ mutex' = u /\ Goto(u, "disarmQuiesce")
    /\ UNCHANGED <<now, driverVars, opened, file, irq, endpointVars, call, frame, pmVars>>

DisarmFinish(u) ==
    /\ pc[u] = "disarmQuiesce" /\ Return(u)
    /\ Stopped("DISARMED")
    /\ UNCHANGED <<now, staged, deadline, kick, epoch, preserve, opened, file, timerVars, irq,
                   endpointVars, pmVars>>

\* The frame is checked before state_lock is taken.
SubmitChecked(u) ==
    /\ file /\ pc[u] = "idle" /\ mutex = Free /\ Usable
    /\ mutex' = u
    /\ \E kind \in Kinds, lease \in Leases :
          \/ /\ lease > 0 /\ (state = "ARMED" \/ kind = "SAFE_STOP")
             /\ frame' = [frame EXCEPT ![u] = [kind |-> kind, until |-> now + lease]]
             /\ Goto(u, "publish")
          \/ /\ \/ "malformed" \in Events \/ lease = 0
                \/ state = "DISARMED" /\ kind = "POSITION"
             /\ Goto(u, "stop") /\ UNCHANGED frame
    /\ UNCHANGED <<now, driverVars, opened, file, timerVars, irq, endpointVars, call, pmVars>>

\* A frame whose lease became too short while it was checked.
SubmitExpired(u) ==
    /\ pc[u] = "publish" /\ Usable /\ frame[u].until - now < MinLease
    /\ DisableAnd("FAULTED")
    /\ Goto(u, "submitCancel")
    /\ UNCHANGED <<now, deadline, kick, epoch, preserve, lockVars, timerVars, irq, dma, fault,
                   pending, reset, ring, call, frame, pmVars>>

SubmitCancel(u) ==
    /\ pc[u] = "submitCancel" /\ CancelTimer /\ Return(u)
    /\ UNCHANGED <<now, driverVars, opened, file, irq, endpointVars, pmVars>>

RingHasRoom == Len(ring) < RingDepth

\* The command is published and renews the watchdog, unless the device was
\* stopped meanwhile or the ring is full.
SubmitPublish(u) ==
    /\ pc[u] = "publish" /\ Return(u)
    /\ ~Usable \/ frame[u].until - now >= MinLease
    /\ IF Usable /\ RingHasRoom
       THEN /\ ring' = Append(ring, [kind |-> frame[u].kind, session |-> epoch])
            /\ deadline' = frame[u].until /\ staged' = (frame[u].kind = "SAFE_STOP")
            /\ IF state = "ARMED"
               THEN kick' = now /\ StartTimer(Earlier(now + WatchdogTimeout, frame[u].until))
               ELSE UNCHANGED <<kick, expires, queued>>
       ELSE UNCHANGED <<ring, deadline, staged, kick, expires, queued>>
    /\ UNCHANGED <<now, state, epoch, preserve, opened, file, callback, callbackTime, irq, enabled,
                   dma, fault, pending, reset, pmVars>>

\* rtctrl_read_feedback finds the ring or the frame broken.
ReadRejected(u) ==
    /\ file /\ pc[u] = "idle" /\ mutex = Free /\ "malformed" \in Events
    /\ state \in {"DISARMED", "ARMED", "FAULTED"}
    /\ mutex' = u /\ Goto(u, "stop")
    /\ UNCHANGED <<now, driverVars, opened, file, timerVars, irq, endpointVars, call, frame, pmVars>>

User(u) ==
    \/ StopDisable(u) \/ StopCancel(u) \/ StopFinish(u)
    \/ Open(u) \/ OpenLocked(u) \/ OpenReset(u) \/ Release(u) \/ ReleaseFinish(u)
    \/ Arm(u) \/ Disarm(u) \/ DisarmCancel(u) \/ DisarmFinish(u)
    \/ SubmitChecked(u) \/ SubmitExpired(u) \/ SubmitCancel(u) \/ SubmitPublish(u)
    \/ ReadRejected(u)

-----------------------------------------------------------------------------
(* The watchdog: the timer is dequeued, its callback runs, and is enqueued    *)
(* again if it asks for it.                                                   *)

WatchdogFire ==
    /\ queued /\ now >= expires /\ callback = "idle"
    /\ queued' = FALSE /\ callback' = "entered" /\ callbackTime' = now
    /\ UNCHANGED <<now, driverVars, lockVars, expires, irq, endpointVars, userVars, pmVars>>

WatchdogFn ==
    /\ callback = "entered" /\ callbackTime' = 0
    /\ \/ /\ state # "ARMED"
          /\ callback' = "idle" /\ UNCHANGED <<expires, enabled, state, staged>>
       \/ /\ state = "ARMED" /\ callbackTime >= Expiry
          /\ DisableAnd("FAULTED")
          /\ callback' = "idle" /\ UNCHANGED expires
       \/ /\ state = "ARMED" /\ callbackTime < Expiry
          /\ expires' = Expiry /\ callback' = "restart" /\ UNCHANGED <<enabled, state, staged>>
    /\ UNCHANGED <<now, deadline, kick, epoch, preserve, lockVars, queued, irq, dma, fault,
                   pending, reset, ring, userVars, pmVars>>

WatchdogRestart ==
    /\ callback = "restart"
    /\ queued' = TRUE /\ callback' = "idle"
    /\ UNCHANGED <<now, driverVars, lockVars, expires, callbackTime, irq, endpointVars, userVars,
                   pmVars>>

Watchdog == WatchdogFire \/ WatchdogFn \/ WatchdogRestart

-----------------------------------------------------------------------------
(* The fault interrupt: it is acknowledged before state_lock is taken. *)

IrqAck ==
    /\ pending /\ irq = "idle" /\ ~released
    /\ pending' = FALSE /\ irq' = "acked"
    /\ UNCHANGED <<now, driverVars, lockVars, timerVars, enabled, dma, fault, reset, ring, userVars,
                   pmVars>>

\* Mutant of IrqFault: the fault is acknowledged, but disables nothing.
IrqFaultKeepsEnabled ==
    /\ irq = "acked" /\ irq' = "idle"
    /\ UNCHANGED <<enabled, state, staged>>
    /\ UNCHANGED <<now, deadline, kick, epoch, preserve, lockVars, timerVars, dma, fault,
                   pending, reset, ring, userVars, pmVars>>

IrqFault ==
    /\ irq = "acked" /\ irq' = "idle"
    /\ IF state \in {"DEAD", "STOPPING", "SUSPENDED"} THEN UNCHANGED <<enabled, state, staged>>
       ELSE DisableAnd("FAULTED")
    /\ UNCHANGED <<now, deadline, kick, epoch, preserve, lockVars, timerVars, dma, fault,
                   pending, reset, ring, userVars, pmVars>>

Irq == IrqAck \/ IrqFault

-----------------------------------------------------------------------------
(* The PM core: suspend, resume, remove and shutdown, one at a time. *)

AssertFails == "resetFails" \in Events /\ ~reset

\* reset_control_assert stops the endpoint.
AssertReset ==
    /\ reset' = TRUE
    /\ enabled' = FALSE /\ dma' = FALSE /\ fault' = FALSE /\ pending' = FALSE

Suspend ==
    /\ pm = "idle" /\ "suspend" \in Events /\ epoch < MaxSessions
    /\ DisableAnd("SUSPENDED") /\ pm' = "suspend"
    /\ UNCHANGED <<now, deadline, kick, epoch, preserve, lockVars, timerVars, irq, dma, fault,
                   pending, reset, ring, userVars, released>>

SuspendCancel ==
    /\ pm = "suspend" /\ mutex = Free /\ CancelTimer
    /\ mutex' = Pm /\ pm' = "suspendQuiesce"
    /\ UNCHANGED <<now, driverVars, opened, file, irq, endpointVars, userVars, released>>

SuspendFinish ==
    /\ pm = "suspendQuiesce" /\ pm' = "idle" /\ mutex' = Free
    /\ \/ state' = "SUSPENDED" /\ AssertReset
       \/ AssertFails /\ state' = "FAULTED" /\ UNCHANGED <<reset, enabled, dma, fault, pending>>
    /\ UNCHANGED <<now, staged, deadline, kick, epoch, preserve, opened, file, timerVars, irq,
                   ring, userVars, released>>

\* The reset line is released; this may fail and leaves the device suspended.
Resume ==
    /\ pm = "idle" /\ state = "SUSPENDED" /\ mutex = Free
    /\ mutex' = Pm /\ pm' = "program" /\ reset' = FALSE
    /\ UNCHANGED <<now, driverVars, opened, file, timerVars, irq, enabled, dma, fault, pending,
                   ring, userVars, released>>

\* rtctrl_program_hardware_locked: a new session with an empty layout, or a
\* failure that puts the endpoint back into reset if it can.
ResumeProgram ==
    /\ pm = "program"
    /\ \/ /\ enabled' = FALSE /\ ~dma
          /\ fault' = FALSE /\ pending' = FALSE /\ ring' = << >>
          /\ epoch' = epoch + 1 /\ deadline' = 0 /\ staged' = FALSE
          /\ pm' = "resumed" /\ UNCHANGED <<mutex, reset, dma>>
       \/ /\ "resetFails" \in Events
          /\ pm' = "idle" /\ mutex' = Free /\ UNCHANGED <<staged, deadline, epoch, ring>>
          /\ \/ AssertReset
             \/ enabled' = FALSE /\ UNCHANGED <<reset, dma, fault, pending>>
    /\ UNCHANGED <<now, state, kick, preserve, opened, file, timerVars, irq, userVars, released>>

ResumeFinish ==
    /\ pm = "resumed" /\ pm' = "idle" /\ mutex' = Free
    /\ state' = IF state = "SUSPENDED" THEN "DISARMED" ELSE state
    /\ UNCHANGED <<now, staged, deadline, kick, epoch, preserve, opened, file, timerVars, irq,
                   endpointVars, userVars, released>>

\* rtctrl_remove_common and rtctrl_shutdown.
Remove ==
    /\ pm = "idle" /\ "remove" \in Events
    /\ pm' = "remove" /\ state' = "DEAD" /\ staged' = FALSE
    /\ enabled' = (enabled /\ reset)
    /\ UNCHANGED <<now, deadline, kick, epoch, preserve, lockVars, timerVars, irq, dma, fault,
                   pending, reset, ring, userVars, released>>

RemoveCancel ==
    /\ pm = "remove" /\ mutex = Free /\ CancelTimer
    /\ mutex' = Pm /\ pm' = "removeQuiesce"
    /\ UNCHANGED <<now, driverVars, opened, file, irq, endpointVars, userVars, released>>

\* Mutant of RemoveFinish: the buffer is given back whatever the endpoint does.
RemoveFinishFrees ==
    /\ pm = "removeQuiesce" /\ pm' \in {"release", "off"} /\ mutex' = Free /\ state' = "DEAD"
    /\ \/ AssertReset
       \/ AssertFails /\ UNCHANGED <<reset, enabled, dma, fault, pending>>
    /\ UNCHANGED <<now, staged, deadline, kick, epoch, preserve, opened, file, timerVars, irq, ring,
                   userVars, released>>

\* The DMA buffer is kept if the endpoint neither quiesces nor can be reset.
RemoveFinish ==
    /\ pm = "removeQuiesce" /\ pm' \in {"release", "off"} /\ mutex' = Free /\ state' = "DEAD"
    /\ \/ AssertReset /\ UNCHANGED preserve
       \/ /\ AssertFails /\ preserve' = dma
          /\ UNCHANGED <<reset, enabled, dma, fault, pending>>
    /\ UNCHANGED <<now, staged, deadline, kick, epoch, opened, file, timerVars, irq, ring, userVars,
                   released>>

\* The driver core releases the IRQ, the DMA buffer and the registers; the IRQ
\* is freed after its handler ended.
RemoveReleases ==
    /\ pm = "release" /\ irq = "idle"
    /\ released' = TRUE /\ pm' = "gone"
    /\ UNCHANGED <<now, driverVars, lockVars, timerVars, irq, endpointVars, userVars>>

PmCore ==
    \/ Suspend \/ SuspendCancel \/ SuspendFinish \/ Resume \/ ResumeProgram \/ ResumeFinish
    \/ Remove \/ RemoveCancel \/ RemoveFinish \/ RemoveReleases

-----------------------------------------------------------------------------
(* The endpoint, as the driver and its register contract use it. *)

EndpointDma ==
    /\ enabled /\ ~reset /\ ~dma
    /\ dma' = TRUE
    /\ UNCHANGED <<now, driverVars, lockVars, timerVars, irq, enabled, fault, pending, reset, ring,
                   userVars, pmVars>>

\* A command is read, also by a transfer that began before CONTROL was cleared.
EndpointConsumes ==
    /\ dma /\ ring # << >>
    /\ ring' = Tail(ring)
    /\ UNCHANGED <<now, driverVars, lockVars, timerVars, irq, enabled, dma, fault, pending, reset,
                   userVars, pmVars>>

EndpointQuiesces ==
    /\ ~enabled /\ dma /\ dma' = FALSE
    /\ UNCHANGED <<now, driverVars, lockVars, timerVars, irq, enabled, fault, pending, reset, ring,
                   userVars, pmVars>>

EndpointFaults ==
    /\ "fault" \in Events /\ ~reset /\ ~fault
    /\ fault' = TRUE /\ pending' = TRUE
    /\ UNCHANGED <<now, driverVars, lockVars, timerVars, irq, enabled, dma, reset, ring, userVars,
                   pmVars>>

Endpoint == EndpointDma \/ EndpointConsumes \/ EndpointQuiesces \/ EndpointFaults

-----------------------------------------------------------------------------
Next == Tick \/ (\E u \in Users : User(u)) \/ Watchdog \/ Irq \/ PmCore \/ Endpoint

Spec == Init /\ [][Next]_vars

-----------------------------------------------------------------------------
(* Properties. *)

UserPoints ==
    {"idle", "open", "openReset", "releaseFinish", "stop", "stopCancel", "stopQuiesce", "disarm",
     "disarmQuiesce", "publish", "submitCancel"}

PmPoints ==
    {"idle", "suspend", "suspendQuiesce", "program", "resumed", "remove", "removeQuiesce",
     "release", "off", "gone"}

FlagTypes ==
    /\ staged \in BOOLEAN /\ preserve \in BOOLEAN /\ opened \in BOOLEAN /\ file \in BOOLEAN
    /\ queued \in BOOLEAN /\ enabled \in BOOLEAN /\ dma \in BOOLEAN /\ fault \in BOOLEAN
    /\ pending \in BOOLEAN /\ reset \in BOOLEAN /\ released \in BOOLEAN

TimeTypes ==
    /\ now \in Nat /\ deadline \in Nat /\ kick \in Nat /\ epoch \in Nat /\ expires \in Nat
    /\ callbackTime \in Nat

PointTypes ==
    /\ state \in States /\ mutex \in Holders /\ pm \in PmPoints
    /\ callback \in {"idle", "entered", "restart"} /\ irq \in {"idle", "acked"}
    /\ pc \in [Users -> UserPoints] /\ call \in [Users -> {"open", "release", "ioctl"}]

DataTypes ==
    /\ ring \in Seq(Commands) /\ Len(ring) <= RingDepth
    /\ frame \in [Users -> Frames]

\* A thread inside a section that transition_lock protects is its holder.
LockIsHeld == \A u \in Users : pc[u] \notin {"idle", "open", "disarm"} => mutex = u

\* The variables have their types and the lock its holder.
TypeOK == FlagTypes /\ TimeTypes /\ PointTypes /\ DataTypes /\ LockIsHeld

\* The output is enabled only in ARMED, with an owner and out of reset, and
\* what the endpoint may still read was submitted in this session: a disable
\* that a handler forgets, or a ring that survives its session, breaks it.
OutputNeedsArmedSession ==
    enabled =>
        /\ state = "ARMED" /\ opened /\ ~reset
        /\ \A i \in 1..Len(ring) : ring[i].session = epoch

\* The endpoint transfers nothing where the driver relies on it: DISARMED means
\* that DMA stopped, whatever stopped the device and whoever overwrote the state
\* meanwhile (kernel/driver/README.md item 8), and the coherent buffer is given
\* back only when the endpoint cannot write to it any more (README line 11).
EndpointIsQuiet ==
    /\ TypeOK
    /\ state = "DISARMED" => ~dma /\ ~enabled
    /\ released /\ ~preserve => ~dma

\* README item 3: what staged_safe_command stands for.  ARM is allowed by this
\* flag; the command it promises is the newest one the endpoint will read.
StagedIsInTheRing ==
    state = "DISARMED" /\ staged =>
        /\ ring # << >>
        /\ ring[Len(ring)] = [kind |-> "SAFE_STOP", session |-> epoch]

\* The indices of the rings are reset only while the endpoint does not use them.
SessionStartsQuiesced == [][epoch' # epoch => ~dma /\ ~enabled]_vars

-----------------------------------------------------------------------------
(* Liveness.  The kernel runs the callback of a due timer and the handler of  *)
(* a pending interrupt; a call that began goes on, gets transition_lock in    *)
(* the end (a mutex is handed to its waiters in order) and the PM core ends   *)
(* what it began.                                                             *)

InCall(u) == pc[u] # "idle" /\ User(u)
InPm == pm # "idle" /\ PmCore

Fairness ==
    /\ WF_vars(Watchdog) /\ WF_vars(Irq)
    /\ \A u \in Users : SF_vars(InCall(u))
    /\ SF_vars(InPm)

FairSpec == Spec /\ Fairness

\* README item 7: an output whose lease or timeout has passed is disabled or
\* renewed, also when the callback read the clock before the renewal.
WatchdogTrips == (enabled /\ now >= Expiry) ~> (~enabled \/ now < Expiry)

\* README item 7: a fault disables the output.
FaultIsServed == (enabled /\ fault) ~> ~enabled

\* Every call returns, and suspend and remove end: nobody waits for the
\* callback or for transition_lock forever.
CallsReturn ==
    /\ \A u \in Users : pc[u] # "idle" ~> pc[u] = "idle"
    /\ pm # "idle" ~> pm \in {"idle", "off", "gone"}
====
