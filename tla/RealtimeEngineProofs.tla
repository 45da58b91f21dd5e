---- MODULE RealtimeEngineProofs ----
(***************************************************************************)
(* Proofs about RealtimeEngine.tla, for all periods, validities, ring sizes,*)
(* joint counts and events.  An inductive invariant relates the steps of    *)
(* the three threads to the startup gates, the flags, the hardware and the  *)
(* leases of the commands on their way; the theorems follow from it.        *)
(***************************************************************************)
EXTENDS RealtimeEngine, SequenceTheorems, TLAPS

-----------------------------------------------------------------------------
(* Facts about the operators. *)

\* A push keeps the type and the bound of a ring.
LEMMA TryPushType ==
  ASSUME NEW S, NEW ring \in Seq(S), NEW value \in S, NEW slots \in Nat, Len(ring) <= slots
  PROVE  TryPush(ring, value, slots) \in Seq(S) /\ Len(TryPush(ring, value, slots)) <= slots
  BY AppendProperties DEF TryPush

\* What a ring holds after a push was in it before or is the pushed value.
LEMMA TryPushMembers ==
  ASSUME NEW S, NEW ring \in Seq(S), NEW value \in S, NEW slots \in Nat,
         NEW i \in 1..Len(TryPush(ring, value, slots))
  PROVE  \/ i \in 1..Len(ring) /\ TryPush(ring, value, slots)[i] = ring[i]
         \/ TryPush(ring, value, slots)[i] = value
  BY AppendProperties DEF TryPush

LEMMA LastType ==
  ASSUME NEW S, NEW ring \in Seq(S), ring # << >>
  PROVE  Len(ring) \in 1..Len(ring) /\ Last(ring) = ring[Len(ring)] /\ Last(ring) \in S
  BY DEF Last

LEMMA EmptyType ==
  ASSUME NEW S
  PROVE  << >> \in Seq(S) /\ Len(<< >>) = 0
  OBVIOUS

LEMMA NextDeadlineType ==
  ASSUME NEW scheduled \in Int, NEW actual \in Int, NEW period \in Nat \ {0}
  PROVE  NextDeadline(scheduled, actual, period) \in Int
  <1>1. (actual - scheduled) \div period \in Int
    OBVIOUS
  <1>2. SkippedPeriods(scheduled, actual, period) \in Int
    BY <1>1 DEF SkippedPeriods
  <1>3. \A k \in Int : (k + 1) * period \in Int
    OBVIOUS
  <1> QED
    BY <1>2, <1>3 DEF NextDeadline

LEMMA AllOkType == AllOk \in JointData
  BY DEF AllOk, JointData, Quality

LEMMA FrameTypes ==
  /\ NoSensorFrame \in SensorFrames
  /\ NoTarget \in ControlTargets
  /\ NoCommand \in CommandFrames
  BY AllOkType DEF NoSensorFrame, NoTarget, NoCommand, SensorFrames, ControlTargets, CommandFrames,
                   Modes

LEMMA SafeCommandType ==
  ASSUME NEW s \in SensorFrames, NEW t \in Int
  PROVE  MakeSafeCommand(s, t) \in CommandFrames /\ MakeSafeCommand(s, t).mode = "SafeStop"
  <1>1. [j \in Joints |-> IF s.joint[j] = "limit" THEN "limit" ELSE "ok"] \in JointData
    BY DEF JointData, Quality
  <1>2. t + SafeLease \in Int
    BY SafetyAssumption
  <1> QED
    BY <1>1, <1>2, FrameTypes DEF MakeSafeCommand, CommandFrames, Modes

LEMMA UpdateCommandType ==
  ASSUME NEW g \in ControlTargets, NEW t \in Int
  PROVE  UpdateCommand(g, t, CommandValidity) \in CommandFrames
  BY EngineAssumption DEF UpdateCommand, CommandFrames, ControlTargets, Modes

LEMMA SamplesType ==
  ASSUME state \in SensorFrames, NEW t \in Int
  PROVE  Samples(t) \subseteq SensorFrames
  BY EngineAssumption DEF Samples, SensorFrames

LEMMA SubmittedType ==
  ASSUME now \in Int
  PROVE  Submitted \subseteq ControlTargets
  BY EngineAssumption DEF Submitted, ControlTargets

-----------------------------------------------------------------------------
(* Types. *)

LEMMA ConstantTypes ==
  /\ StateSlots \in Nat /\ CommandSlots \in Nat /\ TargetSlots \in Nat /\ SnapshotSlots \in Nat
  /\ IoPeriod \in Nat \ {0} /\ ControlPeriod \in Nat \ {0}
  /\ CommandValidity \in Nat /\ TargetValidity \in Nat /\ StateValidity \in Nat
  /\ StartupTimeout \in Nat /\ StartupPoll \in Nat
  /\ MaxTime \in Nat /\ MaxSubmits \in Nat /\ ArmModes \subseteq BOOLEAN
  BY EngineAssumption

LEMMA InitTypes == Init => TypeOK
  <1> SUFFICES ASSUME Init PROVE TypeOK
    OBVIOUS
  <1>0. FlagTypes
    BY ConstantTypes DEF Init, FlagTypes
  <1>1. SharedTypes
    BY ConstantTypes DEF Init, SharedTypes
  <1>2. RingTypes
    BY ConstantTypes, FrameTypes, EmptyType DEF Init, RingTypes
  <1>3. IoTypes
    BY FrameTypes DEF Init, IoTypes
  <1>4. CtlTypes
    BY FrameTypes DEF Init, CtlTypes
  <1> QED
    BY <1>0, <1>1, <1>2, <1>3, <1>4 DEF TypeOK

LEMMA FlagTypesStep == FlagTypes /\ [Next]_vars => FlagTypes'
  <1> SUFFICES ASSUME FlagTypes, [Next]_vars PROVE FlagTypes'
    OBVIOUS
  <1> USE DEF FlagTypes, ownerVars, flags, ioVars, ctlVars, mgrVars
  <1>1. CASE UNCHANGED vars \/ Tick
    BY <1>1 DEF vars, Tick
  <1>2. CASE Owner
    <2>1. CASE StartBegin \/ StartReset \/ SpawnIo \/ SpawnControl
      BY <2>1, ZenonT(40) DEF StartBegin, StartReset, SpawnIo, SpawnControl
    <2>2. CASE SpawnFails \/ OwnerReady \/ Join
      BY <2>2 DEF SpawnFails, OwnerReady, Join
    <2>3. CASE OwnerNotReady
      BY <2>3 DEF OwnerNotReady
    <2> QED
      BY <1>2, <2>1, <2>2, <2>3 DEF Owner
  <1>3. CASE Management
    BY <1>3, ZenonT(40) DEF Management, RequestStop, RequestDisarm, TrySubmit, TryReadLatest
  <1>4. CASE Io
    <2>1. CASE IoConfigure \/ IoPollWait \/ IoNotReady
      BY <2>1, ZenonT(40) DEF IoConfigure, IoPollWait, IoNotReady, AbortStartup
    <2>2. CASE IoOpen
      BY <2>2 DEF IoOpen, AbortStartup
    <2>3. CASE IoPoll
      BY <2>3 DEF IoPoll, AbortStartup
    <2>4. CASE IoReady
      BY <2>4 DEF IoReady
    <2>5. CASE IoCheck \/ IoWaitFails
      BY <2>5 DEF IoCheck, IoWaitFails, IoExit
    <2>6. CASE IoWake
      BY <2>6 DEF IoWake
    <2>7. CASE IoReadOk \/ IoReadNotReady \/ IoReadFault
      BY <2>7, ZenonT(40) DEF IoReadOk, IoReadNotReady, IoReadFault
    <2>8. CASE IoDecide \/ IoActFault \/ IoActIdle \/ IoActArm \/ IoActWrite
      BY <2>8, ZenonT(40) DEF IoDecide, IoActFault, IoActIdle, IoActArm, IoActWrite, LatchFault,
                  EnterSafeState
    <2> QED
      BY <1>4, <2>1, <2>2, <2>3, <2>4, <2>5, <2>6, <2>7, <2>8 DEF Io
  <1>5. CASE Control
    <2>1. CASE CtlConfigure
      BY <2>1 DEF CtlConfigure
    <2>2. CASE CtlCheck \/ CtlWaitFails
      BY <2>2 DEF CtlCheck, CtlWaitFails
    <2>3. CASE CtlWake
      BY <2>3 DEF CtlWake
    <2>4. CASE CtlUpdate
      BY <2>4 DEF CtlUpdate
    <2> QED
      BY <1>5, <2>1, <2>2, <2>3, <2>4 DEF Control
  <1> QED
    BY <1>1, <1>2, <1>3, <1>4, <1>5 DEF Next

LEMMA SharedTypesStep == TypeOK /\ [Next]_vars => SharedTypes'
  <1> SUFFICES ASSUME TypeOK, [Next]_vars PROVE SharedTypes'
    OBVIOUS
  <1> USE DEF TypeOK, SharedTypes, ownerVars, flags, mgrVars
  <1>1. CASE UNCHANGED vars
    BY <1>1 DEF vars
  <1>2. CASE Tick
    BY <1>2, ConstantTypes DEF Tick
  <1>3. CASE Owner
    BY <1>3 DEF Owner, StartBegin, StartReset, SpawnIo, SpawnControl, SpawnFails, OwnerReady,
                OwnerNotReady, Join
  <1>4. CASE Management
    BY <1>4, ConstantTypes DEF Management, RequestStop, RequestDisarm, TrySubmit, TryReadLatest
  <1>5. CASE IoConfigure \/ IoOpen \/ IoPoll \/ IoPollWait \/ IoReady \/ IoNotReady
    BY <1>5 DEF IoConfigure, IoOpen, IoPoll, IoPollWait, IoReady, IoNotReady, AbortStartup
  <1>6. CASE IoCheck \/ IoWaitFails \/ IoWake \/ IoReadOk \/ IoReadNotReady \/ IoReadFault
    BY <1>6 DEF IoCheck, IoWaitFails, IoExit, IoWake, IoReadOk, IoReadNotReady, IoReadFault
  <1>7. CASE IoDecide \/ IoActFault \/ IoActIdle \/ IoActArm \/ IoActWrite
    BY <1>7 DEF IoDecide, IoActFault, IoActIdle, IoActArm, IoActWrite, LatchFault
  <1>8. CASE Control
    BY <1>8 DEF Control, CtlConfigure, CtlCheck, CtlWaitFails, CtlWake, CtlUpdate
  <1> QED
    BY <1>1, <1>2, <1>3, <1>4, <1>5, <1>6, <1>7, <1>8 DEF Next, Io

\* The steps that use no ring.
LEMMA RingsUntouched ==
  ASSUME Tick \/ Owner \/ RequestStop \/ RequestDisarm \/ IoConfigure \/ IoOpen \/ IoPoll
         \/ IoPollWait \/ IoNotReady \/ IoCheck \/ IoWaitFails \/ IoWake \/ IoReadNotReady
         \/ IoReadFault \/ IoActFault \/ IoActIdle \/ IoActArm \/ IoActWrite
         \/ CtlConfigure \/ CtlCheck \/ CtlWaitFails
  PROVE  UNCHANGED rings
  <1> USE DEF mgrVars
  <1>1. CASE Tick \/ Owner \/ RequestStop \/ RequestDisarm
    BY <1>1 DEF Tick, Owner, StartBegin, StartReset, SpawnIo, SpawnControl, SpawnFails, OwnerReady,
                OwnerNotReady, Join, RequestStop, RequestDisarm
  <1>2. CASE IoConfigure \/ IoOpen \/ IoPoll \/ IoPollWait \/ IoNotReady \/ IoCheck \/ IoWaitFails
    BY <1>2 DEF IoConfigure, IoOpen, IoPoll, IoPollWait, IoNotReady, IoCheck, IoWaitFails
  <1>3. CASE IoWake \/ IoReadNotReady \/ IoReadFault \/ IoActFault \/ IoActIdle \/ IoActArm
             \/ IoActWrite
    BY <1>3 DEF IoWake, IoReadNotReady, IoReadFault, IoActFault, IoActIdle, IoActArm, IoActWrite
  <1>4. CASE CtlConfigure \/ CtlCheck \/ CtlWaitFails
    BY <1>4 DEF CtlConfigure, CtlCheck, CtlWaitFails
  <1> QED
    BY <1>1, <1>2, <1>3, <1>4

LEMMA RingTypesStep == TypeOK /\ [Next]_vars => RingTypes'
  <1> SUFFICES ASSUME TypeOK, [Next]_vars PROVE RingTypes'
    OBVIOUS
  <1> USE ConstantTypes DEF TypeOK, RingTypes, rings
  <1>1. CASE UNCHANGED rings
    BY <1>1
  <1>2. CASE TrySubmit
    <2>1. PICK t \in ControlTargets : targets' = TryPush(targets, t, TargetSlots)
      BY <1>2, SubmittedType DEF TrySubmit, SharedTypes
    <2>2. targets' \in Seq(ControlTargets) /\ Len(targets') <= TargetSlots
      BY <2>1, TryPushType
    <2> QED
      BY <1>2, <2>2 DEF TrySubmit
  <1>3. CASE TryReadLatest
    BY <1>3, EmptyType DEF TryReadLatest
  <1>4. CASE IoReady
    <2>1. /\ TryPush(states, state, StateSlots) \in Seq(SensorFrames)
          /\ Len(TryPush(states, state, StateSlots)) <= StateSlots
          /\ TryPush(snapshots, state, SnapshotSlots) \in Seq(SensorFrames)
          /\ Len(TryPush(snapshots, state, SnapshotSlots)) <= SnapshotSlots
      BY TryPushType DEF IoTypes
    <2> QED
      BY <1>4, <2>1 DEF IoReady, mgrVars
  <1>5. CASE IoReadOk
    <2>1. state' \in SensorFrames
      BY <1>5, SamplesType DEF IoReadOk, IoTypes
    <2>2. /\ states' \in Seq(SensorFrames) /\ Len(states') <= StateSlots
          /\ snapshots' \in Seq(SensorFrames) /\ Len(snapshots') <= SnapshotSlots
      BY <1>5, <2>1, TryPushType DEF IoReadOk
    <2> QED
      BY <1>5, <2>2 DEF IoReadOk, mgrVars
  <1>6. CASE IoDecide
    BY <1>6, EmptyType DEF IoDecide, mgrVars
  <1>7. CASE CtlWake
    BY <1>7, EmptyType DEF CtlWake, mgrVars
  <1>8. CASE CtlUpdate
    <2>1. commands' \in Seq(CommandFrames) /\ Len(commands') <= CommandSlots
      <3>1. UpdateCommand(target, ctlBegin, CommandValidity) \in CommandFrames
        BY UpdateCommandType DEF CtlTypes
      <3> QED
        BY <1>8, <3>1, TryPushType DEF CtlUpdate
    <2> QED
      BY <1>8, <2>1, EmptyType DEF CtlUpdate, mgrVars
  <1> QED
    BY <1>1, <1>2, <1>3, <1>4, <1>5, <1>6, <1>7, <1>8, RingsUntouched
       DEF Next, Management, Io, Control, vars, mgrVars

\* A step of another thread leaves the variables of the I/O thread alone.
LEMMA IoUntouched ==
  ASSUME Tick \/ StartBegin \/ StartReset \/ SpawnControl \/ SpawnFails \/ OwnerReady
         \/ OwnerNotReady \/ Join \/ Management \/ Control
  PROVE  UNCHANGED ioVars
  BY DEF Tick, StartBegin, StartReset, SpawnControl, SpawnFails, OwnerReady, OwnerNotReady, Join,
         Management, RequestStop, RequestDisarm, TrySubmit, TryReadLatest,
         Control, CtlConfigure, CtlCheck, CtlWaitFails, CtlWake, CtlUpdate

LEMMA IoTypesStep == TypeOK /\ [Next]_vars => IoTypes'
  <1> SUFFICES ASSUME TypeOK, [Next]_vars PROVE IoTypes'
    OBVIOUS
  <1> USE DEF TypeOK, IoTypes, ioVars
  <1>1. CASE UNCHANGED ioVars
    BY <1>1
  <1>2. CASE SpawnIo \/ IoConfigure \/ IoPollWait \/ IoNotReady
    BY <1>2 DEF SpawnIo, IoConfigure, IoPollWait, IoNotReady, AbortStartup
  <1>3. CASE IoOpen
    BY <1>3, ConstantTypes DEF IoOpen, AbortStartup, SharedTypes
  <1>4. CASE IoPoll
    <2>1. Samples(now) \subseteq SensorFrames
      BY SamplesType DEF SharedTypes
    <2> QED
      BY <1>4, <2>1, ConstantTypes DEF IoPoll, AbortStartup, SharedTypes
  <1>5. CASE IoReady
    <2>1. MakeSafeCommand(state, now) \in CommandFrames
      BY SafeCommandType DEF SharedTypes
    <2> QED
      BY <1>5, <2>1, ConstantTypes DEF IoReady, SharedTypes
  <1>6. CASE IoCheck \/ IoWaitFails
    BY <1>6 DEF IoCheck, IoWaitFails, IoExit, Closed
  <1>7. CASE IoWake
    <2>1. NextDeadline(ioNext, now, IoPeriod) \in Int
      BY NextDeadlineType, ConstantTypes DEF SharedTypes
    <2> QED
      BY <1>7, <2>1 DEF IoWake, SharedTypes
  <1>8. CASE IoReadOk
    <2>1. state' \in SensorFrames
      BY <1>8, SamplesType DEF IoReadOk
    <2> QED
      BY <1>8, <2>1 DEF IoReadOk
  <1>9. CASE IoReadNotReady \/ IoReadFault
    BY <1>9 DEF IoReadNotReady, IoReadFault, EndCycle
  <1>10. CASE IoDecide
    <2>1. command' \in CommandFrames
      BY <1>10, LastType DEF IoDecide, RingTypes
    <2> QED
      BY <1>10, <2>1 DEF IoDecide, EnterSafeState, EndCycle
  <1>11. CASE IoActFault \/ IoActArm
    BY <1>11 DEF IoActFault, IoActArm, LatchFault, EnterSafeState, EndCycle
  <1>12. CASE IoActIdle \/ IoActWrite
    <2>1. CommandToSend \in CommandFrames
      BY SafeCommandType DEF CommandToSend
    <2> QED
      BY <1>12, <2>1 DEF IoActIdle, IoActWrite, LatchFault, EnterSafeState, EndCycle
  <1> QED
    BY <1>1, <1>2, <1>3, <1>4, <1>5, <1>6, <1>7, <1>8, <1>9, <1>10, <1>11, <1>12, IoUntouched
       DEF Next, Owner, Io, vars

\* Only the control thread and its start touch the variables of the control thread.
LEMMA CtlUntouched ==
  ASSUME Tick \/ StartBegin \/ StartReset \/ SpawnIo \/ SpawnFails \/ OwnerReady
         \/ OwnerNotReady \/ Join \/ Management \/ Io
  PROVE  UNCHANGED ctlVars
  BY DEF Tick, StartBegin, StartReset, SpawnIo, SpawnFails, OwnerReady, OwnerNotReady, Join,
         Management, RequestStop, RequestDisarm, TrySubmit, TryReadLatest,
         Io, IoConfigure, IoOpen, IoPoll, IoPollWait, IoReady, IoNotReady, IoCheck, IoWaitFails,
         IoWake, IoReadOk, IoReadNotReady, IoReadFault, IoDecide, IoActFault, IoActIdle, IoActArm,
         IoActWrite

LEMMA CtlTypesStep == TypeOK /\ [Next]_vars => CtlTypes'
  <1> SUFFICES ASSUME TypeOK, [Next]_vars PROVE CtlTypes'
    OBVIOUS
  <1> USE DEF TypeOK, CtlTypes, ctlVars
  <1>1. CASE UNCHANGED ctlVars
    BY <1>1
  <1>2. CASE SpawnControl \/ CtlCheck \/ CtlWaitFails
    BY <1>2 DEF SpawnControl, CtlCheck, CtlWaitFails
  <1>3. CASE CtlConfigure
    BY <1>3, ConstantTypes DEF CtlConfigure, SharedTypes
  <1>4. CASE CtlWake
    <2>1. targets # << >> => Last(targets) \in ControlTargets /\ Last(targets).seq \in Nat
      <3>1. targets # << >> => Last(targets) \in ControlTargets
        BY LastType DEF RingTypes
      <3> QED
        BY <3>1 DEF ControlTargets
    <2>2. NextDeadline(ctlNext, now, ControlPeriod) \in Int
      BY NextDeadlineType, ConstantTypes DEF SharedTypes
    <2> QED
      BY <1>4, <2>1, <2>2 DEF CtlWake, SharedTypes
  <1>5. CASE CtlUpdate
    <2>1. states # << >> => Last(states) \in SensorFrames /\ Last(states).seq \in Nat
      <3>1. states # << >> => Last(states) \in SensorFrames
        BY LastType DEF RingTypes
      <3> QED
        BY <3>1 DEF SensorFrames
    <2> QED
      BY <1>5, <2>1 DEF CtlUpdate
  <1> QED
    BY <1>1, <1>2, <1>3, <1>4, <1>5, CtlUntouched DEF Next, Owner, Control, vars

LEMMA TypeStep == TypeOK /\ [Next]_vars => TypeOK'
  BY FlagTypesStep, SharedTypesStep, RingTypesStep, IoTypesStep, CtlTypesStep DEF TypeOK

\* Every variable keeps its type, and no ring ever holds more than its slots.
THEOREM TypeCorrect == Spec => []TypeOK
  BY InitTypes, TypeStep, PTL DEF Spec

-----------------------------------------------------------------------------
(* The periods of the two loops.                                            *)

\* The quotient of an integer division.
LEMMA DivisionBounds ==
  ASSUME NEW n \in Nat, NEW d \in Nat \ {0}
  PROVE  /\ n \div d \in Nat
         /\ (n \div d) * d <= n /\ n < (n \div d + 1) * d
  OBVIOUS
\* A deadline, the period a timer has and a time at which it wakes up behind it: the
\* next deadline is whole periods later, not before this time, which would run the
\* missed periods in a burst, and at most one period after it.
LEMMA NextDeadlineKeepsPhase ==
  ASSUME NEW scheduled \in Int, NEW actual \in Int, actual >= scheduled,
         NEW period \in Nat \ {0}
  PROVE  /\ \E k \in Nat \ {0} : NextDeadline(scheduled, actual, period) = scheduled + k * period
         /\ NextDeadline(scheduled, actual, period) >= actual
         /\ NextDeadline(scheduled, actual, period) <= actual + period
  <1> DEFINE late == actual - scheduled
             q == late \div period
             skipped == SkippedPeriods(scheduled, actual, period)
  <1>1. late \in Nat
    OBVIOUS
  <1>2. q \in Nat /\ q * period <= late /\ late < (q + 1) * period
    BY <1>1, DivisionBounds
  <1>3. skipped \in Nat
    BY <1>2 DEF SkippedPeriods
  <1>4. NextDeadline(scheduled, actual, period) = scheduled + (skipped + 1) * period
    BY DEF NextDeadline
  <1>5. late <= (skipped + 1) * period /\ (skipped + 1) * period <= late + period
    <2>1. CASE actual > scheduled + period
      <3>1. skipped = q
        BY <2>1 DEF SkippedPeriods
      <3> HIDE DEF late, q, skipped
      <3>2. (q + 1) * period = q * period + period
        BY <1>2
      <3> QED
        BY <1>1, <1>2, <3>1, <3>2
    <2>2. CASE ~(actual > scheduled + period)
      <3>1. skipped = 0
        BY <2>2 DEF SkippedPeriods
      <3>2. (skipped + 1) * period = period
        BY <3>1
      <3> QED
        BY <2>2, <3>2
    <2> QED
      BY <2>1, <2>2
  <1> HIDE DEF skipped
  <1>6. skipped + 1 \in Nat \ {0}
    BY <1>3
  <1>7. (skipped + 1) * period \in Nat
    BY <1>6
  <1>8. /\ NextDeadline(scheduled, actual, period) >= actual
        /\ NextDeadline(scheduled, actual, period) <= actual + period
    <2> DEFINE step == (skipped + 1) * period
    <2>1. step \in Nat /\ NextDeadline(scheduled, actual, period) = scheduled + step
      BY <1>4, <1>7
    <2>2. actual - scheduled <= step /\ step <= actual - scheduled + period
      BY <1>5
    <2> HIDE DEF step
    <2> QED
      BY <2>1, <2>2
  <1> QED
    BY <1>4, <1>6, <1>8

\* What becomes of a deadline `next` at a time `t` that has reached it.
OnTheGrid(next, after, t, period) ==
    /\ \E k \in Nat \ {0} : after = next + k * period
    /\ after >= t /\ after <= t + period

\* PeriodicTimer::wait_next() of both loops: however late a thread wakes up, it keeps
\* the phase of its first deadline, and no deadline that has passed is left to be
\* run in a burst.
THEOREM CyclesKeepTheirPhase ==
    Spec => [][/\ IoWake => OnTheGrid(ioNext, ioNext', now, IoPeriod)
               /\ CtlWake => OnTheGrid(ctlNext, ctlNext', now, ControlPeriod)]_vars
  <1>1. ASSUME TypeOK, IoWake
        PROVE  OnTheGrid(ioNext, ioNext', now, IoPeriod)
    <2>1. ioNext \in Int /\ now \in Int /\ now >= ioNext
      BY <1>1 DEF TypeOK, SharedTypes, IoTypes, IoWake
    <2>2. ioNext' = NextDeadline(ioNext, now, IoPeriod)
      BY <1>1 DEF IoWake
    <2> QED
      BY <2>1, <2>2, ConstantTypes, NextDeadlineKeepsPhase DEF OnTheGrid
  <1>2. ASSUME TypeOK, CtlWake
        PROVE  OnTheGrid(ctlNext, ctlNext', now, ControlPeriod)
    <2>1. ctlNext \in Int /\ now \in Int /\ now >= ctlNext
      BY <1>2 DEF TypeOK, SharedTypes, CtlTypes, CtlWake
    <2>2. ctlNext' = NextDeadline(ctlNext, now, ControlPeriod)
      BY <1>2 DEF CtlWake
    <2> QED
      BY <2>1, <2>2, ConstantTypes, NextDeadlineKeepsPhase DEF OnTheGrid
  <1> QED
    BY <1>1, <1>2, TypeCorrect, PTL DEF Spec

====
