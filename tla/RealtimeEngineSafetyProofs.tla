---- MODULE RealtimeEngineSafetyProofs ----
(***************************************************************************)
(* Proofs of the safety properties of RealtimeEngine.tla.  The properties   *)
(* are not inductive: the flags agree with the hardware only because the    *)
(* threads pass the startup gates in order, and a written target is fresh   *)
(* only because every queued command carries a lease made from a fresh one. *)
(***************************************************************************)
EXTENDS RealtimeEngineProofs

\* The steps of the I/O thread before and after it reports that it is up.
Startup == {"configure", "open", "poll", "pollWait", "gate"}
Loop == {"check", "wait", "read", "decide", "act"}

\* The owner starts the threads in order, and the I/O loop runs only after
\* both threads reported success.
GateInv ==
    /\ ownerPc \in {"created", "reset", "spawnIo"} => ioPc = None
    /\ ownerPc \in {"created", "reset", "spawnIo", "spawnControl"} => ctlPc = None
    /\ ownerPc = "joined" => ioPc \in {None, "done"}
    /\ ioPc \in {None} \cup Startup => ioStartup # 1
    /\ ctlPc \in {None, "configure"} => ctlStartup = 0
    /\ ioPc \in Loop => ioStartup = 1 /\ ctlStartup = 1

\* Nothing failed before the reset of the flags, and only join() or a failed
\* start ends in "Stopped".
OwnerInv ==
    /\ ownerPc \in {"created", "reset"} => ~fatal
    /\ lifecycle = "Created" => ownerPc = "created"
    /\ lifecycle = "Stopped" => ownerPc = "joined"

\* What the hardware is told at each step, and what the flags say of it.
HardwareInv ==
    /\ ioPc \in {None, "configure", "open", "done"} => hal = "closed"
    /\ ioPc \in {"poll", "pollWait", "gate"} => hal = "safe"
    /\ ioPc \in Loop => hal \in {"safe", "energized"}
    /\ hal = "energized" => ~safeEntered /\ armActuation
    /\ ioPc \in Loop /\ hal = "safe" => safeEntered
    /\ armed => hal = "energized" /\ ~faultLatched
    /\ hal = "energized" /\ ~armed => faultLatched /\ ioPc = "decide"
    /\ ioPc = "act" => armActuation /\ ~faultLatched

\* An armed cycle that is about to decide has read feedback.
FeedbackInv == armed /\ ioPc \in {"decide", "act"} => lastRead = ioBegin

\* A position command ends soon after its target was made, and soon after the
\* target's transport deadline.
Leased(c) ==
    c.mode = "Position" =>
        /\ c.until <= c.target.created + TargetValidity + CommandValidity
        /\ c.target.until # 0 => c.until <= c.target.until + CommandValidity

LeaseInv ==
    /\ Leased(command)
    /\ \A i \in 1..Len(commands) : Leased(commands[i])

\* No command carries a target newer than the controller's, and the targets
\* are in order from the command of the I/O thread to the newest in the ring.
NotNewer(c) == c.mode = "Position" => c.target.seq <= lastTargetSeq

OrderInv ==
    /\ target.seq = lastTargetSeq
    /\ NotNewer(command)
    /\ \A i \in 1..Len(commands) : NotNewer(commands[i]) /\ InOrder(command, commands[i])
    /\ \A i, j \in 1..Len(commands) : i < j => InOrder(commands[i], commands[j])

IInv == TypeOK /\ GateInv /\ OwnerInv /\ HardwareInv /\ FeedbackInv /\ LeaseInv /\ OrderInv

-----------------------------------------------------------------------------
(* The invariant holds initially and every step preserves each part. *)

LEMMA InitInv == Init => IInv
  <1> SUFFICES ASSUME Init PROVE IInv
    OBVIOUS
  <1>1. TypeOK
    BY InitTypes
  <1>2. GateInv /\ OwnerInv /\ HardwareInv /\ FeedbackInv
    BY DEF Init, GateInv, OwnerInv, HardwareInv, FeedbackInv, Startup, Loop, None
  <1>3. LeaseInv
    BY EmptyType DEF Init, LeaseInv, Leased, NoCommand
  <1>4. OrderInv
    BY EmptyType DEF Init, OrderInv, NotNewer, InOrder, NoCommand, NoTarget
  <1> QED
    BY <1>1, <1>2, <1>3, <1>4 DEF IInv

LEMMA GateStep == SharedTypes /\ GateInv /\ [Next]_vars => GateInv'
  <1> SUFFICES ASSUME SharedTypes, GateInv, [Next]_vars PROVE GateInv'
    OBVIOUS
  <1> USE DEF GateInv, Startup, Loop, None, ownerVars, flags, ioVars, ctlVars
  <1>1. CASE UNCHANGED vars \/ Tick \/ Management
    BY <1>1 DEF vars, Tick, Management, RequestStop, RequestDisarm, TrySubmit, TryReadLatest
  <1>2. CASE Owner
    <2>1. CASE StartBegin \/ StartReset
      BY <2>1 DEF StartBegin, StartReset
    <2>2. CASE SpawnIo \/ SpawnControl \/ SpawnFails
      BY <2>2 DEF SpawnIo, SpawnControl, SpawnFails
    <2>3. CASE OwnerReady \/ OwnerNotReady \/ Join
      BY <2>3 DEF OwnerReady, OwnerNotReady, Join
    <2> QED
      BY <1>2, <2>1, <2>2, <2>3 DEF Owner
  <1>3. CASE Io
    <2>1. CASE IoConfigure \/ IoOpen \/ IoPoll \/ IoPollWait \/ IoNotReady
      BY <2>1 DEF IoConfigure, IoOpen, IoPoll, IoPollWait, IoNotReady, AbortStartup
    <2>2. CASE IoReady
      <3>1. ctlStartup = 1
        BY <2>2 DEF IoReady, SharedTypes
      <3> QED
        BY <2>2, <3>1 DEF IoReady
    <2>3. CASE IoCheck \/ IoWaitFails \/ IoWake
      BY <2>3 DEF IoCheck, IoWaitFails, IoExit, IoWake
    <2>4. CASE IoReadOk \/ IoReadNotReady \/ IoReadFault
      BY <2>4 DEF IoReadOk, IoReadNotReady, IoReadFault, EndCycle
    <2>5. CASE IoDecide \/ IoActFault \/ IoActIdle \/ IoActArm \/ IoActWrite
      BY <2>5 DEF IoDecide, IoActFault, IoActIdle, IoActArm, IoActWrite, LatchFault, EndCycle
    <2> QED
      BY <1>3, <2>1, <2>2, <2>3, <2>4, <2>5 DEF Io
  <1>4. CASE Control
    BY <1>4 DEF Control, CtlConfigure, CtlCheck, CtlWaitFails, CtlWake, CtlUpdate
  <1> QED
    BY <1>1, <1>2, <1>3, <1>4 DEF Next

LEMMA OwnerStep == GateInv /\ OwnerInv /\ [Next]_vars => OwnerInv'
  <1> SUFFICES ASSUME GateInv, OwnerInv, [Next]_vars PROVE OwnerInv'
    OBVIOUS
  <1> USE DEF GateInv, OwnerInv, None, ownerVars, flags
  <1>1. CASE UNCHANGED vars \/ Tick \/ Management
    BY <1>1 DEF vars, Tick, Management, RequestStop, RequestDisarm, TrySubmit, TryReadLatest
  <1>2. CASE Owner
    <2>1. CASE StartBegin \/ StartReset
      BY <2>1 DEF StartBegin, StartReset
    <2>2. CASE SpawnIo \/ SpawnControl \/ SpawnFails
      BY <2>2 DEF SpawnIo, SpawnControl, SpawnFails
    <2>3. CASE OwnerReady \/ OwnerNotReady \/ Join
      BY <2>3 DEF OwnerReady, OwnerNotReady, Join
    <2> QED
      BY <1>2, <2>1, <2>2, <2>3 DEF Owner
  <1>3. CASE Io
    <2>1. CASE IoConfigure \/ IoOpen \/ IoPoll \/ IoPollWait \/ IoReady \/ IoNotReady
      BY <2>1 DEF IoConfigure, IoOpen, IoPoll, IoPollWait, IoReady, IoNotReady, AbortStartup
    <2>2. CASE IoCheck \/ IoWaitFails \/ IoWake
      BY <2>2 DEF IoCheck, IoWaitFails, IoExit, IoWake
    <2>3. CASE IoReadOk \/ IoReadNotReady \/ IoReadFault
      BY <2>3 DEF IoReadOk, IoReadNotReady, IoReadFault
    <2>4. CASE IoDecide \/ IoActFault \/ IoActIdle \/ IoActArm \/ IoActWrite
      BY <2>4 DEF IoDecide, IoActFault, IoActIdle, IoActArm, IoActWrite
    <2> QED
      BY <1>3, <2>1, <2>2, <2>3, <2>4 DEF Io
  <1>4. CASE Control
    BY <1>4 DEF Control, CtlConfigure, CtlCheck, CtlWaitFails, CtlWake, CtlUpdate
  <1> QED
    BY <1>1, <1>2, <1>3, <1>4 DEF Next

LEMMA HardwareStep == HardwareInv /\ GateInv /\ [Next]_vars => HardwareInv'
  <1> SUFFICES ASSUME HardwareInv, GateInv, [Next]_vars PROVE HardwareInv'
    OBVIOUS
  <1> USE DEF HardwareInv, Startup, Loop, None, flags, ioVars
  <1>1. CASE UNCHANGED vars \/ Tick \/ Management
    BY <1>1 DEF vars, Tick, Management, RequestStop, RequestDisarm, TrySubmit, TryReadLatest
  <1>2. CASE Owner
    <2>1. CASE SpawnIo
      BY <2>1 DEF SpawnIo, GateInv
    <2>2. CASE StartBegin \/ StartReset \/ SpawnControl \/ SpawnFails \/ OwnerReady
               \/ OwnerNotReady \/ Join
      BY <2>2 DEF StartBegin, StartReset, SpawnControl, SpawnFails, OwnerReady, OwnerNotReady, Join
    <2> QED
      BY <1>2, <2>1, <2>2 DEF Owner
  <1>3. CASE Io
    <2>1. CASE IoConfigure \/ IoOpen \/ IoPoll \/ IoPollWait \/ IoNotReady
      BY <2>1 DEF IoConfigure, IoOpen, IoPoll, IoPollWait, IoNotReady, AbortStartup
    <2>2. CASE IoReady
      BY <2>2 DEF IoReady
    <2>3. CASE IoCheck
      BY <2>3 DEF IoCheck, IoExit, Closed
    <2>4. CASE IoWaitFails
      BY <2>4 DEF IoWaitFails, IoExit, Closed
    <2>5. CASE IoWake
      BY <2>5 DEF IoWake
    <2>6. CASE IoReadOk \/ IoReadNotReady \/ IoReadFault
      BY <2>6 DEF IoReadOk, IoReadNotReady, IoReadFault, EndCycle
    <2>7. CASE IoDecide
      BY <2>7 DEF IoDecide, EnterSafeState, EndCycle
    <2>8. CASE IoActFault
      BY <2>8 DEF IoActFault, LatchFault, EnterSafeState, EndCycle
    <2>9. CASE IoActIdle \/ IoActWrite
      BY <2>9 DEF IoActIdle, IoActWrite, LatchFault, EnterSafeState, EndCycle
    <2>10. CASE IoActArm
      BY <2>10 DEF IoActArm, EndCycle
    <2> QED
      BY <1>3, <2>1, <2>2, <2>3, <2>4, <2>5, <2>6, <2>7, <2>8, <2>9, <2>10 DEF Io
  <1>4. CASE Control
    BY <1>4 DEF Control, CtlConfigure, CtlCheck, CtlWaitFails, CtlWake, CtlUpdate
  <1> QED
    BY <1>1, <1>2, <1>3, <1>4 DEF Next

LEMMA FeedbackStep == HardwareInv /\ FeedbackInv /\ [Next]_vars => FeedbackInv'
  <1> SUFFICES ASSUME HardwareInv, FeedbackInv, [Next]_vars PROVE FeedbackInv'
    OBVIOUS
  <1> USE DEF FeedbackInv, None, flags, ioVars
  <1>1. CASE UNCHANGED vars \/ Tick \/ Management
    BY <1>1 DEF vars, Tick, Management, RequestStop, RequestDisarm, TrySubmit, TryReadLatest
  <1>2. CASE Owner
    BY <1>2 DEF Owner, StartBegin, StartReset, SpawnIo, SpawnControl, SpawnFails, OwnerReady,
                OwnerNotReady, Join
  <1>3. CASE Io
    <2>1. CASE IoConfigure \/ IoOpen \/ IoPoll \/ IoPollWait \/ IoReady \/ IoNotReady
      BY <2>1 DEF IoConfigure, IoOpen, IoPoll, IoPollWait, IoReady, IoNotReady, AbortStartup
    <2>2. CASE IoCheck \/ IoWaitFails \/ IoWake
      BY <2>2 DEF IoCheck, IoWaitFails, IoExit, IoWake
    <2>3. CASE IoReadOk \/ IoReadNotReady \/ IoReadFault
      BY <2>3 DEF IoReadOk, IoReadNotReady, IoReadFault, EndCycle
    <2>4. CASE IoDecide \/ IoActFault \/ IoActIdle \/ IoActArm \/ IoActWrite
      BY <2>4 DEF IoDecide, IoActFault, IoActIdle, IoActArm, IoActWrite, EndCycle
    <2> QED
      BY <1>3, <2>1, <2>2, <2>3, <2>4 DEF Io
  <1>4. CASE Control
    BY <1>4 DEF Control, CtlConfigure, CtlCheck, CtlWaitFails, CtlWake, CtlUpdate
  <1> QED
    BY <1>1, <1>2, <1>3, <1>4 DEF Next

\* The command of one controller update carries a lease: its target was fresh.
LEMMA UpdateIsLeased ==
  ASSUME CtlTypes, TargetFresh
  PROVE  Leased(UpdateCommand(target, ctlBegin, CommandValidity))
  BY ConstantTypes DEF CtlTypes, TargetFresh, TransportLeaseFresh, Leased, UpdateCommand,
     ControlTargets

\* The newest command of the ring carries one, and so does the safe command.
LEMMA LastIsLeased ==
  ASSUME RingTypes, LeaseInv, commands # << >>
  PROVE  Leased(Last(commands))
  BY LastType DEF RingTypes, LeaseInv

LEMMA CommandToSendIsLeased ==
  ASSUME IoTypes, LeaseInv
  PROVE  Leased(CommandToSend)
  BY SafeCommandType DEF IoTypes, LeaseInv, CommandToSend, Leased

LEMMA LeaseStep == TypeOK /\ LeaseInv /\ [Next]_vars => LeaseInv'
  <1> SUFFICES ASSUME TypeOK, LeaseInv, [Next]_vars PROVE LeaseInv'
    OBVIOUS
  <1>1. CASE UNCHANGED <<command, commands>>
    BY <1>1 DEF LeaseInv, Leased
  <1>2. CASE IoReady
    <2>1. MakeSafeCommand(state, now).mode = "SafeStop"
      BY SafeCommandType DEF TypeOK, IoTypes, SharedTypes
    <2> QED
      BY <1>2, <2>1 DEF IoReady, LeaseInv, Leased
  <1>3. CASE IoDecide
    <2>1. Leased(command')
      BY <1>3, LastIsLeased DEF IoDecide, LeaseInv, TypeOK
    <2>2. commands' = << >>
      BY <1>3 DEF IoDecide
    <2> QED
      BY <2>1, <2>2, EmptyType DEF LeaseInv
  <1>4. CASE IoActIdle \/ IoActWrite
    <2>1. Leased(command')
      BY <1>4, CommandToSendIsLeased DEF IoActIdle, IoActWrite, TypeOK
    <2>2. commands' = commands
      BY <1>4 DEF IoActIdle, IoActWrite, rings
    <2> QED
      BY <2>1, <2>2 DEF LeaseInv
  <1>5. CASE CtlUpdate
    <2>1. command' = command
      BY <1>5 DEF CtlUpdate, ioVars
    <2>2. CASE commands' = commands
      BY <2>1, <2>2 DEF LeaseInv
    <2>3. CASE TargetFresh
               /\ commands' = TryPush(commands, UpdateCommand(target, ctlBegin, CommandValidity),
                                      CommandSlots)
      <3>1. Leased(UpdateCommand(target, ctlBegin, CommandValidity))
        BY <2>3, UpdateIsLeased DEF TypeOK
      <3>2. /\ commands \in Seq(CommandFrames) /\ CommandSlots \in Nat
            /\ UpdateCommand(target, ctlBegin, CommandValidity) \in CommandFrames
        BY ConstantTypes, UpdateCommandType DEF TypeOK, RingTypes, CtlTypes
      <3>3. ASSUME NEW i \in 1..Len(commands')
            PROVE  Leased(commands'[i])
        BY <2>3, <3>1, <3>2, <3>3, TryPushMembers DEF LeaseInv
      <3> QED
        BY <2>1, <3>3 DEF LeaseInv
    <2> QED
      BY <1>5, <2>2, <2>3 DEF CtlUpdate
  <1>6. CASE Tick \/ Owner \/ Management
    <2>1. UNCHANGED <<command, commands>>
      BY <1>6 DEF ioVars, rings, Tick, Owner, StartBegin, StartReset, SpawnIo, SpawnControl,
                  SpawnFails, OwnerReady, OwnerNotReady, Join, Management, RequestStop,
                  RequestDisarm, TrySubmit, TryReadLatest
    <2> QED
      BY <1>1, <2>1
  <1>7. CASE IoConfigure \/ IoOpen \/ IoPoll \/ IoPollWait \/ IoNotReady \/ IoCheck \/ IoWaitFails
             \/ IoWake \/ IoReadOk \/ IoReadNotReady \/ IoReadFault \/ IoActFault \/ IoActArm
    <2>1. UNCHANGED <<command, commands>>
      BY <1>7 DEF rings, IoConfigure, IoOpen, IoPoll, IoPollWait, IoNotReady, IoCheck,
                  IoWaitFails, IoWake, IoReadOk, IoReadNotReady, IoReadFault, IoActFault, IoActArm
    <2> QED
      BY <1>1, <2>1
  <1>8. CASE CtlConfigure \/ CtlCheck \/ CtlWaitFails \/ CtlWake
    <2>1. UNCHANGED <<command, commands>>
      BY <1>8 DEF rings, ioVars, CtlConfigure, CtlCheck, CtlWaitFails, CtlWake
    <2> QED
      BY <1>1, <2>1
  <1> QED
    BY <1>1, <1>2, <1>3, <1>4, <1>5, <1>6, <1>7, <1>8 DEF Next, Io, Control, vars, ioVars, rings

\* Steps that leave the pipeline and the controller's target alone.
LEMMA OrderUntouched ==
  ASSUME OrderInv, UNCHANGED <<command, commands, target, lastTargetSeq>>
  PROVE  OrderInv'
  BY DEF OrderInv, NotNewer, InOrder

\* A safe command of the I/O thread is in order with every other command.
LEMMA OrderAfterSafe ==
  ASSUME OrderInv, UNCHANGED <<commands, target, lastTargetSeq>>,
         command' = command \/ command'.mode = "SafeStop"
  PROVE  OrderInv'
  BY DEF OrderInv, NotNewer, InOrder

\* A push to the commands keeps the order when the pushed command is the newest.
LEMMA OrderAfterPush ==
  ASSUME TypeOK, OrderInv, UNCHANGED <<command, target, lastTargetSeq>>,
         NEW c \in CommandFrames, c.target = target,
         commands' = TryPush(commands, c, CommandSlots)
  PROVE  OrderInv'
  <1>0. commands \in Seq(CommandFrames) /\ command \in CommandFrames /\ lastTargetSeq \in Nat
    BY DEF TypeOK, RingTypes, IoTypes, CtlTypes
  <1>1. CASE commands' = commands
    BY <1>1, OrderUntouched
  <1>2. CASE commands' = Append(commands, c)
    <2>1. /\ Len(commands') = Len(commands) + 1 /\ Len(commands) \in Nat
          /\ \A i \in 1..Len(commands) : commands'[i] = commands[i]
          /\ commands'[Len(commands')] = c
      BY <1>0, <1>2, AppendProperties
    <2>2. NotNewer(c) /\ c.target.seq = lastTargetSeq
      BY <1>0 DEF OrderInv, NotNewer
    <2>3. ASSUME NEW d, NotNewer(d)
          PROVE  InOrder(d, c)
      BY <2>2, <2>3 DEF NotNewer, InOrder
    <2>4. \A i \in 1..Len(commands') :
            NotNewer(commands'[i]) /\ InOrder(command, commands'[i])
      <3> SUFFICES ASSUME NEW i \in 1..Len(commands')
                   PROVE  NotNewer(commands'[i]) /\ InOrder(command, commands'[i])
        OBVIOUS
      <3>1. CASE i \in 1..Len(commands)
        BY <2>1, <3>1 DEF OrderInv
      <3>2. CASE i = Len(commands')
        BY <2>1, <2>2, <2>3, <3>2 DEF OrderInv
      <3> QED
        BY <2>1, <3>1, <3>2
    <2>5. \A i, j \in 1..Len(commands') : i < j => InOrder(commands'[i], commands'[j])
      <3> SUFFICES ASSUME NEW i \in 1..Len(commands'), NEW j \in 1..Len(commands'), i < j
                   PROVE  InOrder(commands'[i], commands'[j])
        OBVIOUS
      <3>1. i \in 1..Len(commands)
        BY <2>1
      <3>2. CASE j \in 1..Len(commands)
        BY <2>1, <3>1, <3>2 DEF OrderInv
      <3>3. CASE j = Len(commands')
        BY <2>1, <2>3, <3>1, <3>3 DEF OrderInv
      <3> QED
        BY <2>1, <3>2, <3>3
    <2>6. /\ NotNewer(command)'
          /\ \A i \in 1..Len(commands') :
               NotNewer(commands[i])' /\ InOrder(command, commands[i])'
          /\ \A i, j \in 1..Len(commands') : i < j => InOrder(commands[i], commands[j])'
      BY <2>4, <2>5 DEF OrderInv, NotNewer, InOrder
    <2> QED
      BY <2>6 DEF OrderInv
  <1> QED
    BY <1>1, <1>2 DEF TryPush

LEMMA OrderStep == TypeOK /\ OrderInv /\ [Next]_vars => OrderInv'
  <1> SUFFICES ASSUME TypeOK, OrderInv, [Next]_vars PROVE OrderInv'
    OBVIOUS
  <1>1. CASE UNCHANGED vars \/ Tick \/ Owner \/ Management
    <2>1. UNCHANGED <<command, commands, target, lastTargetSeq>>
      BY <1>1 DEF vars, ioVars, ctlVars, rings, Tick, Owner, StartBegin, StartReset, SpawnIo,
                  SpawnControl, SpawnFails, OwnerReady, OwnerNotReady, Join, Management,
                  RequestStop, RequestDisarm, TrySubmit, TryReadLatest
    <2> QED
      BY <2>1, OrderUntouched
  <1>2. CASE Io
    <2>0. UNCHANGED <<target, lastTargetSeq>>
      BY <1>2, CtlUntouched DEF ctlVars
    <2>1. CASE IoReady
      <3>1. command'.mode = "SafeStop" /\ commands' = commands
        BY <2>1, SafeCommandType DEF IoReady, TypeOK, IoTypes, SharedTypes
      <3> QED
        BY <2>0, <3>1, OrderAfterSafe
    <2>2. CASE IoDecide
      <3>1. commands' = << >>
        BY <2>2 DEF IoDecide
      <3>2. NotNewer(command')
        <4>1. CASE command' = command
          BY <4>1 DEF OrderInv
        <4>2. CASE commands # << >> /\ command' = Last(commands)
          BY <4>2, LastType DEF TypeOK, RingTypes, OrderInv
        <4> QED
          BY <2>2, <4>1, <4>2 DEF IoDecide
      <3> QED
        BY <2>0, <3>1, <3>2, EmptyType DEF OrderInv, NotNewer
    <2>3. CASE IoActIdle \/ IoActWrite
      <3>1. commands' = commands /\ command' = CommandToSend
        BY <2>3 DEF IoActIdle, IoActWrite, rings
      <3>2. CommandToSend = command \/ CommandToSend.mode = "SafeStop"
        BY SafeCommandType DEF CommandToSend, TypeOK, IoTypes
      <3> QED
        BY <2>0, <3>1, <3>2, OrderAfterSafe
    <2>4. CASE IoConfigure \/ IoOpen \/ IoPoll \/ IoPollWait \/ IoNotReady \/ IoCheck
               \/ IoWaitFails \/ IoWake \/ IoReadOk \/ IoReadNotReady \/ IoReadFault
               \/ IoActFault \/ IoActArm
      <3>1. UNCHANGED <<command, commands>>
        BY <2>4 DEF rings, IoConfigure, IoOpen, IoPoll, IoPollWait, IoNotReady, IoCheck,
                    IoWaitFails, IoWake, IoReadOk, IoReadNotReady, IoReadFault, IoActFault,
                    IoActArm
      <3> QED
        BY <2>0, <3>1, OrderUntouched
    <2> QED
      BY <1>2, <2>1, <2>2, <2>3, <2>4 DEF Io
  <1>3. CASE CtlConfigure \/ CtlCheck \/ CtlWaitFails
    BY <1>3, OrderUntouched DEF rings, ioVars, CtlConfigure, CtlCheck, CtlWaitFails
  <1>4. CASE CtlWake
    <2>1. UNCHANGED <<command, commands>>
      BY <1>4 DEF CtlWake, ioVars
    <2>2. target'.seq = lastTargetSeq' /\ lastTargetSeq <= lastTargetSeq'
      <3>1. targets # << >> => Last(targets).seq \in Nat
        <4>1. targets # << >> => Last(targets) \in ControlTargets
          BY LastType DEF TypeOK, RingTypes
        <4> QED
          BY <4>1 DEF ControlTargets
      <3> QED
        BY <1>4, <3>1 DEF CtlWake, Acceptable, OrderInv, TypeOK, CtlTypes
    <2>3. lastTargetSeq' \in Nat /\ lastTargetSeq \in Nat
      BY <1>4, TypeStep DEF TypeOK, CtlTypes
    <2>4. \A c \in CommandFrames : NotNewer(c) => NotNewer(c)'
      BY <2>2, <2>3 DEF NotNewer, CommandFrames, ControlTargets
    <2>5. command \in CommandFrames /\ \A i \in 1..Len(commands) : commands[i] \in CommandFrames
      BY DEF TypeOK, IoTypes, RingTypes
    <2> QED
      BY <2>1, <2>2, <2>4, <2>5 DEF OrderInv, NotNewer, InOrder
  <1>5. CASE CtlUpdate
    <2>0. UNCHANGED <<command, target, lastTargetSeq>>
      BY <1>5 DEF CtlUpdate, ioVars
    <2>1. CASE commands' = commands
      BY <2>0, <2>1, OrderUntouched
    <2>2. CASE commands' = TryPush(commands, UpdateCommand(target, ctlBegin, CommandValidity),
                                   CommandSlots)
      <3>1. /\ UpdateCommand(target, ctlBegin, CommandValidity) \in CommandFrames
            /\ UpdateCommand(target, ctlBegin, CommandValidity).target = target
        BY UpdateCommandType DEF TypeOK, CtlTypes, UpdateCommand
      <3> QED
        BY <2>0, <2>2, <3>1, OrderAfterPush
    <2> QED
      BY <1>5, <2>1, <2>2 DEF CtlUpdate
  <1> QED
    BY <1>1, <1>2, <1>3, <1>4, <1>5 DEF Next, Control

LEMMA StepInv == IInv /\ [Next]_vars => IInv'
  BY TypeStep, GateStep, OwnerStep, HardwareStep, FeedbackStep, LeaseStep, OrderStep
     DEF IInv, TypeOK

THEOREM Invariance == Spec => []IInv
  BY InitInv, StepInv, PTL DEF Spec

-----------------------------------------------------------------------------
(* The properties. *)

\* The hardware is energized only for an authorized run behind both startup
\* gates, and is never closed while energized.
THEOREM OnlyAuthorized == Spec => []EnergizedOnlyIfAuthorized
  <1>1. IInv => EnergizedOnlyIfAuthorized
    BY DEF IInv, TypeOK, IoTypes, GateInv, OwnerInv, HardwareInv, EnergizedOnlyIfAuthorized,
           Startup, Loop, None
  <1> QED
    BY <1>1, Invariance, PTL

\* The flags of the runtime tell what the hardware does.
THEOREM FlagsAreTrue == Spec => []FlagsTellTheHardware
  <1>1. IInv => FlagsTellTheHardware
    BY DEF IInv, TypeOK, IoTypes, GateInv, HardwareInv, FlagsTellTheHardware, Startup, Loop, None
  <1> QED
    BY <1>1, Invariance, PTL

\* However the threads are delayed, no position is written that is older than
\* the validity of its target and of the command made from it.
THEOREM FreshToTheHardware == Spec => WrittenTargetIsFresh
  <1>1. IInv /\ PositionWritten =>
          /\ ioBegin <= command.target.created + TargetValidity + CommandValidity
          /\ command.target.until # 0 => ioBegin <= command.target.until + CommandValidity
    <2> SUFFICES ASSUME IInv, Decision = "Accept"
                 PROVE  /\ ioBegin <= command.target.created + TargetValidity + CommandValidity
                        /\ command.target.until # 0 => ioBegin <= command.target.until + CommandValidity
      BY DEF PositionWritten
    <2>1. command.mode = "Position" /\ ioBegin <= command.until
      BY DEF Decision, Evaluate, IInv, TypeOK, IoTypes, CommandFrames
    <2>2. Leased(command)
      BY DEF IInv, LeaseInv
    <2>3. /\ ioBegin \in Int /\ command.until \in Int /\ command.target.created \in Int
          /\ command.target.until \in Int
      BY DEF IInv, TypeOK, IoTypes, CommandFrames, ControlTargets
    <2> QED
      BY <2>1, <2>2, <2>3, ConstantTypes DEF Leased
  <1> QED
    BY <1>1, Invariance, PTL DEF Spec, WrittenTargetIsFresh

\* However the rings are filled and drained, the targets on their way to the
\* hardware are in the order of their sequence numbers.
THEOREM TargetsInOrder == Spec => []PipelineOrdered
  <1>1. IInv => PipelineOrdered
    <2> SUFFICES ASSUME IInv PROVE PipelineOrdered
      OBVIOUS
    <2> DEFINE pipeline == <<command>> \o commands
    <2>1. /\ Len(pipeline) = Len(commands) + 1 /\ Len(commands) \in Nat
          /\ pipeline[1] = command
          /\ \A i \in 2..Len(pipeline) : pipeline[i] = commands[i - 1] /\ i - 1 \in 1..Len(commands)
      BY DEF IInv, TypeOK, RingTypes, IoTypes
    <2> HIDE DEF pipeline
    <2>2. \A i \in 1..Len(pipeline) : NotNewer(pipeline[i])
      BY <2>1 DEF IInv, OrderInv
    <2>3. ASSUME NEW i \in 1..Len(pipeline), NEW j \in 1..Len(pipeline), i < j
          PROVE  InOrder(pipeline[i], pipeline[j])
      <3>1. j \in 2..Len(pipeline) /\ (i = 1 \/ i \in 2..Len(pipeline))
        BY <2>1, <2>3
      <3>2. CASE i = 1
        BY <2>1, <3>1, <3>2 DEF IInv, OrderInv
      <3>3. CASE i \in 2..Len(pipeline)
        <4>1. i - 1 < j - 1 /\ i - 1 \in 1..Len(commands) /\ j - 1 \in 1..Len(commands)
          BY <2>1, <2>3, <3>1, <3>3
        <4> QED
          BY <2>1, <3>1, <3>3, <4>1 DEF IInv, OrderInv
      <3> QED
        BY <3>1, <3>2, <3>3
    <2> QED
      BY <2>2, <2>3 DEF pipeline, PipelineOrdered, NotNewer
  <1> QED
    BY <1>1, Invariance, PTL

\* Every output to armed hardware follows a complete read of the same cycle.
THEOREM FeedbackBeforeOutput == Spec => WriteNeedsFeedback
  <1>1. IInv /\ HalOutput /\ armed => lastRead = ioBegin
    BY DEF IInv, FeedbackInv, HalOutput
  <1> QED
    BY <1>1, Invariance, PTL DEF Spec, WriteNeedsFeedback

\* No step clears faultLatched, and only the reset in start() clears fatal.
LEMMA FaultsStay ==
  ASSUME [Next]_vars
  PROVE  /\ faultLatched => faultLatched'
         /\ fatal => fatal' \/ ownerPc = "reset"
  <1> USE DEF flags
  <1>1. CASE UNCHANGED vars \/ Tick \/ Management
    BY <1>1 DEF vars, Tick, Management, RequestStop, RequestDisarm, TrySubmit, TryReadLatest
  <1>2. CASE Owner
    BY <1>2 DEF Owner, StartBegin, StartReset, SpawnIo, SpawnControl, SpawnFails, OwnerReady,
                OwnerNotReady, Join
  <1>3. CASE Io
    <2>1. CASE IoConfigure \/ IoOpen \/ IoPoll \/ IoPollWait \/ IoReady \/ IoNotReady
      BY <2>1 DEF IoConfigure, IoOpen, IoPoll, IoPollWait, IoReady, IoNotReady, AbortStartup
    <2>2. CASE IoCheck \/ IoWaitFails \/ IoWake
      BY <2>2 DEF IoCheck, IoWaitFails, IoExit, IoWake
    <2>3. CASE IoReadOk \/ IoReadNotReady \/ IoReadFault
      BY <2>3 DEF IoReadOk, IoReadNotReady, IoReadFault
    <2>4. CASE IoDecide \/ IoActFault \/ IoActIdle \/ IoActArm \/ IoActWrite
      BY <2>4 DEF IoDecide, IoActFault, IoActIdle, IoActArm, IoActWrite, LatchFault
    <2> QED
      BY <1>3, <2>1, <2>2, <2>3, <2>4 DEF Io
  <1>4. CASE Control
    BY <1>4 DEF Control, CtlConfigure, CtlCheck, CtlWaitFails, CtlWake, CtlUpdate
  <1> QED
    BY <1>1, <1>2, <1>3, <1>4 DEF Next

\* Once other threads see a fault they never see operation again.
THEOREM FaultStaysLatched == Spec => FaultIsSticky
  <1>1. IInv /\ [Next]_vars /\ RuntimeState = "FaultLatched" /\ IInv'
          => RuntimeState' \in {"FaultLatched", "Stopped"}
    <2> SUFFICES ASSUME IInv, IInv', [Next]_vars, RuntimeState = "FaultLatched"
                 PROVE  RuntimeState' \in {"FaultLatched", "Stopped"}
      OBVIOUS
    <2>1. (faultLatched \/ fatal) /\ lifecycle # "Created" /\ lifecycle # "Stopped"
      BY DEF RuntimeState, IInv, TypeOK, SharedTypes
    <2>2. faultLatched' \/ fatal'
      BY <2>1, FaultsStay DEF IInv, OwnerInv
    <2>3. lifecycle' # "Created"
      BY <2>1 DEF Next, vars, ownerVars, Tick, Owner, StartBegin, StartReset, SpawnIo, SpawnControl,
         SpawnFails, OwnerReady, OwnerNotReady, Join, Management, RequestStop, RequestDisarm,
         TrySubmit, TryReadLatest, Io, IoConfigure, IoOpen, IoPoll, IoPollWait, IoReady, IoNotReady,
         IoCheck, IoWaitFails, IoWake, IoReadOk, IoReadNotReady, IoReadFault, IoDecide, IoActFault,
         IoActIdle, IoActArm, IoActWrite, Control, CtlConfigure, CtlCheck, CtlWaitFails, CtlWake,
         CtlUpdate
    <2> QED
      BY <2>2, <2>3 DEF RuntimeState
  <1>2. IInv /\ [Next]_vars => (RuntimeState = "FaultLatched" => RuntimeState' \in {"FaultLatched", "Stopped"})
    BY <1>1, StepInv
  <1> QED
    BY <1>2, Invariance, PTL DEF Spec, FaultIsSticky

-----------------------------------------------------------------------------
(* What de-energizes the hardware outlasts it. *)

\* The hardware is not energized, and what would let it be so again is gone: a
\* fault is latched, the loop has ended, or a disarm request waits at a step
\* that is not about to arm.
Off ==
    /\ hal # "energized"
    /\ faultLatched \/ ioPc = "done" \/ (disarm /\ ioPc # "act")

\* A disarm request made before a cycle began.
DisarmSeen == disarm /\ (ioPc = "wait" \/ Off)

\* Off once, off for good; energized hardware is left Off; and a disarm request
\* is carried out by the cycle that finds it.
LEMMA OffStep ==
  ASSUME GateInv, HardwareInv, [Next]_vars
  PROVE  /\ Off => Off'
         /\ hal = "energized" => hal' = "energized" \/ Off'
         /\ DisarmSeen => DisarmSeen'
  <1> USE DEF Off, DisarmSeen, HardwareInv, Startup, Loop, None, flags, ioVars
  <1>1. CASE UNCHANGED vars \/ Tick \/ Management
    BY <1>1 DEF vars, Tick, Management, RequestStop, RequestDisarm, TrySubmit, TryReadLatest
  <1>2. CASE Owner
    <2>1. CASE SpawnIo
      BY <2>1 DEF SpawnIo, GateInv
    <2>2. CASE StartBegin \/ StartReset \/ SpawnControl \/ SpawnFails \/ OwnerReady
               \/ OwnerNotReady \/ Join
      BY <2>2 DEF StartBegin, StartReset, SpawnControl, SpawnFails, OwnerReady, OwnerNotReady, Join
    <2> QED
      BY <1>2, <2>1, <2>2 DEF Owner
  <1>3. CASE Io
    <2>1. CASE IoConfigure \/ IoOpen \/ IoPoll \/ IoPollWait \/ IoReady \/ IoNotReady
      BY <2>1 DEF IoConfigure, IoOpen, IoPoll, IoPollWait, IoReady, IoNotReady, AbortStartup
    <2>2. CASE IoCheck
      BY <2>2 DEF IoCheck, IoExit, Closed
    <2>3. CASE IoWaitFails
      BY <2>3 DEF IoWaitFails, IoExit, Closed
    <2>4. CASE IoWake
      BY <2>4 DEF IoWake
    <2>5. CASE IoReadOk \/ IoReadNotReady \/ IoReadFault
      BY <2>5 DEF IoReadOk, IoReadNotReady, IoReadFault, EndCycle
    <2>6. CASE IoDecide
      BY <2>6 DEF IoDecide, EnterSafeState, EndCycle
    <2>7. CASE IoActFault
      BY <2>7 DEF IoActFault, LatchFault, EnterSafeState, EndCycle
    <2>8. CASE IoActIdle \/ IoActWrite
      BY <2>8 DEF IoActIdle, IoActWrite, LatchFault, EnterSafeState, EndCycle
    <2>9. CASE IoActArm
      BY <2>9 DEF IoActArm, EndCycle
    <2> QED
      BY <1>3, <2>1, <2>2, <2>3, <2>4, <2>5, <2>6, <2>7, <2>8, <2>9 DEF Io
  <1>4. CASE Control
    BY <1>4 DEF Control, CtlConfigure, CtlCheck, CtlWaitFails, CtlWake, CtlUpdate
  <1> QED
    BY <1>1, <1>2, <1>3, <1>4 DEF Next

\* A disarm request is carried out before the next cycle reads, and an engine
\* energizes the hardware at most once.
THEOREM DisarmIsFinal == Spec => DisarmTakesEffect
  <1>1. IInv /\ [Next]_vars => /\ Off => Off'
                               /\ hal = "energized" => (hal = "energized")' \/ Off'
                               /\ DisarmSeen => DisarmSeen'
    BY OffStep DEF IInv
  <1>2. disarm /\ ioPc = "wait" => DisarmSeen
    BY DEF DisarmSeen
  <1>3. DisarmSeen /\ ioPc = "read" => Off
    BY DEF DisarmSeen
  <1>4. Off => hal # "energized"
    BY DEF Off
  <1>5. []IInv /\ [][Next]_vars
          => [](disarm /\ ioPc = "wait" => [](ioPc = "read" => [](hal # "energized")))
    BY <1>1, <1>2, <1>3, <1>4, PTL
  <1>6. []IInv /\ [][Next]_vars
          => [](hal = "energized" => [](hal # "energized" => [](hal # "energized")))
    <2>1. (hal # "energized") <=> ~(hal = "energized")
      OBVIOUS
    <2> QED
      BY <1>1, <1>4, <2>1, PTL
  <1> QED
    BY <1>5, <1>6, Invariance, PTL DEF Spec, DisarmTakesEffect

====
