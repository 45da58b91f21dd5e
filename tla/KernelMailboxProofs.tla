---- MODULE KernelMailboxProofs ----
(***************************************************************************)
(* Proofs about KernelMailbox.tla.  The safety properties rest on who may   *)
(* change the state when: transition_lock, the one open file and the PM     *)
(* core exclude each other, and every way out of ARMED clears CONTROL.      *)
(***************************************************************************)
EXTENDS KernelMailbox, SequenceTheorems, TLAPS

\* Where the PM core is, the state is its own and transition_lock its when it
\* needs it; the DMA buffer is given back only after DMA ended.
PmInv ==
    /\ pm \in {"suspendQuiesce", "program", "resumed", "removeQuiesce"} => mutex = Pm
    /\ pm \in {"suspend", "suspendQuiesce", "program", "resumed"} => state = "SUSPENDED"
    /\ pm \in {"remove", "removeQuiesce", "release", "off", "gone"} => state = "DEAD"
    /\ pm = "resumed" => ~dma
    /\ pm \in {"release", "off", "gone"} /\ ~preserve => ~dma
    /\ released => pm = "gone"

\* A thread that opens or releases the file.
Entering(u) == pc[u] \in {"open", "openReset", "releaseFinish"} \/ call[u] # "ioctl"

\* One file: who opens or releases it is alone, and an ioctl holds it open.
FileInv ==
    /\ file => opened
    /\ \A u \in Users : Entering(u) => opened /\ ~file
    /\ \A u, v \in Users : Entering(u) /\ Entering(v) => u = v
    /\ \A u \in Users : pc[u] # "idle" /\ ~file => Entering(u)

\* ARMED belongs to an open session; a stop that went past the disable, and
\* whatever follows it under transition_lock, has left ARMED behind.
ArmedInv ==
    /\ state = "ARMED" => opened
    /\ \A u \in Users :
        pc[u] \in {"stopCancel", "stopQuiesce", "openReset", "releaseFinish"} => state # "ARMED"

\* CONTROL, DMA and the staged command against the state.
OutputInv ==
    /\ enabled => state = "ARMED" /\ ~reset
    /\ state = "DISARMED" => ~dma
    /\ staged => state \in {"DISARMED", "ARMED"}

\* The ring holds commands of this session only.
RingInv ==
    /\ \A i \in 1 .. Len(ring) : ring[i].session = epoch
    /\ StagedIsInTheRing

IInv == TypeOK /\ PmInv /\ FileInv /\ ArmedInv /\ OutputInv /\ RingInv

-----------------------------------------------------------------------------
(* The invariant holds initially. *)

\* After probe every part of the invariant holds.
LEMMA InitInv == Init => IInv
  <1> SUFFICES ASSUME Init PROVE IInv
    OBVIOUS
  <1>1. FlagTypes
    BY DEF Init, FlagTypes
  <1>2. TimeTypes
    BY DEF Init, TimeTypes
  <1>3. PointTypes
    BY DEF Init, PointTypes, States, Holders, Free, Pm, UserPoints, PmPoints
  <1>4. DataTypes
    BY MailboxAssumption, EmptySeq DEF Init, DataTypes, Frames, NoFrame, Kinds
  <1>5. LockIsHeld
    BY DEF Init, LockIsHeld
  <1>6. PmInv /\ FileInv
    BY DEF Init, PmInv, FileInv, Entering
  <1>7. ArmedInv /\ OutputInv
    BY DEF Init, ArmedInv, OutputInv
  <1>8. RingInv
    BY DEF Init, RingInv, StagedIsInTheRing
  <1> QED
    BY <1>1, <1>2, <1>3, <1>4, <1>5, <1>6, <1>7, <1>8 DEF IInv, TypeOK

-----------------------------------------------------------------------------
(* Types, and the holder of transition_lock. *)

\* A command put at the end of the ring.
LEMMA RingAppend ==
    ASSUME NEW r \in Seq(Commands), NEW c \in Commands
    PROVE  /\ Append(r, c) \in Seq(Commands)
           /\ Len(Append(r, c)) = Len(r) + 1
           /\ \A i \in 1 .. Len(r) : Append(r, c)[i] = r[i]
           /\ Append(r, c)[Len(r) + 1] = c
  BY AppendProperties

\* The endpoint takes the first command.
LEMMA RingTail ==
    ASSUME NEW r \in Seq(Commands), r # << >>
    PROVE  /\ Tail(r) \in Seq(Commands)
           /\ Len(Tail(r)) = Len(r) - 1
           /\ \A i \in 1 .. Len(Tail(r)) : Tail(r)[i] = r[i + 1]
  BY HeadTailProperties

\* Types of the flags: no step makes one undefined.
LEMMA FlagStep == FlagTypes /\ [Next]_vars => FlagTypes'
  <1> SUFFICES ASSUME FlagTypes, [Next]_vars PROVE FlagTypes'
    OBVIOUS
  <1> USE DEF FlagTypes, driverVars, lockVars, timerVars, endpointVars, userVars, pmVars
  <1>1. CASE UNCHANGED vars \/ Tick
    BY <1>1 DEF vars, Tick
  <1>2. ASSUME NEW u \in Users, User(u) PROVE FlagTypes'
    <2>1. CASE StopDisable(u)
      BY <2>1 DEF StopDisable, DisableAnd
    <2>2. CASE StopCancel(u)
      BY <2>2 DEF StopCancel, CancelTimer
    <2>3. CASE StopFinish(u)
      BY <2>3 DEF StopFinish
    <2>4. CASE Open(u)
      BY <2>4 DEF Open
    <2>5. CASE OpenLocked(u)
      BY <2>5, ZenonT(20) DEF OpenLocked
    <2>6. CASE OpenReset(u)
      BY <2>6 DEF OpenReset, ResetSession
    <2>7. CASE Release(u)
      BY <2>7 DEF Release
    <2>8. CASE ReleaseFinish(u)
      BY <2>8 DEF ReleaseFinish
    <2>9. CASE Arm(u)
      BY <2>9 DEF Arm, StartTimer
    <2>10. CASE Disarm(u)
      BY <2>10 DEF Disarm, DisableAnd
    <2>11. CASE DisarmCancel(u)
      BY <2>11 DEF DisarmCancel, CancelTimer
    <2>12. CASE DisarmFinish(u)
      BY <2>12 DEF DisarmFinish
    <2>13. CASE SubmitChecked(u)
      BY <2>13 DEF SubmitChecked
    <2>14. CASE SubmitExpired(u)
      BY <2>14 DEF SubmitExpired, DisableAnd
    <2>15. CASE SubmitCancel(u)
      BY <2>15 DEF SubmitCancel, CancelTimer
    <2>16. CASE SubmitPublish(u)
      BY <2>16 DEF SubmitPublish, StartTimer
    <2>17. CASE ReadRejected(u)
      BY <2>17 DEF ReadRejected
    <2> QED
      BY <1>2, <2>1, <2>2, <2>3, <2>4, <2>5, <2>6, <2>7, <2>8, <2>9, <2>10, <2>11, <2>12, <2>13,
         <2>14, <2>15, <2>16, <2>17 DEF User
  <1>3. CASE Watchdog \/ Irq
    <2>1. CASE WatchdogFire
      BY <2>1 DEF WatchdogFire
    <2>2. CASE WatchdogFn
      BY <2>2, ZenonT(20) DEF WatchdogFn, DisableAnd
    <2>3. CASE WatchdogRestart
      BY <2>3 DEF WatchdogRestart
    <2>4. CASE IrqAck
      BY <2>4 DEF IrqAck
    <2>5. CASE IrqFault
      BY <2>5 DEF IrqFault, DisableAnd
    <2> QED
      BY <1>3, <2>1, <2>2, <2>3, <2>4, <2>5 DEF Watchdog, Irq
  <1>4. CASE PmCore
    <2>1. CASE Suspend
      BY <2>1 DEF Suspend, DisableAnd
    <2>2. CASE SuspendCancel
      BY <2>2 DEF SuspendCancel, CancelTimer
    <2>3. CASE SuspendFinish
      BY <2>3 DEF SuspendFinish, AssertReset
    <2>4. CASE Resume
      BY <2>4 DEF Resume
    <2>5. CASE ResumeProgram
      BY <2>5 DEF ResumeProgram, AssertReset
    <2>6. CASE ResumeFinish
      BY <2>6 DEF ResumeFinish
    <2>7. CASE Remove
      BY <2>7 DEF Remove
    <2>8. CASE RemoveCancel
      BY <2>8 DEF RemoveCancel, CancelTimer
    <2>9. CASE RemoveFinish
      BY <2>9 DEF RemoveFinish, AssertReset
    <2>10. CASE RemoveReleases
      BY <2>10 DEF RemoveReleases
    <2> QED
      BY <1>4, <2>1, <2>2, <2>3, <2>4, <2>5, <2>6, <2>7, <2>8, <2>9, <2>10 DEF PmCore
  <1>5. CASE Endpoint
    <2>1. CASE EndpointDma
      BY <2>1 DEF EndpointDma
    <2>2. CASE EndpointConsumes
      BY <2>2 DEF EndpointConsumes
    <2>3. CASE EndpointQuiesces
      BY <2>3 DEF EndpointQuiesces
    <2>4. CASE EndpointFaults
      BY <2>4 DEF EndpointFaults
    <2> QED
      BY <1>5, <2>1, <2>2, <2>3, <2>4 DEF Endpoint
  <1> QED
    BY <1>1, <1>2, <1>3, <1>4, <1>5 DEF Next

\* The values a call leaves behind and a session begins with are well-typed.
LEMMA FrameTypes ==
    /\ NoFrame \in Frames
    /\ << >> \in Seq(Commands) /\ Len(<< >>) = 0 /\ RingDepth \in Nat
  BY MailboxAssumption, EmptySeq DEF NoFrame, Frames, Kinds

\* The empty ring of a new session.
LEMMA EmptyRing ==
    ASSUME ring' = << >>
    PROVE  ring' \in Seq(Commands) /\ Len(ring') <= RingDepth
  BY FrameTypes

\* What SUBMIT puts into the ring, and the frame it has checked.
LEMMA SubmittedType ==
    ASSUME TimeTypes, DataTypes, NEW u \in Users
    PROVE  /\ [kind |-> frame[u].kind, session |-> epoch] \in Commands
           /\ [kind |-> frame[u].kind, session |-> epoch].session = epoch
           /\ frame[u].kind = "SAFE_STOP" =>
                [kind |-> frame[u].kind, session |-> epoch] = [kind |-> "SAFE_STOP", session |-> epoch]
  BY DEF TimeTypes, DataTypes, Frames, Commands

\* SUBMIT publishes one command of this session, or nothing.
LEMMA SubmitEffect ==
    ASSUME NEW u \in Users, SubmitPublish(u)
    PROVE  /\ UNCHANGED <<state, epoch>>
           /\ \/ UNCHANGED <<ring, staged>>
              \/ /\ RingHasRoom
                 /\ ring' = Append(ring, [kind |-> frame[u].kind, session |-> epoch])
                 /\ staged' => frame[u].kind = "SAFE_STOP"
  <1>1. UNCHANGED <<state, epoch>>
    BY DEF SubmitPublish
  <1>2. CASE Usable /\ RingHasRoom
    BY <1>2 DEF SubmitPublish
  <1>3. CASE ~(Usable /\ RingHasRoom)
    BY <1>3, Zenon DEF SubmitPublish
  <1> QED
    BY <1>1, <1>2, <1>3

\* The frame that SUBMIT has checked is well-typed.
LEMMA CheckedType ==
    ASSUME TimeTypes, NEW kind \in Kinds, NEW lease \in Leases
    PROVE  [kind |-> kind, until |-> now + lease] \in Frames
  BY MailboxAssumption DEF TimeTypes, Frames

\* Types of the clock, of the times derived from it and of the session number.
LEMMA TimeStep == TimeTypes /\ DataTypes /\ [Next]_vars => TimeTypes'
  <1> SUFFICES ASSUME TimeTypes, DataTypes, [Next]_vars PROVE TimeTypes'
    OBVIOUS
  <1> USE MailboxAssumption DEF TimeTypes, driverVars, lockVars, timerVars, endpointVars,
        userVars, pmVars
  <1>1. CASE UNCHANGED vars \/ Tick
    BY <1>1 DEF vars, Tick
  <1>2. ASSUME NEW u \in Users, User(u) PROVE TimeTypes'
    <2>1. CASE OpenReset(u)
      BY <2>1 DEF OpenReset, ResetSession
    <2>2. CASE Arm(u)
      BY <2>2 DEF Arm, StartTimer, Earlier
    <2>3. CASE SubmitPublish(u)
      BY <2>3, SMTT(20) DEF SubmitPublish, StartTimer, Earlier, DataTypes, Frames
    <2>4. CASE StopDisable(u) \/ StopCancel(u) \/ StopFinish(u) \/ Open(u) \/ OpenLocked(u) \/
       Release(u) \/ ReleaseFinish(u) \/ Disarm(u) \/ DisarmCancel(u) \/ DisarmFinish(u) \/
       SubmitChecked(u) \/ SubmitExpired(u) \/ SubmitCancel(u) \/ ReadRejected(u)
      BY <2>4 DEF StopDisable, StopCancel, CancelTimer, StopFinish, Open, OpenLocked, Release,
         ReleaseFinish, Disarm, DisarmCancel, DisarmFinish, SubmitChecked, SubmitExpired,
         SubmitCancel, ReadRejected
    <2> QED
      BY <1>2, <2>1, <2>2, <2>3, <2>4 DEF User
  <1>3. CASE Watchdog \/ Irq
    <2>1. CASE WatchdogFn
      BY <2>1 DEF WatchdogFn, Expiry, Earlier
    <2>2. CASE WatchdogFire
      BY <2>2 DEF WatchdogFire
    <2>3. CASE WatchdogRestart \/ IrqAck \/ IrqFault
      BY <2>3 DEF WatchdogRestart, IrqAck, IrqFault
    <2> QED
      BY <1>3, <2>1, <2>2, <2>3 DEF Watchdog, Irq
  <1>4. CASE PmCore
    <2>1. CASE ResumeProgram
      BY <2>1 DEF ResumeProgram
    <2>2. CASE Suspend \/ SuspendCancel \/ SuspendFinish \/ Resume \/ ResumeFinish \/ Remove \/
       RemoveCancel \/ RemoveFinish \/ RemoveReleases
      BY <2>2 DEF Suspend, SuspendCancel, CancelTimer, SuspendFinish, Resume, ResumeFinish,
         Remove, RemoveCancel, RemoveFinish, RemoveReleases
    <2> QED
      BY <1>4, <2>1, <2>2 DEF PmCore
  <1>5. CASE Endpoint
    <2>1. CASE EndpointDma \/ EndpointConsumes \/ EndpointQuiesces \/ EndpointFaults
      BY <2>1 DEF EndpointDma, EndpointConsumes, EndpointQuiesces, EndpointFaults
    <2> QED
      BY <1>5, <2>1 DEF Endpoint
  <1> QED
    BY <1>1, <1>2, <1>3, <1>4, <1>5 DEF Next

\* Types of the state, the lock and the places of threads, timer and PM core.
LEMMA PointStep == PointTypes /\ [Next]_vars => PointTypes'
  <1> SUFFICES ASSUME PointTypes, [Next]_vars PROVE PointTypes'
    OBVIOUS
  <1> USE DEF PointTypes, States, Holders, Free, Pm, UserPoints, PmPoints, Goto, Return,
        driverVars, lockVars, timerVars, endpointVars, userVars, pmVars
  <1>1. CASE UNCHANGED vars \/ Tick
    BY <1>1 DEF vars, Tick
  <1>2. ASSUME NEW u \in Users, User(u) PROVE PointTypes'
    <2>1. CASE StopDisable(u) \/ StopCancel(u) \/ StopFinish(u) \/ Open(u)
      BY <2>1 DEF StopDisable, DisableAnd, StopCancel, CancelTimer, StopFinish, Stopped, Open
    <2>2. CASE OpenLocked(u) \/ OpenReset(u) \/ Release(u) \/ ReleaseFinish(u)
      BY <2>2 DEF OpenLocked, OpenReset, Release, ReleaseFinish
    <2>3. CASE Arm(u) \/ Disarm(u) \/ DisarmCancel(u) \/ DisarmFinish(u)
      BY <2>3 DEF Arm, Disarm, DisableAnd, DisarmCancel, CancelTimer, DisarmFinish, Stopped
    <2>4. CASE SubmitChecked(u) \/ SubmitExpired(u) \/ SubmitCancel(u) \/ SubmitPublish(u)
      BY <2>4 DEF SubmitChecked, SubmitExpired, DisableAnd, SubmitCancel, CancelTimer,
         SubmitPublish
    <2>5. CASE ReadRejected(u)
      BY <2>5 DEF ReadRejected
    <2> QED
      BY <1>2, <2>1, <2>2, <2>3, <2>4, <2>5 DEF User
  <1>3. CASE Watchdog \/ Irq
    <2>1. CASE WatchdogFire \/ WatchdogFn \/ WatchdogRestart \/ IrqAck
      BY <2>1 DEF WatchdogFire, WatchdogFn, DisableAnd, WatchdogRestart, IrqAck
    <2>2. CASE IrqFault
      BY <2>2 DEF IrqFault, DisableAnd
    <2> QED
      BY <1>3, <2>1, <2>2 DEF Watchdog, Irq
  <1>4. CASE PmCore
    <2>1. CASE Suspend \/ SuspendCancel \/ SuspendFinish \/ Resume
      BY <2>1 DEF Suspend, DisableAnd, SuspendCancel, CancelTimer, SuspendFinish, Resume
    <2>2. CASE ResumeProgram \/ ResumeFinish \/ Remove \/ RemoveCancel
      BY <2>2 DEF ResumeProgram, ResumeFinish, Remove, RemoveCancel, CancelTimer
    <2>3. CASE RemoveFinish \/ RemoveReleases
      BY <2>3 DEF RemoveFinish, RemoveReleases
    <2> QED
      BY <1>4, <2>1, <2>2, <2>3 DEF PmCore
  <1>5. CASE Endpoint
    <2>1. CASE EndpointDma \/ EndpointConsumes \/ EndpointQuiesces \/ EndpointFaults
      BY <2>1 DEF EndpointDma, EndpointConsumes, EndpointQuiesces, EndpointFaults
    <2> QED
      BY <1>5, <2>1 DEF Endpoint
  <1> QED
    BY <1>1, <1>2, <1>3, <1>4, <1>5 DEF Next

\* A thread inside a protected section is the holder of transition_lock: nobody
\* takes it from it, and who lets go leaves the section.
LEMMA LockStep == PointTypes /\ LockIsHeld /\ PmInv /\ [Next]_vars => LockIsHeld'
  <1> SUFFICES ASSUME PointTypes, LockIsHeld, PmInv, [Next]_vars PROVE LockIsHeld'
    OBVIOUS
  <1> USE MailboxAssumption DEF LockIsHeld, PointTypes, PmInv, Free, Pm, Goto, Return, driverVars,
        lockVars, timerVars, endpointVars, userVars, pmVars
  <1>1. CASE UNCHANGED vars \/ Tick
    BY <1>1 DEF vars, Tick
  <1>2. ASSUME NEW u \in Users, User(u) PROVE LockIsHeld'
    <2>1. CASE StopDisable(u) \/ StopCancel(u) \/ StopFinish(u) \/ Open(u)
      BY <2>1 DEF StopDisable, StopCancel, StopFinish, Open
    <2>2. CASE OpenLocked(u) \/ OpenReset(u) \/ Release(u) \/ ReleaseFinish(u)
      BY <2>2 DEF OpenLocked, OpenReset, Release, ReleaseFinish
    <2>3. CASE Arm(u) \/ Disarm(u) \/ DisarmCancel(u) \/ DisarmFinish(u)
      BY <2>3 DEF Arm, Disarm, DisarmCancel, DisarmFinish
    <2>4. CASE SubmitChecked(u) \/ SubmitExpired(u) \/ SubmitCancel(u) \/ SubmitPublish(u)
      BY <2>4 DEF SubmitChecked, SubmitExpired, SubmitCancel, SubmitPublish
    <2>5. CASE ReadRejected(u)
      BY <2>5 DEF ReadRejected
    <2> QED
      BY <1>2, <2>1, <2>2, <2>3, <2>4, <2>5 DEF User
  <1>3. CASE Watchdog \/ Irq
    <2>1. CASE WatchdogFire \/ WatchdogFn \/ WatchdogRestart \/ IrqAck
      BY <2>1 DEF WatchdogFire, WatchdogFn, WatchdogRestart, IrqAck
    <2>2. CASE IrqFault
      BY <2>2 DEF IrqFault
    <2> QED
      BY <1>3, <2>1, <2>2 DEF Watchdog, Irq
  <1>4. CASE PmCore
    <2>1. CASE Suspend \/ SuspendCancel \/ SuspendFinish \/ Resume
      BY <2>1 DEF Suspend, SuspendCancel, SuspendFinish, Resume
    <2>2. CASE ResumeProgram \/ ResumeFinish \/ Remove \/ RemoveCancel
      BY <2>2 DEF ResumeProgram, ResumeFinish, Remove, RemoveCancel
    <2>3. CASE RemoveFinish \/ RemoveReleases
      BY <2>3 DEF RemoveFinish, RemoveReleases
    <2> QED
      BY <1>4, <2>1, <2>2, <2>3 DEF PmCore
  <1>5. CASE Endpoint
    <2>1. CASE EndpointDma \/ EndpointConsumes \/ EndpointQuiesces \/ EndpointFaults
      BY <2>1 DEF EndpointDma, EndpointConsumes, EndpointQuiesces, EndpointFaults
    <2> QED
      BY <1>5, <2>1 DEF Endpoint
  <1> QED
    BY <1>1, <1>2, <1>3, <1>4, <1>5 DEF Next

\* Types of the ring, which never exceeds its depth, and of the frames.
LEMMA DataStep == TypeOK /\ [Next]_vars => DataTypes'
  <1> SUFFICES ASSUME TypeOK, [Next]_vars PROVE DataTypes'
    OBVIOUS
  <1> USE DEF TypeOK, TimeTypes, PointTypes, DataTypes, driverVars, lockVars, timerVars,
        endpointVars, userVars, pmVars
  <1>1. CASE UNCHANGED vars \/ Tick
    BY <1>1 DEF vars, Tick
  <1>2. ASSUME NEW u \in Users, User(u) PROVE DataTypes'
    <2>1. CASE OpenReset(u)
      <3>1. ring' = ring \/ ring' = << >>
        BY <2>1 DEF OpenReset, ResetSession
      <3>2. frame' \in [Users -> Frames]
        BY <2>1, FrameTypes DEF OpenReset, Return
      <3> QED
        BY <3>1, <3>2, EmptyRing
    <2>2. CASE SubmitChecked(u)
      BY <2>2, CheckedType DEF SubmitChecked
    <2>3. CASE SubmitPublish(u)
      <3> DEFINE c == [kind |-> frame[u].kind, session |-> epoch]
      <3>1. \/ ring' = ring
            \/ Len(ring) < RingDepth /\ ring' = Append(ring, c)
        BY <2>3, SubmitEffect DEF RingHasRoom
      <3>2. Append(ring, c) \in Seq(Commands) /\ Len(Append(ring, c)) = Len(ring) + 1
        BY SubmittedType, RingAppend
      <3>3. frame' \in [Users -> Frames]
        BY <2>3, FrameTypes DEF SubmitPublish, Return
      <3> QED
        BY <3>1, <3>2, <3>3, FrameTypes
    <2>4. CASE StopFinish(u)
      BY <2>4, FrameTypes DEF StopFinish, Return
    <2>5. CASE OpenLocked(u)
      BY <2>5, FrameTypes DEF OpenLocked, Return
    <2>6. CASE ReleaseFinish(u)
      BY <2>6, FrameTypes DEF ReleaseFinish, Return
    <2>7. CASE DisarmFinish(u)
      BY <2>7, FrameTypes DEF DisarmFinish, Return
    <2>8. CASE SubmitCancel(u)
      BY <2>8, FrameTypes DEF SubmitCancel, Return
    <2>9. CASE StopDisable(u) \/ StopCancel(u) \/ Open(u) \/ Release(u) \/ Arm(u) \/ Disarm(u)
       \/ DisarmCancel(u) \/ SubmitExpired(u) \/ ReadRejected(u)
      BY <2>9 DEF StopDisable, StopCancel, Open, Release, Arm, Disarm, DisarmCancel,
         SubmitExpired, ReadRejected
    <2> QED
      BY <1>2, <2>1, <2>2, <2>3, <2>4, <2>5, <2>6, <2>7, <2>8, <2>9 DEF User
  <1>3. CASE Watchdog \/ Irq
    <2>1. CASE WatchdogFire \/ WatchdogFn \/ WatchdogRestart \/ IrqAck \/ IrqFault
      BY <2>1 DEF WatchdogFire, WatchdogFn, WatchdogRestart, IrqAck, IrqFault
    <2> QED
      BY <1>3, <2>1 DEF Watchdog, Irq
  <1>4. CASE PmCore
    <2>1. CASE ResumeProgram
      <3>1. (ring' = ring \/ ring' = << >>) /\ frame' = frame
        BY <2>1 DEF ResumeProgram
      <3> QED
        BY <3>1, EmptyRing
    <2>2. CASE Suspend \/ SuspendCancel \/ SuspendFinish \/ Resume \/ ResumeFinish \/ Remove \/
       RemoveCancel \/ RemoveFinish \/ RemoveReleases
      BY <2>2 DEF Suspend, SuspendCancel, SuspendFinish, Resume, ResumeFinish, Remove,
         RemoveCancel, RemoveFinish, RemoveReleases
    <2> QED
      BY <1>4, <2>1, <2>2 DEF PmCore
  <1>5. CASE Endpoint
    <2>1. CASE EndpointConsumes
      BY <2>1, RingTail, MailboxAssumption DEF EndpointConsumes
    <2>2. CASE EndpointDma \/ EndpointQuiesces \/ EndpointFaults
      BY <2>2 DEF EndpointDma, EndpointQuiesces, EndpointFaults
    <2> QED
      BY <1>5, <2>1, <2>2 DEF Endpoint
  <1> QED
    BY <1>1, <1>2, <1>3, <1>4, <1>5 DEF Next

\* What the PM core relies on between its steps: nobody else leaves SUSPENDED
\* or DEAD.
LEMMA PmStep == PmInv /\ OutputInv /\ LockIsHeld /\ [Next]_vars => PmInv'
  <1> SUFFICES ASSUME PmInv, OutputInv, LockIsHeld, [Next]_vars PROVE PmInv'
    OBVIOUS
  <1> USE MailboxAssumption DEF PmInv, OutputInv, LockIsHeld, Free, Pm, Return, driverVars,
        lockVars, timerVars, endpointVars, userVars, pmVars
  <1>1. CASE UNCHANGED vars \/ Tick
    BY <1>1 DEF vars, Tick
  <1>2. ASSUME NEW u \in Users, User(u) PROVE PmInv'
    <2>1. CASE StopDisable(u) \/ StopCancel(u) \/ StopFinish(u) \/ Open(u)
      BY <2>1 DEF StopDisable, DisableAnd, StopCancel, CancelTimer, StopFinish, Stopped, Open
    <2>2. CASE OpenLocked(u) \/ OpenReset(u) \/ Release(u) \/ ReleaseFinish(u)
      BY <2>2 DEF OpenLocked, OpenReset, ResetSession, Release, ReleaseFinish
    <2>3. CASE Arm(u) \/ Disarm(u) \/ DisarmCancel(u) \/ DisarmFinish(u)
      BY <2>3 DEF Arm, Disarm, DisableAnd, DisarmCancel, CancelTimer, DisarmFinish, Stopped
    <2>4. CASE SubmitChecked(u) \/ SubmitExpired(u) \/ SubmitCancel(u) \/ SubmitPublish(u)
      BY <2>4 DEF SubmitChecked, SubmitExpired, DisableAnd, Usable, SubmitCancel, CancelTimer,
         SubmitPublish
    <2>5. CASE ReadRejected(u)
      BY <2>5 DEF ReadRejected
    <2> QED
      BY <1>2, <2>1, <2>2, <2>3, <2>4, <2>5 DEF User
  <1>3. CASE Watchdog \/ Irq
    <2>1. CASE WatchdogFire \/ WatchdogFn \/ WatchdogRestart \/ IrqAck
      BY <2>1 DEF WatchdogFire, WatchdogFn, DisableAnd, WatchdogRestart, IrqAck
    <2>2. CASE IrqFault
      BY <2>2 DEF IrqFault, DisableAnd
    <2> QED
      BY <1>3, <2>1, <2>2 DEF Watchdog, Irq
  <1>4. CASE PmCore
    <2>1. CASE Suspend \/ SuspendCancel \/ SuspendFinish \/ Resume
      BY <2>1 DEF Suspend, DisableAnd, SuspendCancel, CancelTimer, SuspendFinish, AssertReset,
         Resume
    <2>2. CASE ResumeProgram \/ ResumeFinish \/ Remove \/ RemoveCancel
      BY <2>2 DEF ResumeProgram, AssertReset, ResumeFinish, Remove, RemoveCancel, CancelTimer
    <2>3. CASE RemoveFinish \/ RemoveReleases
      BY <2>3 DEF RemoveFinish, AssertReset, RemoveReleases
    <2> QED
      BY <1>4, <2>1, <2>2, <2>3 DEF PmCore
  <1>5. CASE Endpoint
    <2>1. CASE EndpointDma \/ EndpointConsumes \/ EndpointQuiesces \/ EndpointFaults
      BY <2>1 DEF EndpointDma, EndpointConsumes, EndpointQuiesces, EndpointFaults
    <2> QED
      BY <1>5, <2>1 DEF Endpoint
  <1> QED
    BY <1>1, <1>2, <1>3, <1>4, <1>5 DEF Next

\* Open and release exclude each other and every ioctl.
LEMMA FileStep == FileInv /\ PointTypes /\ [Next]_vars => FileInv'
  <1> SUFFICES ASSUME FileInv, PointTypes, [Next]_vars PROVE FileInv'
    OBVIOUS
  <1> USE DEF FileInv, Entering, PointTypes, Goto, Return, driverVars, lockVars, timerVars,
        endpointVars, userVars, pmVars
  <1>1. CASE UNCHANGED vars \/ Tick
    BY <1>1 DEF vars, Tick
  <1>2. ASSUME NEW u \in Users, User(u) PROVE FileInv'
    <2>1. CASE StopDisable(u) \/ StopCancel(u) \/ StopFinish(u) \/ Open(u)
      BY <2>1 DEF StopDisable, StopCancel, StopFinish, Open
    <2>2. CASE OpenLocked(u) \/ OpenReset(u) \/ Release(u) \/ ReleaseFinish(u)
      BY <2>2 DEF OpenLocked, OpenReset, Release, ReleaseFinish
    <2>3. CASE Arm(u) \/ Disarm(u) \/ DisarmCancel(u) \/ DisarmFinish(u)
      BY <2>3 DEF Arm, Disarm, DisarmCancel, DisarmFinish
    <2>4. CASE SubmitChecked(u) \/ SubmitExpired(u) \/ SubmitCancel(u) \/ SubmitPublish(u)
      BY <2>4 DEF SubmitChecked, SubmitExpired, SubmitCancel, SubmitPublish
    <2>5. CASE ReadRejected(u)
      BY <2>5 DEF ReadRejected
    <2> QED
      BY <1>2, <2>1, <2>2, <2>3, <2>4, <2>5 DEF User
  <1>3. CASE Watchdog \/ Irq
    <2>1. CASE WatchdogFire \/ WatchdogFn \/ WatchdogRestart \/ IrqAck
      BY <2>1 DEF WatchdogFire, WatchdogFn, WatchdogRestart, IrqAck
    <2>2. CASE IrqFault
      BY <2>2 DEF IrqFault
    <2> QED
      BY <1>3, <2>1, <2>2 DEF Watchdog, Irq
  <1>4. CASE PmCore
    <2>1. CASE Suspend \/ SuspendCancel \/ SuspendFinish \/ Resume
      BY <2>1 DEF Suspend, SuspendCancel, SuspendFinish, Resume
    <2>2. CASE ResumeProgram \/ ResumeFinish \/ Remove \/ RemoveCancel
      BY <2>2 DEF ResumeProgram, ResumeFinish, Remove, RemoveCancel
    <2>3. CASE RemoveFinish \/ RemoveReleases
      BY <2>3 DEF RemoveFinish, RemoveReleases
    <2> QED
      BY <1>4, <2>1, <2>2, <2>3 DEF PmCore
  <1>5. CASE Endpoint
    <2>1. CASE EndpointDma \/ EndpointConsumes \/ EndpointQuiesces \/ EndpointFaults
      BY <2>1 DEF EndpointDma, EndpointConsumes, EndpointQuiesces, EndpointFaults
    <2> QED
      BY <1>5, <2>1 DEF Endpoint
  <1> QED
    BY <1>1, <1>2, <1>3, <1>4, <1>5 DEF Next

\* ARMED needs an open session, and stays left behind once a stop has begun.
LEMMA ArmedStep ==
  ArmedInv /\ FileInv /\ PmInv /\ LockIsHeld /\ PointTypes /\ [Next]_vars => ArmedInv'
  <1> SUFFICES ASSUME ArmedInv, FileInv, PmInv, LockIsHeld, PointTypes, [Next]_vars PROVE ArmedInv'
    OBVIOUS
  <1> USE MailboxAssumption DEF ArmedInv, FileInv, Entering, PmInv, LockIsHeld, PointTypes, Free,
        Pm, Goto, Return, driverVars, lockVars, timerVars, endpointVars, userVars, pmVars
  <1>1. CASE UNCHANGED vars \/ Tick
    BY <1>1 DEF vars, Tick
  <1>2. ASSUME NEW u \in Users, User(u) PROVE ArmedInv'
    <2>1. CASE StopDisable(u) \/ StopCancel(u) \/ StopFinish(u) \/ Open(u)
      BY <2>1 DEF StopDisable, DisableAnd, StopCancel, CancelTimer, StopFinish, Stopped, Open
    <2>2. CASE OpenLocked(u) \/ OpenReset(u) \/ Release(u) \/ ReleaseFinish(u)
      BY <2>2 DEF OpenLocked, OpenReset, ResetSession, Release, ReleaseFinish
    <2>3. CASE Arm(u) \/ Disarm(u) \/ DisarmCancel(u) \/ DisarmFinish(u)
      BY <2>3 DEF Arm, StartTimer, Disarm, DisableAnd, DisarmCancel, CancelTimer, DisarmFinish,
         Stopped
    <2>4. CASE SubmitChecked(u) \/ SubmitExpired(u) \/ SubmitCancel(u) \/ SubmitPublish(u)
      BY <2>4 DEF SubmitChecked, SubmitExpired, DisableAnd, SubmitCancel, CancelTimer,
         SubmitPublish
    <2>5. CASE ReadRejected(u)
      BY <2>5 DEF ReadRejected
    <2> QED
      BY <1>2, <2>1, <2>2, <2>3, <2>4, <2>5 DEF User
  <1>3. CASE Watchdog \/ Irq
    <2>1. CASE WatchdogFire \/ WatchdogFn \/ WatchdogRestart \/ IrqAck
      BY <2>1 DEF WatchdogFire, WatchdogFn, DisableAnd, WatchdogRestart, IrqAck
    <2>2. CASE IrqFault
      BY <2>2 DEF IrqFault, DisableAnd
    <2> QED
      BY <1>3, <2>1, <2>2 DEF Watchdog, Irq
  <1>4. CASE PmCore
    <2>1. CASE Suspend \/ SuspendCancel \/ SuspendFinish \/ Resume
      BY <2>1 DEF Suspend, DisableAnd, SuspendCancel, CancelTimer, SuspendFinish, AssertReset,
         Resume
    <2>2. CASE ResumeProgram \/ ResumeFinish \/ Remove \/ RemoveCancel
      BY <2>2 DEF ResumeProgram, AssertReset, ResumeFinish, Remove, RemoveCancel, CancelTimer
    <2>3. CASE RemoveFinish \/ RemoveReleases
      BY <2>3 DEF RemoveFinish, AssertReset, RemoveReleases
    <2> QED
      BY <1>4, <2>1, <2>2, <2>3 DEF PmCore
  <1>5. CASE Endpoint
    <2>1. CASE EndpointDma \/ EndpointConsumes \/ EndpointQuiesces \/ EndpointFaults
      BY <2>1 DEF EndpointDma, EndpointConsumes, EndpointQuiesces, EndpointFaults
    <2> QED
      BY <1>5, <2>1 DEF Endpoint
  <1> QED
    BY <1>1, <1>2, <1>3, <1>4, <1>5 DEF Next

\* Every way out of ARMED clears CONTROL, and every way into DISARMED has seen
\* DMA end.
LEMMA OutputStep == OutputInv /\ PmInv /\ [Next]_vars => OutputInv'
  <1> SUFFICES ASSUME OutputInv, PmInv, [Next]_vars PROVE OutputInv'
    OBVIOUS
  <1> USE DEF OutputInv, PmInv, driverVars, lockVars, timerVars, endpointVars, userVars, pmVars
  <1>1. CASE UNCHANGED vars \/ Tick
    BY <1>1 DEF vars, Tick
  <1>2. ASSUME NEW u \in Users, User(u) PROVE OutputInv'
    <2>1. CASE StopDisable(u) \/ StopCancel(u) \/ StopFinish(u) \/ Open(u)
      BY <2>1 DEF StopDisable, DisableAnd, StopCancel, CancelTimer, StopFinish, Stopped, Open
    <2>2. CASE OpenLocked(u) \/ OpenReset(u) \/ Release(u) \/ ReleaseFinish(u)
      BY <2>2 DEF OpenLocked, OpenReset, ResetSession, Release, ReleaseFinish
    <2>3. CASE Arm(u) \/ Disarm(u) \/ DisarmCancel(u) \/ DisarmFinish(u)
      BY <2>3 DEF Arm, Disarm, DisableAnd, DisarmCancel, CancelTimer, DisarmFinish, Stopped
    <2>4. CASE SubmitChecked(u) \/ SubmitExpired(u) \/ SubmitCancel(u) \/ SubmitPublish(u)
      BY <2>4 DEF SubmitChecked, SubmitExpired, DisableAnd, Usable, SubmitCancel, CancelTimer,
         SubmitPublish
    <2>5. CASE ReadRejected(u)
      BY <2>5 DEF ReadRejected
    <2> QED
      BY <1>2, <2>1, <2>2, <2>3, <2>4, <2>5 DEF User
  <1>3. CASE Watchdog \/ Irq
    <2>1. CASE WatchdogFire \/ WatchdogFn \/ WatchdogRestart \/ IrqAck
      BY <2>1 DEF WatchdogFire, WatchdogFn, DisableAnd, WatchdogRestart, IrqAck
    <2>2. CASE IrqFault
      BY <2>2 DEF IrqFault, DisableAnd
    <2> QED
      BY <1>3, <2>1, <2>2 DEF Watchdog, Irq
  <1>4. CASE PmCore
    <2>1. CASE Suspend \/ SuspendCancel \/ SuspendFinish \/ Resume
      BY <2>1 DEF Suspend, DisableAnd, SuspendCancel, CancelTimer, SuspendFinish, AssertReset,
         Resume
    <2>2. CASE ResumeProgram
      BY <2>2 DEF ResumeProgram, AssertReset
    <2>3. CASE ResumeFinish
      BY <2>3 DEF ResumeFinish
    <2>4. CASE Remove
      BY <2>4 DEF Remove
    <2>5. CASE RemoveCancel
      BY <2>5 DEF RemoveCancel, CancelTimer
    <2>6. CASE RemoveFinish \/ RemoveReleases
      BY <2>6 DEF RemoveFinish, AssertReset, RemoveReleases
    <2> QED
      BY <1>4, <2>1, <2>2, <2>3, <2>4, <2>5, <2>6 DEF PmCore
  <1>5. CASE Endpoint
    <2>1. CASE EndpointDma \/ EndpointConsumes \/ EndpointQuiesces \/ EndpointFaults
      BY <2>1 DEF EndpointDma, EndpointConsumes, EndpointQuiesces, EndpointFaults
    <2> QED
      BY <1>5, <2>1 DEF Endpoint
  <1> QED
    BY <1>1, <1>2, <1>3, <1>4, <1>5 DEF Next

\* A session begins with an empty ring, and a staged command is the last one in
\* it.
LEMMA RingStep == TypeOK /\ PmInv /\ OutputInv /\ RingInv /\ [Next]_vars => RingInv'
  <1> SUFFICES ASSUME TypeOK, PmInv, OutputInv, RingInv, [Next]_vars PROVE RingInv'
    OBVIOUS
  <1> USE DEF TypeOK, PmInv, OutputInv, RingInv, StagedIsInTheRing, driverVars, lockVars,
        timerVars, endpointVars, userVars, pmVars
  <1>1. CASE UNCHANGED vars \/ Tick
    BY <1>1 DEF vars, Tick
  <1>2. ASSUME NEW u \in Users, User(u) PROVE RingInv'
    <2>1. CASE StopDisable(u) \/ StopCancel(u) \/ StopFinish(u) \/ Open(u)
      BY <2>1 DEF StopDisable, DisableAnd, StopCancel, CancelTimer, StopFinish, Stopped, Open
    <2>2. CASE OpenLocked(u) \/ OpenReset(u) \/ Release(u) \/ ReleaseFinish(u)
      BY <2>2 DEF OpenLocked, OpenReset, ResetSession, Release, ReleaseFinish
    <2>3. CASE Arm(u) \/ Disarm(u) \/ DisarmCancel(u) \/ DisarmFinish(u)
      BY <2>3 DEF Arm, Disarm, DisableAnd, DisarmCancel, CancelTimer, DisarmFinish, Stopped
    <2>4. CASE SubmitChecked(u)
      BY <2>4 DEF SubmitChecked
    <2>5. CASE SubmitExpired(u)
      BY <2>5 DEF SubmitExpired, DisableAnd
    <2>6. CASE SubmitCancel(u)
      BY <2>6 DEF SubmitCancel, CancelTimer
    <2>7. CASE SubmitPublish(u)
      <3> DEFINE c == [kind |-> frame[u].kind, session |-> epoch]
      <3>1. \/ UNCHANGED <<ring, staged, state, epoch>>
            \/ /\ ring' = Append(ring, c) /\ UNCHANGED <<state, epoch>>
               /\ staged' => frame[u].kind = "SAFE_STOP"
        BY <2>7, SubmitEffect
      <3>2. /\ c \in Commands /\ c.session = epoch /\ Len(ring) \in Nat
            /\ frame[u].kind = "SAFE_STOP" => c = [kind |-> "SAFE_STOP", session |-> epoch]
        BY SubmittedType, LenProperties DEF DataTypes
      <3>3. /\ Append(ring, c) # << >> /\ Len(Append(ring, c)) = Len(ring) + 1
            /\ \A i \in 1 .. Len(ring) : Append(ring, c)[i] = ring[i]
            /\ Append(ring, c)[Len(ring) + 1] = c
        BY <3>2, AppendProperties DEF DataTypes
      <3>4. CASE UNCHANGED <<ring, staged, state, epoch>>
        BY <3>4
      <3>5. CASE ring' = Append(ring, c) /\ UNCHANGED <<state, epoch>>
                  /\ (staged' => frame[u].kind = "SAFE_STOP")
        <4>1. \A i \in 1 .. Len(ring') : ring'[i].session = epoch'
          BY <3>2, <3>3, <3>5
        <4>2. StagedIsInTheRing'
          BY <3>2, <3>3, <3>5
        <4> QED
          BY <4>1, <4>2
      <3> QED
        BY <3>1, <3>4, <3>5
    <2>8. CASE ReadRejected(u)
      BY <2>8 DEF ReadRejected
    <2> QED
      BY <1>2, <2>1, <2>2, <2>3, <2>4, <2>5, <2>6, <2>7, <2>8 DEF User
  <1>3. CASE Watchdog \/ Irq
    <2>1. CASE WatchdogFire \/ WatchdogFn \/ WatchdogRestart \/ IrqAck
      BY <2>1 DEF WatchdogFire, WatchdogFn, DisableAnd, WatchdogRestart, IrqAck
    <2>2. CASE IrqFault
      BY <2>2 DEF IrqFault, DisableAnd
    <2> QED
      BY <1>3, <2>1, <2>2 DEF Watchdog, Irq
  <1>4. CASE PmCore
    <2>1. CASE Suspend \/ SuspendCancel \/ SuspendFinish \/ Resume
      BY <2>1 DEF Suspend, DisableAnd, SuspendCancel, CancelTimer, SuspendFinish, Resume
    <2>2. CASE ResumeProgram
      BY <2>2 DEF ResumeProgram
    <2>3. CASE ResumeFinish
      BY <2>3 DEF ResumeFinish
    <2>4. CASE Remove
      BY <2>4 DEF Remove
    <2>5. CASE RemoveCancel
      BY <2>5 DEF RemoveCancel, CancelTimer
    <2>6. CASE RemoveFinish \/ RemoveReleases
      BY <2>6 DEF RemoveFinish, RemoveReleases
    <2> QED
      BY <1>4, <2>1, <2>2, <2>3, <2>4, <2>5, <2>6 DEF PmCore
  <1>5. CASE Endpoint
    <2>1. CASE EndpointDma
      BY <2>1 DEF EndpointDma
    <2>2. CASE EndpointConsumes
      BY <2>2, RingTail DEF EndpointConsumes, DataTypes
    <2>3. CASE EndpointQuiesces
      BY <2>3 DEF EndpointQuiesces
    <2>4. CASE EndpointFaults
      BY <2>4 DEF EndpointFaults
    <2> QED
      BY <1>5, <2>1, <2>2, <2>3, <2>4 DEF Endpoint
  <1> QED
    BY <1>1, <1>2, <1>3, <1>4, <1>5 DEF Next

-----------------------------------------------------------------------------
(* The theorems. *)

\* Every step preserves the inductive invariant.
LEMMA StepInv == IInv /\ [Next]_vars => IInv'
  <1> SUFFICES ASSUME IInv, [Next]_vars PROVE IInv'
    OBVIOUS
  <1>1. TypeOK'
    BY FlagStep, TimeStep, PointStep, DataStep, LockStep DEF IInv, TypeOK
  <1>2. PmInv' /\ FileInv' /\ ArmedInv' /\ OutputInv'
    BY PmStep, FileStep, ArmedStep, OutputStep DEF IInv, TypeOK
  <1>3. RingInv'
    BY RingStep DEF IInv
  <1> QED
    BY <1>1, <1>2, <1>3 DEF IInv

\* The invariant holds in every reachable state.
THEOREM Invariance == Spec => []IInv
  <1> QED
    BY InitInv, StepInv, PTL DEF Spec

\* The variables of the driver have their types, and a thread inside a section
\* of transition_lock holds it.
THEOREM TypeCorrect == Spec => []TypeOK
  <1>1. IInv => TypeOK
    BY DEF IInv
  <1> QED
    BY <1>1, Invariance, PTL

\* Whatever user threads, PM core, watchdog and interrupt do: CONTROL is set
\* only in ARMED, with the file open, out of reset, and over commands that were
\* submitted in this session.
THEOREM OutputIsOwned == Spec => []OutputNeedsArmedSession
  <1>1. IInv => OutputNeedsArmedSession
    BY DEF IInv, ArmedInv, OutputInv, RingInv, OutputNeedsArmedSession
  <1> QED
    BY <1>1, Invariance, PTL

\* DISARMED means that DMA ended, and the coherent buffer is given back only
\* when the endpoint does not write to it.
THEOREM EndpointStaysQuiet == Spec => []EndpointIsQuiet
  <1>1. IInv => EndpointIsQuiet
    BY DEF IInv, PmInv, OutputInv, EndpointIsQuiet
  <1> QED
    BY <1>1, Invariance, PTL

\* The command that allows ARM is the newest one in the ring.
THEOREM StagedCommandIsThere == Spec => []StagedIsInTheRing
  <1>1. IInv => StagedIsInTheRing
    BY DEF IInv, RingInv
  <1> QED
    BY <1>1, Invariance, PTL

\* A session begins, and with it the ring indices, only while DMA is quiet and
\* CONTROL is clear.
THEOREM SessionsStartQuiesced == Spec => SessionStartsQuiesced
  <1>1. IInv /\ [Next]_vars => [epoch' # epoch => ~dma /\ ~enabled]_vars
    <2> SUFFICES ASSUME IInv, Next, epoch' # epoch PROVE ~dma /\ ~enabled
      BY DEF vars
    <2> USE DEF driverVars, lockVars, timerVars, endpointVars, userVars, pmVars
    <2>1. CASE \E u \in Users : OpenReset(u)
      BY <2>1 DEF OpenReset, IInv, OutputInv
    <2>2. CASE ResumeProgram
      BY <2>2 DEF ResumeProgram, IInv, PmInv, OutputInv
    <2>3. CASE Tick \/ Watchdog \/ Irq \/ Endpoint
      BY <2>3 DEF Tick, Watchdog, WatchdogFire, WatchdogFn, WatchdogRestart, Irq, IrqAck, IrqFault,
         Endpoint, EndpointDma, EndpointConsumes, EndpointQuiesces, EndpointFaults
    <2>4. ASSUME NEW u \in Users, User(u), ~OpenReset(u) PROVE FALSE
      BY <2>4 DEF User, StopDisable, StopCancel, StopFinish, Open, OpenLocked, Release,
         ReleaseFinish, Arm, Disarm, DisarmCancel, DisarmFinish, SubmitChecked, SubmitExpired,
         SubmitCancel, SubmitPublish, ReadRejected
    <2>5. CASE PmCore /\ ~ResumeProgram
      BY <2>5 DEF PmCore, Suspend, SuspendCancel, SuspendFinish, Resume, ResumeFinish, Remove,
         RemoveCancel, RemoveFinish, RemoveReleases
    <2> QED
      BY <2>1, <2>2, <2>3, <2>4, <2>5 DEF Next
  <1> QED
    BY <1>1, Invariance, PTL DEF Spec, SessionStartsQuiesced
====
