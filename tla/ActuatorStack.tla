---- MODULE ActuatorStack ----
(***************************************************************************)
(* The servo stack: ProtocolActuatorHal over DynamixelProtocol2 and the     *)
(* half-duplex serial link, with the I/O loop of the engine that calls it   *)
(* and the servos at the other end of the bus.                              *)
(*                                                                          *)
(* One action is one call of the HAL and what the loop decides from its     *)
(* result.  Deadlines (startup_feedback_timeout, state_validity) may have   *)
(* passed or not whenever a read is NotReady.  The bus loses packets, ends  *)
(* of packets and, where two ends talk at once, any packet.                 *)
(***************************************************************************)
EXTENDS SerialLink, DynamixelProtocol

CONSTANTS
    MaxNoise        \* packets that disturbances other than collisions destroy

ASSUME StackAssumption == MaxNoise \in Nat

VARIABLES
    open, armed, feedbackReady,     \* ProtocolActuatorHal
    torque,         \* the servos that are energized
    due,            \* servos that still have to answer the last Bulk Read
    noise,          \* packets destroyed so far
    phase,          \* the I/O loop: "stopped", "startup", "read", "act", "leave"
    got,            \* "act": read_ok of this cycle
    engineArmed, safeEntered, fault, disarm,    \* armed_, hardware_safe_state_entered, ...
    stopLost        \* a stop found no torque-off on its way, or the last one was destroyed

halVars == <<open, armed, feedbackReady>>
busVars == <<torque, due, noise>>
loopVars == <<phase, got, engineArmed, safeEntered, fault, disarm>>
vars == <<linkVars, protocolVars, halVars, busVars, loopVars, stopLost>>

Init ==
    /\ LinkInit /\ ProtocolInit
    /\ open = FALSE /\ armed = FALSE /\ feedbackReady = FALSE
    /\ torque = {} /\ due = {} /\ noise = 0
    /\ phase = "stopped" /\ got = FALSE /\ engineArmed = FALSE /\ safeEntered = TRUE
    /\ fault = FALSE /\ disarm = FALSE /\ stopLost = FALSE

-----------------------------------------------------------------------------
(* The HAL.  `status` is what the call returns. *)

HalClose ==
    /\ open' = FALSE /\ armed' = FALSE /\ feedbackReady' = FALSE
    /\ IF open THEN LinkClose ELSE UNCHANGED linkVars

\* The startup transaction follows at once; if it cannot be sent the link is closed.
HalOpenSafe(status) ==
    /\ ~open
    /\ ProtocolReset
    /\ \/ /\ {"openFails", "sendFails"} \cap LinkEvents # {} /\ status = "IoError"
          /\ UNCHANGED <<linkVars, halVars>>
       \/ /\ ~linkOpen /\ status = "Ok"
          /\ linkOpen' = TRUE /\ rx' = <<>>
          /\ \E n \in 0 .. Len(EncodeStartup) : Sent(EncodeStartup, n)
          /\ open' = TRUE /\ armed' = FALSE /\ feedbackReady' = FALSE

HalRead(status) ==
    /\ open
    /\ \/ \E size \in 1 .. Len(rx) :
            LinkReceive(size, "Ok") /\ DecodeFeedback(SubSeq(rx, 1, size), status)
       \/ LinkReceive(0, status) /\ UNCHANGED protocolVars
    /\ feedbackReady' = (feedbackReady \/ status = "Ok")
    /\ UNCHANGED <<open, armed>>

HalArm(status) ==
    /\ IF open /\ feedbackReady /\ ~armed
       THEN LinkTransmit(EncodeArm, status)
       ELSE status = "NotReady" /\ UNCHANGED linkVars
    /\ armed' = (armed \/ status = "Ok")
    /\ UNCHANGED <<open, feedbackReady, protocolVars>>

\* Nothing is sent of a command that cannot be encoded.
HalWrite(command, status) ==
    /\ \/ ~(open /\ armed) /\ status = "NotReady" /\ UNCHANGED linkVars
       \/ open /\ armed /\ command \in Encodable /\ LinkTransmit(EncodeCommand(command), status)
       \/ open /\ armed /\ command \notin Encodable /\ status = "IoError" /\ UNCHANGED linkVars
    /\ UNCHANGED <<halVars, protocolVars>>

\* Mutant of HalEmergencyStop: only the flags are cleared.
HalEmergencyStopFlags ==
    /\ armed' = FALSE /\ feedbackReady' = FALSE
    /\ UNCHANGED <<open, linkVars, protocolVars, stopLost>>

\* The result of transmit is not looked at.  The stop is not lost when the link
\* still holds a torque-off, be it its own or that of a safe-stop command.
HalEmergencyStop ==
    /\ IF open
       THEN /\ \E status \in {"Ok", "NotReady", "IoError"} :
                /\ LinkTransmit(EncodeSafeStop, status)
                /\ stopLost' = (status # "Ok" /\ ~Contains(tx', "torqueOff"))
            /\ armed' = FALSE /\ feedbackReady' = FALSE
       ELSE UNCHANGED <<linkVars, halVars, stopLost>>
    /\ UNCHANGED <<open, protocolVars>>

-----------------------------------------------------------------------------
(* The I/O loop of RealtimeEngine::io_loop with arm_actuation. *)

\* A run starts when the bus has been quiet for long: nothing is in flight.
Start ==
    /\ phase = "stopped" /\ wire = <<>> /\ due = {}
    /\ engineArmed' = FALSE /\ safeEntered' = TRUE /\ fault' = FALSE /\ disarm' = FALSE
    /\ got' = FALSE
    /\ \/ HalOpenSafe("Ok") /\ phase' = "startup"
       \/ HalOpenSafe("IoError") /\ phase' = "stopped"
    /\ UNCHANGED <<busVars, stopLost>>

\* Leaving: the deadline, a stop, or the control thread did not start.
StartupPoll ==
    /\ phase = "startup"
    /\ \/ HalRead("Ok") /\ phase' = "read" /\ UNCHANGED safeEntered
       \/ HalRead("NotReady") /\ UNCHANGED <<phase, safeEntered>>
       \/ \E s \in {"Ok", "NotReady", "IoError"} :
            HalRead(s) /\ phase' = "leave" /\ safeEntered' = FALSE
    /\ UNCHANGED <<busVars, got, engineArmed, fault, disarm, stopLost>>

RequestDisarm ==
    /\ phase # "stopped" /\ disarm' = TRUE
    /\ UNCHANGED <<linkVars, protocolVars, halVars, busVars, phase, got, engineArmed, safeEntered,
                   fault, stopLost>>

EnterSafeState ==
    /\ HalEmergencyStop
    /\ safeEntered' = TRUE
    /\ UNCHANGED <<busVars, got, disarm>>

DisarmStop ==
    /\ phase = "read" /\ disarm /\ ~safeEntered
    /\ EnterSafeState
    /\ engineArmed' = FALSE
    /\ UNCHANGED <<phase, fault>>

\* Mutant of CycleRead: a cycle without feedback goes on to the command.
CycleReadOn ==
    /\ phase = "read" /\ (disarm => safeEntered)
    /\ \E s \in {"Ok", "NotReady"} : HalRead(s) /\ got' = (s = "Ok")
    /\ phase' = "act"
    /\ UNCHANGED <<fault, engineArmed, busVars, safeEntered, disarm, stopLost>>

\* NotReady within the state validity ends the cycle once armed, but lets a
\* first arm rest on the startup sample.
CycleRead ==
    /\ phase = "read" /\ (disarm => safeEntered)
    /\ \/ /\ HalRead("Ok")
          /\ phase' = "act" /\ got' = TRUE
          /\ UNCHANGED <<fault, engineArmed>>
       \/ /\ HalRead("NotReady")
          /\ phase' = (IF engineArmed \/ disarm THEN "read" ELSE "act") /\ got' = FALSE
          /\ UNCHANGED <<fault, engineArmed>>
       \/ \E s \in {"NotReady", "IoError"} :
            /\ HalRead(s)
            /\ phase' = "act" /\ got' = FALSE /\ fault' = TRUE /\ engineArmed' = FALSE
    /\ UNCHANGED <<busVars, safeEntered, disarm, stopLost>>

\* A latched fault; also a sample that safety_.evaluate refuses.
CycleFault ==
    /\ phase = "act"
    /\ fault \/ ~disarm
    /\ phase' = "read" /\ fault' = TRUE /\ engineArmed' = FALSE
    /\ IF safeEntered THEN UNCHANGED <<linkVars, protocolVars, halVars, busVars, got, disarm,
                                       safeEntered, stopLost>>
       ELSE EnterSafeState

\* Disarmed, or no command that would arm.
CycleIdle ==
    /\ phase = "act" /\ ~fault /\ (disarm \/ ~engineArmed)
    /\ phase' = "read"
    /\ UNCHANGED <<linkVars, protocolVars, halVars, busVars, got, engineArmed, safeEntered, fault,
                   disarm, stopLost>>

CycleArm ==
    /\ phase = "act" /\ ~fault /\ ~disarm /\ ~engineArmed
    /\ \/ /\ HalArm("Ok")
          /\ engineArmed' = TRUE /\ safeEntered' = FALSE /\ phase' = "read"
          /\ UNCHANGED fault
       \/ \E s \in {"NotReady", "IoError"} :
            /\ HalArm(s)
            /\ fault' = TRUE /\ safeEntered' = FALSE /\ phase' = "act"
            /\ UNCHANGED engineArmed
    /\ UNCHANGED <<busVars, got, disarm, stopLost>>

\* A command that has expired, or is of another mode, is replaced by a safe stop,
\* and the engine stays armed.
CycleWrite ==
    /\ phase = "act" /\ ~fault /\ ~disarm /\ engineArmed
    /\ \/ /\ \E command \in Commands : HalWrite(command, "Ok")
          /\ phase' = "read"
          /\ UNCHANGED <<fault, engineArmed>>
       \/ \E command \in Commands, s \in {"NotReady", "IoError"} :
            /\ HalWrite(command, s)
            /\ fault' = TRUE /\ engineArmed' = FALSE /\ phase' = "act"
    /\ UNCHANGED <<busVars, got, safeEntered, disarm, stopLost>>

\* request_stop, or a failing wait, between two cycles.
Stop ==
    /\ phase = "read"
    /\ phase' = "leave"
    /\ UNCHANGED <<linkVars, protocolVars, halVars, busVars, got, engineArmed, safeEntered, fault,
                   disarm, stopLost>>

LeaveStop ==
    /\ phase = "leave" /\ ~safeEntered
    /\ EnterSafeState
    /\ UNCHANGED <<phase, engineArmed, fault>>

\* The torque-off of the last step may not have reached the kernel yet.
LeaveClose ==
    /\ phase = "leave" /\ safeEntered
    /\ HalClose
    /\ phase' = "stopped" /\ engineArmed' = FALSE
    /\ stopLost' = (stopLost \/ Contains(tx, "torqueOff"))
    /\ UNCHANGED <<protocolVars, busVars, got, safeEntered, fault, disarm>>

-----------------------------------------------------------------------------
(* The bus and the servos. *)

\* What is on its way or in hand when a new request reaches the servos is old.
Older(units) == [i \in DOMAIN units |-> [units[i] EXCEPT !.status.old = TRUE]]

BusDeliver ==
    /\ wire # <<>>
    /\ wire' = Tail(wire)
    /\ \E arrives \in BOOLEAN :
        /\ noise' = IF arrives \/ due # {} THEN noise ELSE noise + 1
        /\ noise' <= MaxNoise
        /\ stopLost' = (\/ stopLost
                        \/ /\ ~arrives /\ Head(wire) = "torqueOff"
                           /\ ~Contains(Tail(wire) \o tx, "torqueOff"))
        /\ torque' = CASE arrives /\ Head(wire) = "torqueOn" -> Joints
                       [] arrives /\ Head(wire) = "torqueOff" -> {}
                       [] OTHER -> torque
        /\ IF arrives /\ Head(wire) = "bulkRead"
           THEN /\ due' = Joints
                /\ rx' = Older(rx) /\ buffer' = Older(buffer)
                /\ sample' = [j \in Joints |-> [sample[j] EXCEPT !.old = TRUE]]
           ELSE UNCHANGED <<due, rx, buffer, sample>>
    /\ UNCHANGED <<linkOpen, tx, seen, faults, frame, halVars, loopVars>>

\* The servos answer in the order of the request.  The first or the second half
\* of an answer, or all of it, may be lost, always so beside another packet.
BusReply ==
    /\ due # {}
    /\ \E j \in due, error \in BOOLEAN,
          parts \in {<<"head", "tail">>, <<"head">>, <<"tail">>, <<>>} :
        LET status == [joint |-> j, error |-> error, old |-> FALSE]
        IN  /\ \A d \in due : j <= d
            /\ due' = due \ {j}
            /\ noise' = IF Len(parts) = 2 \/ wire # <<>> THEN noise ELSE noise + 1
            /\ noise' <= MaxNoise
            /\ rx' = IF linkOpen THEN rx \o [i \in DOMAIN parts |-> Half(status, parts[i])]
                     ELSE rx
    /\ UNCHANGED <<linkOpen, tx, wire, protocolVars, halVars, torque, loopVars, stopLost>>

Loop ==
    \/ StartupPoll \/ DisarmStop \/ CycleRead \/ CycleFault \/ CycleIdle
    \/ CycleArm \/ CycleWrite \/ LeaveStop \/ LeaveClose

Next == Start \/ RequestDisarm \/ Stop \/ Loop \/ BusDeliver \/ BusReply

Spec == Init /\ [][Next]_vars

\* The loop runs, whatever fails or expires, the kernel takes what waits now and
\* then, and the bus carries it.  No deadline or failure is forced to happen.
FairSpec ==
    /\ Spec
    /\ WF_vars(Loop /\ fault' = fault) /\ WF_vars(BusDeliver \/ BusReply)
    /\ SF_vars(tx # <<>> /\ CycleRead /\ Len(tx') < Len(tx))

-----------------------------------------------------------------------------
Queued == wire \o tx

\* What the variables hold.
LinkTypes ==
    /\ wire \in Seq(Packets) /\ tx \in Seq(Packets) /\ Len(tx) <= 2
    /\ rx \in Seq(Halves)
ProtocolTypes ==
    /\ buffer \in Seq(Halves) /\ Len(buffer) <= 1
    /\ sample \in [Joints -> Samples]
    /\ frame \in [ready : BOOLEAN, samples : [Joints -> Samples], faults : SUBSET Joints]
    /\ seen \in SUBSET Joints /\ faults \in SUBSET Joints
BusTypes == torque \in SUBSET Joints /\ due \in SUBSET Joints /\ noise \in 0 .. MaxNoise
FlagTypes ==
    /\ linkOpen \in BOOLEAN /\ open \in BOOLEAN /\ armed \in BOOLEAN /\ feedbackReady \in BOOLEAN
    /\ got \in BOOLEAN /\ engineArmed \in BOOLEAN /\ safeEntered \in BOOLEAN
    /\ fault \in BOOLEAN /\ disarm \in BOOLEAN /\ stopLost \in BOOLEAN
    /\ phase \in {"stopped", "startup", "read", "act", "leave"}

TypeOK == LinkTypes /\ ProtocolTypes /\ BusTypes /\ FlagTypes

\* Half duplex: while a Bulk Read is on its way or being answered nobody sends
\* anything but the torque-off of an emergency stop: a safe-stop command is written
\* only behind the whole answer to the request before it.
CommandsDoNotCollide ==
    /\ \A i \in DOMAIN Queued : Queued[i] = "bulkRead" =>
            \A k \in i + 1 .. Len(Queued) : Queued[k] = "torqueOff"
    /\ due # {} => ToSet(Queued) \subseteq {"torqueOff"}
    /\ Contains(Queued, "torqueOff") /\ (due # {} \/ Contains(Queued, "bulkRead")) =>
            fault \/ disarm \/ phase \in {"leave", "stopped"}

\* A frame is put together from answers of every servo to one and the same
\* request, however the answers were cut into reads and whatever was lost.
FrameIsOneRound ==
    frame.ready =>
        \A j, k \in Joints : frame.samples[j].got /\ frame.samples[j].old = frame.samples[k].old

\* A frame tells exactly the errors that its answers told.
FrameTellsFaults == frame.ready => frame.faults = {j \in Joints : frame.samples[j].error}

\* The state is well formed, and what the engine gets as a frame is true: of one
\* round of answers and with the errors of all of them.
FramesAreTrue == TypeOK /\ FrameIsOneRound /\ FrameTellsFaults

\* What the bus ends in when all that waits has been delivered.
EndsEnergized ==
    \/ \E i \in DOMAIN Queued :
        Queued[i] = "torqueOn" /\ \A k \in i + 1 .. Len(Queued) : Queued[k] # "torqueOff"
    \/ torque # {} /\ ~Contains(Queued, "torqueOff")

\* Once the loop has entered the safe state nothing that still waits ends in an
\* energized servo, unless the link refused the torque-off while it held none, or
\* the bus lost the last one.
StopStands == safeEntered /\ ~stopLost => ~EndsEnergized

\* CONTRIBUTING.md:34: emergency_stop() keeps the hardware safe.  So a run, which
\* ends with it, leaves no energized servo behind on a bus that loses nothing.
StoppedIsSafe == phase = "stopped" /\ wire = <<>> => torque = {}

\* With an armed loop and a quiet bus the answers to the last request become a
\* frame, but behind a safe-stop command: it asks for no feedback, so the servos
\* are released and silent until the state validity runs out.
ReleasedAndSilent == torque = {} /\ due = {} /\ Queued = <<>>
AnswersBecomeAFrame ==
    engineArmed /\ ~got ~> got \/ ~engineArmed \/ noise > 0 \/ ReleasedAndSilent

\* The torque-off of a stop reaches the servos if neither link nor bus lost it.
StopTakesEffect == safeEntered /\ ~stopLost ~> torque = {} \/ stopLost
====
