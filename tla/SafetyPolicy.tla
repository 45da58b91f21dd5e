---- MODULE SafetyPolicy ----
(***************************************************************************)
(* The frames of modules/model, the decision of safety::SafetyPolicy and    *)
(* the command of control::JointPd.                                         *)
(*                                                                          *)
(* A joint's numbers are abstracted to what the code tells apart: "ok",     *)
(* "limit" (finite, outside a configured limit), "nan" (position, velocity  *)
(* or gain not finite) and "nanEffort" (only the measured effort is not     *)
(* finite: the controller does not look at it, the policy does).            *)
(***************************************************************************)
EXTENDS Integers, FiniteSets

CONSTANTS
    JointCount,     \* kJointCount
    SafeLease       \* validity of a safe command (1 ms)

ASSUME SafetyAssumption ==
    /\ JointCount \in Nat \ {0}
    /\ SafeLease \in Nat

Joints == 1..JointCount
Quality == {"ok", "limit", "nan", "nanEffort"}
JointData == [Joints -> Quality]

\* Frames.  A command names the target whose positions it copies.
SensorFrames == [seq : Nat, time : Int, joint : JointData, fault : BOOLEAN]
ControlTargets == [seq : Nat, created : Int, until : Int, joint : JointData]
Modes == {"Disabled", "Position", "SafeStop"}
CommandFrames == [mode : Modes, until : Int, joint : JointData, target : ControlTargets]

AllOk == [j \in Joints |-> "ok"]

\* The value-initialised frames SensorFrame{}, ControlTarget{} and CommandFrame{}.
NoSensorFrame == [seq |-> 0, time |-> 0, joint |-> AllOk, fault |-> FALSE]
NoTarget == [seq |-> 0, created |-> 0, until |-> 0, joint |-> AllOk]
NoCommand == [mode |-> "Disabled", until |-> 0, joint |-> AllOk, target |-> NoTarget]

Decisions == {"Accept", "CommandExpired", "InvalidNumber", "LimitViolation", "HardwareFault"}

\* Decisions after which the runtime latches a fault.
FaultDecisions == {"HardwareFault", "InvalidNumber", "LimitViolation"}

\* The verdict on joint j: a number that is not finite is found before a limit.
JointVerdict(state, command, j) ==
    IF {state.joint[j], command.joint[j]} \cap {"nan", "nanEffort"} # {}
    THEN "InvalidNumber"
    ELSE IF "limit" \in {state.joint[j], command.joint[j]} THEN "LimitViolation"
    ELSE "Accept"

\* Mutant of Evaluate: the lease of the command is not looked at.
EvaluateIgnoresLease(state, command, now) ==
    IF state.fault THEN "HardwareFault"
    ELSE IF command.mode # "Position" THEN "CommandExpired"
    ELSE LET bad == {j \in Joints : JointVerdict(state, command, j) # "Accept"} IN
         IF bad = {} THEN "Accept"
         ELSE JointVerdict(state, command, CHOOSE j \in bad : \A k \in bad : j <= k)

\* SafetyPolicy::evaluate: the joints are examined in order, the first bad one decides.
Evaluate(state, command, now) ==
    IF state.fault THEN "HardwareFault"
    ELSE IF command.mode # "Position" \/ now > command.until THEN "CommandExpired"
    ELSE LET bad == {j \in Joints : JointVerdict(state, command, j) # "Accept"} IN
         IF bad = {} THEN "Accept"
         ELSE JointVerdict(state, command, CHOOSE j \in bad : \A k \in bad : j <= k)

\* SafetyPolicy::make_safe_command: hold the measured position.
MakeSafeCommand(state, now) ==
    [mode |-> "SafeStop", until |-> now + SafeLease, target |-> NoTarget,
     joint |-> [j \in Joints |-> IF state.joint[j] = "limit" THEN "limit" ELSE "ok"]]

\* JointPd::update succeeds on finite targets, positions and velocities.
UpdateSucceeds(state, target) ==
    \A j \in Joints : state.joint[j] # "nan" /\ target.joint[j] # "nan"

\* JointPd::update's command.
UpdateCommand(target, now, validity) ==
    [mode |-> "Position", until |-> now + validity, joint |-> target.joint, target |-> target]

====
