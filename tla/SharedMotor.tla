---- MODULE SharedMotor ----
(***************************************************************************)
(* Two processes and a shared memory region: the controller (the engine's   *)
(* I/O loop over SharedMemoryHal, attached to the region) and the L0        *)
(* process (owner of the region and of the EtherCAT master).                *)
(*                                                                          *)
(* The shared words are accessed one at a time; the two processes           *)
(* interleave, die anywhere and start again.  Time passes in ticks: what is *)
(* older than one tick is too old, and a process spends at most one tick in *)
(* a cycle.  What L0 does between receive() and send() is not in the        *)
(* repository: the docs fix the order, and this model the rest.             *)
(***************************************************************************)
EXTENDS IghMaster

CONSTANTS
    Attempts,       \* kSnapshotReadAttempts
    MaxRegions,     \* regions that L0 makes
    MaxDeaths,      \* processes that are killed
    MaxFeedbackAge, \* max_feedback_age_ns, in ticks
    Lease           \* valid_until_ns - created_ns, in ticks

ASSUME SharedMotorAssumption ==
    /\ Attempts \in Nat \ {0} /\ MaxRegions \in Nat /\ MaxDeaths \in Nat
    /\ MaxFeedbackAge \in Nat /\ Lease \in Nat

VARIABLES
    region,         \* the named object: "none", "empty", "zero", "header", "ready"
    enable,         \* motor_enable
    faultCode,      \* l0_fault_code # 0
    cmdOdd, cmdStamp, cmdBody, cmdWriter, cmdReader,    \* the command, see Snapshot
    fbkOdd, fbkStamp, fbkBody, fbkWriter, fbkReader,    \* the feedback
    orphan,         \* what the controller reads in a region without a name
    phase,          \* the controller, see Phases
    mapped,         \* its region: "no", "named", "orphan"
    opened, armed, haveFeedback,    \* SharedMemoryHal
    safeEntered, barred,            \* the I/O loop: hardware_safe_state_entered; fault or disarm
    late,           \* a tick has passed since the now_ns of the controller's cycle
    l0,             \* the L0 process, see L0Phases
    sawEnable,      \* motor_enable as read in this L0 cycle: "off", "on", "before"
    regions, deaths,
    torn            \* directions a writer died in: "command", "feedback"

cmdVars == <<cmdOdd, cmdStamp, cmdBody, cmdWriter, cmdReader>>
fbkVars == <<fbkOdd, fbkStamp, fbkBody, fbkWriter, fbkReader>>
regionVars == <<region, enable, faultCode, orphan, torn>>
halVars == <<opened, armed, haveFeedback>>
ctlVars == <<phase, mapped, halVars, safeEntered, barred, late>>
l0Vars == <<l0, sawEnable, regions>>
vars == <<regionVars, cmdVars, fbkVars, ctlVars, l0Vars, ighVars, deaths>>

Kinds == {"none", "goal", "hold"}
Orders == [kind : Kinds, before : BOOLEAN]     \* before: of an earlier run of the controller
NoOrder == [kind |-> "none", before |-> FALSE]
Command == INSTANCE Snapshot WITH Bodies <- Orders, MaxAge <- Lease + 1,
    odd <- cmdOdd, stamp <- cmdStamp, body <- cmdBody, writer <- cmdWriter, reader <- cmdReader
Feedback == INSTANCE Snapshot WITH Bodies <- {"none", "sample"}, MaxAge <- MaxFeedbackAge + 2,
    odd <- fbkOdd, stamp <- fbkStamp, body <- fbkBody, writer <- fbkWriter, reader <- fbkReader

NoOrphan == [odd |-> FALSE, age |-> MaxFeedbackAge + 2, bad |-> FALSE]

Phases == {"off", "mapping", "attached", "startup", "idle", "reading", "act", "publishing", "leave"}
L0Phases == {"down", "create", "init", "zero", "activate", "cycle", "input", "reading",
             "publishing", "send"}

Init ==
    /\ IghInit
    /\ region = "none" /\ enable = 0 /\ faultCode = FALSE /\ torn = {}
    /\ cmdOdd = FALSE
    /\ cmdWriter = Command!NoWriter(NoOrder) /\ cmdReader = Command!NoCopy(NoOrder)
    /\ cmdStamp = cmdReader.stamp /\ cmdBody = cmdReader.body
    /\ fbkOdd = FALSE
    /\ fbkWriter = Feedback!NoWriter("none") /\ fbkReader = Feedback!NoCopy("none")
    /\ fbkStamp = fbkReader.stamp /\ fbkBody = fbkReader.body
    /\ orphan = NoOrphan
    /\ phase = "off" /\ mapped = "no" /\ opened = FALSE /\ armed = FALSE /\ haveFeedback = FALSE
    /\ safeEntered = TRUE /\ barred = FALSE /\ late = FALSE
    /\ l0 = "down" /\ sawEnable = "off" /\ regions = 0 /\ deaths = 0

-----------------------------------------------------------------------------
(* The controller. *)

\* attach(): shm_open; then fstat, mmap and the check of the header.
Attach ==
    /\ phase = "off" /\ region # "none"
    /\ phase' = "mapping" /\ mapped' = "named"
    /\ UNCHANGED <<regionVars, cmdVars, fbkVars, halVars, safeEntered, barred, late, l0Vars,
                   ighVars, deaths>>

AttachMap ==
    /\ phase = "mapping"
    /\ IF mapped = "orphan" \/ region \in {"header", "ready"}
       THEN phase' = "attached" /\ UNCHANGED mapped
       ELSE phase' = "off" /\ mapped' = "no"
    /\ UNCHANGED <<regionVars, cmdVars, fbkVars, halVars, safeEntered, barred, late, l0Vars,
                   ighVars, deaths>>

Detach ==
    /\ phase = "attached"
    /\ phase' = "off" /\ mapped' = "no" /\ orphan' = NoOrphan
    /\ UNCHANGED <<region, enable, faultCode, torn, cmdVars, fbkVars, halVars, safeEntered, barred,
                   late, l0Vars, ighVars, deaths>>

\* motor_enable.store, which nobody sees any more in an orphan.
SetEnable(value) == enable' = IF mapped = "named" THEN value ELSE enable

\* What an earlier run has ordered or raised is not this run's.
Earlier(word) == [word EXCEPT !.item.before = word.item.kind = "goal"]
RunBegins ==
    /\ cmdBody' = Earlier(cmdBody) /\ cmdReader' = [cmdReader EXCEPT !.body = Earlier(@)]
    /\ sawEnable' = IF sawEnable = "on" THEN "before" ELSE sawEnable
    /\ UNCHANGED <<cmdOdd, cmdStamp, cmdWriter>>

\* Mutant of OpenSafe: the enable line is left as it was.
OpenSafeLeaves ==
    /\ phase = "attached"
    /\ opened' = TRUE /\ armed' = FALSE /\ haveFeedback' = FALSE
    /\ phase' = "startup" /\ safeEntered' = TRUE
    /\ RunBegins
    /\ UNCHANGED <<regionVars, fbkVars, mapped, barred, late, l0, regions, ighVars, deaths>>

OpenSafe ==
    /\ phase = "attached"
    /\ SetEnable(0)
    /\ opened' = TRUE /\ armed' = FALSE /\ haveFeedback' = FALSE
    /\ phase' = "startup" /\ safeEntered' = TRUE
    /\ RunBegins
    /\ UNCHANGED <<region, faultCode, orphan, torn, fbkVars, mapped, barred, late, l0, regions,
                   ighVars, deaths>>

\* A startup poll or a cycle takes its now_ns and reads.
CycleBegin ==
    /\ phase \in {"startup", "idle"}
    /\ phase' = "reading"
    /\ IF mapped = "named" THEN Feedback!ReadBegin ELSE UNCHANGED fbkVars
    /\ UNCHANGED <<regionVars, cmdVars, mapped, halVars, safeEntered, barred, late, l0Vars,
                   ighVars, deaths>>

ReadStep ==
    /\ phase = "reading" /\ mapped = "named"
    /\ Feedback!Reading("none")
    /\ UNCHANGED <<regionVars, cmdVars, ctlVars, l0Vars, ighVars, deaths>>

\* Mutant of Acceptable: the age is not looked at.
AnyAge(age) == TRUE

\* Not sampled after the now_ns of the cycle, nor too long before it.
Acceptable(age) ==
    LET now == IF late THEN 1 ELSE 0
    IN  age >= now /\ age - now <= MaxFeedbackAge

\* read(): whether it takes a snapshot, and whether that has fault bits; an
\* error flag of a joint counts like a fault code.
ReadOutcome ==
    IF mapped = "orphan"
    THEN [got |-> ~orphan.odd /\ Acceptable(orphan.age), bad |-> orphan.bad]
    ELSE [got |-> /\ fbkReader.step = "done" /\ fbkReader.body.item # "none"
                  /\ Acceptable(fbkReader.stamp.age),
          bad |-> faultCode]

\* The loop goes on by what read() returned: an IoError ends the startup and is
\* latched as a fault later on.
CycleRead ==
    /\ phase = "reading"
    /\ mapped = "orphan" \/ fbkReader.step \in {"done", "failed"}
    /\ haveFeedback' = (haveFeedback \/ ReadOutcome.got)
    /\ IF ReadOutcome.got /\ ~ReadOutcome.bad
       THEN phase' = "act" /\ UNCHANGED <<safeEntered, barred>>
       ELSE IF haveFeedback \/ armed \/ barred
       THEN phase' = "act" /\ barred' = TRUE /\ UNCHANGED safeEntered
       ELSE phase' = "leave" /\ safeEntered' = FALSE /\ UNCHANGED barred
    /\ fbkReader' = Feedback!NoCopy("none") /\ late' = FALSE
    /\ UNCHANGED <<regionVars, cmdVars, fbkOdd, fbkStamp, fbkBody, fbkWriter, mapped, opened,
                   armed, l0Vars, ighVars, deaths>>

CycleIdle ==
    /\ phase = "act" /\ (barred => safeEntered)
    /\ phase' = "idle"
    /\ barred' \in {barred, TRUE}   \* request_disarm
    /\ UNCHANGED <<regionVars, cmdVars, fbkVars, mapped, halVars, safeEntered, late, l0Vars,
                   ighVars, deaths>>

\* L0 without faults, and feedback since open_safe.
ArmAllowed ==
    /\ opened /\ haveFeedback
    /\ ~(IF mapped = "orphan" THEN orphan.bad ELSE faultCode)

\* arm(); NotReady is latched as a fault and stops.
Arm ==
    /\ phase = "act" /\ ~barred /\ ~armed
    /\ safeEntered' = FALSE
    /\ IF ArmAllowed
       THEN SetEnable(1) /\ armed' = TRUE /\ phase' = "idle" /\ UNCHANGED barred
       ELSE barred' = TRUE /\ UNCHANGED <<enable, armed, phase>>
    /\ UNCHANGED <<region, faultCode, orphan, torn, cmdVars, fbkVars, mapped, opened, haveFeedback,
                   late, l0Vars, ighVars, deaths>>

Publish(kind) ==
    IF mapped = "named"
    THEN Command!PublishBegin(0, [kind |-> kind, before |-> FALSE])
    ELSE UNCHANGED cmdVars

\* write() of a command in Position mode that is valid now.
Write ==
    /\ phase = "act" /\ ~barred /\ armed
    /\ Publish("goal")
    /\ phase' = IF mapped = "named" THEN "publishing" ELSE "idle"
    /\ UNCHANGED <<regionVars, fbkVars, mapped, halVars, safeEntered, barred, late, l0Vars,
                   ighVars, deaths>>

\* Mutant of EmergencyStop: no hold frame follows the enable line.
EmergencyStopSilent ==
    /\ \/ phase \in {"act", "leave"} /\ ~safeEntered /\ (phase = "act" => barred)
       \/ phase = "idle" /\ barred /\ ~safeEntered
    /\ SetEnable(0)
    /\ safeEntered' = TRUE /\ armed' = FALSE
    /\ UNCHANGED <<region, faultCode, orphan, torn, cmdVars, fbkVars, mapped, opened, phase,
                   haveFeedback, barred, late, l0Vars, ighVars, deaths>>

\* emergency_stop(): for a fault, for a disarm at the head of the next cycle, or
\* on the way out.  armed_ falls when the hold frame is out, but the caller is
\* the only reader of it.
EmergencyStop ==
    /\ \/ phase \in {"act", "leave"} /\ ~safeEntered /\ (phase = "act" => barred)
       \/ phase = "idle" /\ barred /\ ~safeEntered
    /\ SetEnable(0)
    /\ Publish("hold")
    /\ safeEntered' = TRUE /\ armed' = FALSE
    /\ phase' = IF phase = "leave" THEN "leave" ELSE IF mapped = "named" THEN "publishing" ELSE "idle"
    /\ UNCHANGED <<region, faultCode, orphan, torn, fbkVars, mapped, opened, haveFeedback, barred,
                   late, l0Vars, ighVars, deaths>>

\* The call returns with the second store of the sequence number.
PublishStep ==
    /\ Command!Publishing(NoOrder)
    /\ phase' = IF cmdWriter'.step = "idle" /\ phase = "publishing" THEN "idle" ELSE phase
    /\ UNCHANGED <<regionVars, fbkVars, mapped, halVars, safeEntered, barred, late, l0Vars,
                   ighVars, deaths>>

\* request_stop between two cycles; during the startup it counts as a failure.
Leave ==
    /\ phase \in {"startup", "idle"}
    /\ phase' = "leave"
    /\ safeEntered' = (IF phase = "startup" THEN FALSE ELSE safeEntered)
    /\ UNCHANGED <<regionVars, cmdVars, fbkVars, mapped, halVars, barred, late, l0Vars, ighVars,
                   deaths>>

HalClose ==
    /\ phase = "leave" /\ safeEntered /\ cmdWriter.step = "idle"
    /\ SetEnable(0)
    /\ opened' = FALSE /\ armed' = FALSE /\ haveFeedback' = FALSE
    /\ phase' = "attached" /\ barred' = FALSE
    /\ UNCHANGED <<region, faultCode, orphan, torn, cmdVars, fbkVars, mapped, safeEntered,
                   late, l0Vars, ighVars, deaths>>

ControllerDies ==
    /\ phase # "off" /\ deaths < MaxDeaths
    /\ deaths' = deaths + 1
    /\ phase' = "off" /\ mapped' = "no" /\ opened' = FALSE /\ armed' = FALSE /\ haveFeedback' = FALSE
    /\ safeEntered' = TRUE /\ barred' = FALSE /\ late' = FALSE /\ orphan' = NoOrphan
    /\ torn' = IF cmdWriter.step # "idle" THEN torn \cup {"command"} ELSE torn
    /\ cmdWriter' = Command!NoWriter(NoOrder)
    /\ fbkReader' = Feedback!NoCopy("none")
    /\ UNCHANGED <<region, enable, faultCode, cmdOdd, cmdStamp, cmdBody, cmdReader, fbkOdd,
                   fbkStamp, fbkBody, fbkWriter, l0Vars, ighVars>>

-----------------------------------------------------------------------------
(* The region and the L0 process. *)

\* create_owner(): O_EXCL refuses a name that exists.
L0Create ==
    /\ l0 = "down" /\ region = "none"
    /\ region' = "empty" /\ l0' = "create"
    /\ UNCHANGED <<enable, faultCode, orphan, torn, cmdVars, fbkVars, ctlVars, sawEnable,
                   regions, ighVars, deaths>>

\* ftruncate and mmap: from now on the region has an owner.
L0Size ==
    /\ l0 = "create" /\ regions < MaxRegions
    /\ region' = "zero" /\ l0' = "init" /\ regions' = regions + 1
    /\ UNCHANGED <<enable, faultCode, orphan, torn, cmdVars, fbkVars, ctlVars, sawEnable,
                   ighVars, deaths>>

\* The placement new: the header first, then the zeros of the atomics.
L0Header ==
    /\ l0 = "init"
    /\ region' = "header" /\ l0' = "zero"
    /\ UNCHANGED <<enable, faultCode, orphan, torn, cmdVars, fbkVars, ctlVars, sawEnable,
                   regions, ighVars, deaths>>

ZeroRegion ==
    /\ enable' = 0 /\ faultCode' = FALSE
    /\ Command!Zeroed(NoOrder) /\ Feedback!Zeroed("none")
    /\ cmdReader' = Command!Moved /\ fbkReader' = Feedback!Moved

L0Zero ==
    /\ l0 = "zero"
    /\ region' = "ready" /\ l0' = "activate"
    /\ ZeroRegion
    /\ UNCHANGED <<orphan, torn, cmdWriter, fbkWriter, ctlVars, sawEnable, regions, ighVars,
                   deaths>>

\* shm_unlink, with the pages of a region that gets created next being zero.
\* What the controller does to the old one is its own business from now on.
Unlink ==
    /\ region' = "none" /\ torn' = {}
    /\ enable' = 0 /\ faultCode' = FALSE
    /\ Command!Zeroed(NoOrder) /\ Feedback!Zeroed("none")
    /\ cmdReader' = Command!NoCopy(NoOrder) /\ fbkReader' = Feedback!NoCopy("none")
    /\ cmdWriter' = Command!NoWriter(NoOrder) /\ fbkWriter' = Feedback!NoWriter("none")
    /\ phase' = IF phase = "publishing" THEN "idle" ELSE phase
    /\ IF mapped = "named"
       THEN /\ mapped' = "orphan"
            /\ orphan' = [odd |-> fbkOdd, age |-> fbkStamp.age,
                          bad |-> faultCode \/ fbkBody.item = "none"]
       ELSE UNCHANGED <<mapped, orphan>>

\* close() of the region.
L0Gone ==
    /\ Unlink
    /\ l0' = "down" /\ sawEnable' = "off"
    /\ UNCHANGED <<halVars, safeEntered, barred, late, regions, deaths>>

\* ftruncate or mmap fails.  owner_ is not set yet, so that close() leaves the
\* name, and the next create_owner() finds it.
L0CreateFails ==
    /\ l0 = "create"
    /\ region' \in {"empty", "zero"} /\ l0' = "down"
    /\ UNCHANGED <<enable, faultCode, orphan, torn, cmdVars, fbkVars, ctlVars, sawEnable,
                   regions, ighVars, deaths>>

L0Activate ==
    /\ l0 = "activate"
    /\ \/ IghActivate("Ok") /\ l0' = "cycle"
          /\ UNCHANGED <<regionVars, cmdVars, fbkVars, ctlVars, sawEnable, regions, deaths>>
       \/ IghActivate("IoError") /\ L0Gone

\* A failing receive: the commands are not renewed, the slaves go to their safe state.
L0Receive ==
    /\ l0 = "cycle"
    /\ \/ /\ IghReceive("Ok")
          /\ l0' = "input" /\ faultCode' = ~ready'
       \/ \E s \in {"NotReady", "IoError"} :
            /\ IghReceive(s)
            /\ l0' = "send" /\ faultCode' = TRUE
    /\ UNCHANGED <<region, enable, orphan, torn, cmdVars, fbkVars, ctlVars, sawEnable, regions,
                   deaths>>

\* The enable line is read before the command.
L0Input ==
    /\ l0 = "input"
    /\ l0' = "reading" /\ sawEnable' = (IF enable = 1 THEN "on" ELSE "off")
    /\ Command!ReadBegin
    /\ UNCHANGED <<regionVars, fbkVars, ctlVars, regions, ighVars, deaths>>

L0ReadStep ==
    /\ l0 = "reading"
    /\ Command!Reading(NoOrder)
    /\ UNCHANGED <<regionVars, fbkVars, ctlVars, l0Vars, ighVars, deaths>>

\* What L0 drives: a command it could read, within its lease, with the enable line up.
Driven ==
    IF /\ cmdReader.step = "done" /\ cmdReader.body.item.kind # "none"
       /\ cmdReader.stamp.age <= Lease /\ sawEnable # "off" /\ ready
    THEN cmdReader.body.item.kind ELSE "nothing"

\* The outputs are written, and the feedback is published.
L0Output ==
    /\ l0 = "reading" /\ cmdReader.step \in {"done", "failed"}
    /\ cmdReader' = Command!NoCopy(NoOrder)
    /\ Feedback!PublishBegin(0, "sample")
    /\ l0' = "publishing" /\ sawEnable' = "off"
    /\ UNCHANGED <<regionVars, cmdOdd, cmdStamp, cmdBody, cmdWriter, ctlVars, regions, ighVars,
                   deaths>>

L0PublishStep ==
    /\ l0 = "publishing"
    /\ Feedback!Publishing("none")
    /\ l0' = IF fbkWriter'.step = "idle" THEN "send" ELSE "publishing"
    /\ UNCHANGED <<regionVars, cmdVars, ctlVars, sawEnable, regions, ighVars, deaths>>

\* Every cycle ends with send(), whatever receive() returned.
L0Send ==
    /\ l0 = "send"
    /\ \E s \in {"Ok", "NotReady", "IoError"} : IghSend(s)
    /\ l0' = "cycle"
    /\ UNCHANGED <<regionVars, cmdVars, fbkVars, ctlVars, sawEnable, regions, deaths>>

L0Close ==
    /\ l0 = "cycle"
    /\ IghClose /\ UNCHANGED busFaults
    /\ L0Gone

\* The kernel releases the master; the name and the region stay.
L0Dies ==
    /\ l0 # "down" /\ deaths < MaxDeaths
    /\ deaths' = deaths + 1
    /\ l0' = "down" /\ sawEnable' = "off"
    /\ IghClose /\ UNCHANGED busFaults
    /\ torn' = IF fbkWriter.step # "idle" THEN torn \cup {"feedback"} ELSE torn
    /\ fbkWriter' = Feedback!NoWriter("none")
    /\ cmdReader' = Command!NoCopy(NoOrder)
    /\ UNCHANGED <<region, enable, faultCode, orphan, cmdOdd, cmdStamp, cmdBody, cmdWriter, fbkOdd,
                   fbkStamp, fbkBody, fbkReader, ctlVars, regions>>

\* Somebody removes the name that a dead L0 or a failing create_owner() has left.
\* An attach that is going to fail comes first.
RemoveName ==
    /\ l0 = "down" /\ region # "none"
    /\ phase = "mapping" /\ mapped = "named" => region \in {"header", "ready"}
    /\ Unlink
    /\ UNCHANGED <<halVars, safeEntered, barred, late, l0Vars, ighVars, deaths>>

Tick ==
    /\ ~late
    /\ Command!GrowOlder /\ Feedback!GrowOlder
    /\ orphan' = [orphan EXCEPT !.age = Feedback!Older(@)]
    /\ late' = (phase = "reading")
    /\ UNCHANGED <<region, enable, faultCode, torn, phase, mapped, halVars, safeEntered, barred,
                   l0Vars, ighVars, deaths>>

Controller ==
    \/ Attach \/ AttachMap \/ Detach \/ OpenSafe \/ CycleBegin \/ ReadStep \/ CycleRead
    \/ CycleIdle \/ Arm \/ Write \/ EmergencyStop \/ PublishStep \/ Leave \/ HalClose
    \/ ControllerDies

L0 ==
    \/ L0Create \/ L0CreateFails \/ L0Size \/ L0Header \/ L0Zero \/ L0Activate
    \/ L0Receive \/ L0Input \/ L0ReadStep \/ L0Output \/ L0PublishStep \/ L0Send
    \/ L0Close \/ L0Dies \/ RemoveName

Next == Controller \/ L0 \/ Tick

Spec == Init /\ [][Next]_vars

-----------------------------------------------------------------------------
RegionTypes ==
    /\ region \in {"none", "empty", "zero", "header", "ready"} /\ enable \in 0 .. 1
    /\ faultCode \in BOOLEAN /\ torn \subseteq {"command", "feedback"}

CommandTypes ==
    /\ cmdOdd \in BOOLEAN /\ cmdStamp \in Command!Stamps /\ cmdBody \in Command!TaggedBodies
    /\ cmdWriter \in Command!Writers /\ cmdReader \in Command!Readers

FeedbackTypes ==
    /\ fbkOdd \in BOOLEAN /\ fbkStamp \in Feedback!Stamps /\ fbkBody \in Feedback!TaggedBodies
    /\ fbkWriter \in Feedback!Writers /\ fbkReader \in Feedback!Readers

ControllerTypes ==
    /\ phase \in Phases /\ mapped \in {"no", "named", "orphan"}
    /\ opened \in BOOLEAN /\ armed \in BOOLEAN /\ haveFeedback \in BOOLEAN
    /\ safeEntered \in BOOLEAN /\ barred \in BOOLEAN /\ late \in BOOLEAN

L0Types ==
    /\ l0 \in L0Phases /\ sawEnable \in {"off", "on", "before"}
    /\ held \in BOOLEAN /\ active \in BOOLEAN /\ received \in BOOLEAN
    /\ regions \in 0 .. MaxRegions /\ deaths \in 0 .. MaxDeaths

\* What the variables hold.
TypeOK == RegionTypes /\ CommandTypes /\ FeedbackTypes /\ ControllerTypes /\ L0Types

\* A snapshot that is used is one publication and no mixture of two, unless a
\* writer of this direction died between its two sequence numbers.  An owner
\* that still zeroes the region can make one even under a writer's hands and
\* leave half of a command behind, but L0 never drives it.
SnapshotsAreWhole ==
    [][/\ l0 = "reading" /\ Driven # "nothing" /\ l0' = "publishing" /\ "command" \notin torn
          => cmdReader.stamp.ago = cmdReader.body.ago
       /\ phase = "reading" /\ phase' = "act" /\ fbkReader.step = "done" /\ "feedback" \notin torn
          => fbkReader.stamp.ago = fbkReader.body.ago]_vars

\* The enable line of the region tells whether the HAL is armed, also when the
\* controller attaches to a region that is still being made, or left by a dead one.
EnableTellsArmed ==
    opened /\ mapped = "named" => (enable = 1 <=> armed)

\* L0 never drives, for a controller that has armed, the goal of an earlier run:
\* a stop leaves a hold frame behind.  A controller that dies cannot.
OldGoalsAreNotDriven ==
    [][l0 = "reading" /\ l0' = "publishing" /\ Driven = "goal"
        => ~(cmdReader.body.item.before /\ sawEnable = "on") \/ deaths > 0]_vars

\* What is driven rests on a receive that has asked every slave.
DrivesOnABusThatTold ==
    [][l0 = "reading" /\ l0' = "publishing" /\ Driven # "nothing" => told = Slaves]_vars

\* An L0 process that is not cycling keeps no reservation of the master.
IdleMasterIsFree == l0 \in {"down", "create", "init", "zero", "activate"} => ~held

\* A cycle stays open over its end only where a send failed.
CyclesAreClosed == l0 = "cycle" /\ received => busFaults > 0

\* A name that is there without an L0 process was left by a death, or by a
\* create_owner() that failed.  The second kind has no header: it stands in the
\* way of the next create_owner(), but nobody attaches to it.
NamesHaveAnOwner ==
    /\ l0 = "down" /\ region \in {"header", "ready"} => deaths > 0
    /\ mapped = "named" /\ phase # "mapping" => region \in {"header", "ready"}

\* The state is well formed, and nothing outlives who answers for it: the enable
\* line its run of the HAL, a region that can be used its L0 process, the
\* reservation of the master as well, a cycle its send.
NothingOutlivesItsOwner ==
    /\ TypeOK /\ EnableTellsArmed /\ NamesHaveAnOwner /\ IdleMasterIsFree /\ CyclesAreClosed

\* An armed controller whose feedback has stopped, because L0 died or because the
\* region lost its name, does not get through another cycle without a fault.
DeadFeedbackIsAFault ==
    [][/\ armed /\ phase = "reading" /\ phase' # "reading" /\ phase' # "off"
       /\ MaxFeedbackAge + 2 = IF mapped = "orphan" THEN orphan.age ELSE fbkStamp.age
       => barred']_vars
====
