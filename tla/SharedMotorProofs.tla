---- MODULE SharedMotorProofs ----
(***************************************************************************)
(* Proofs of the safety properties of SharedMotor.tla, for any number of    *)
(* attempts, slaves, regions, deaths and failing calls, and for all ages.   *)
(*                                                                          *)
(* IInv relates the two ends of the region: what a reader has copied to     *)
(* what the writer has still to write, the age of a copy to that of the     *)
(* word it was copied from, and the order in the region to the phase of the *)
(* controller.  What a step does to one direction of the region is said     *)
(* once, by CommandStep and FeedbackStep.                                   *)
(***************************************************************************)
EXTENDS SharedMotor, TLAPS

Quiet == {"off", "mapping", "attached"}
Idle == {"down", "create", "init", "zero", "activate"}
Cycling == {"cycle", "input", "reading", "publishing", "send"}
Copying == {"before", "stamp", "body", "after"}

\* A reader that is still trying has an attempt left.
TriesInv ==
    /\ cmdReader.step \in Copying => cmdReader.tries < Attempts
    /\ fbkReader.step \in Copying => fbkReader.tries < Attempts

\* The L0 process gets the region ready before it cycles, and publishes nothing
\* before: a region in the making tells no reader anything.
RegionInv ==
    /\ l0 = "create" => region = "empty"
    /\ l0 = "init" => region = "zero"
    /\ l0 = "zero" => region = "header"
    /\ l0 \in Cycling \cup {"activate"} => region = "ready"
    /\ fbkWriter.step # "idle" <=> l0 = "publishing"
    /\ l0 = "down" /\ region \in {"header", "ready"} => deaths > 0
    /\ region # "ready" =>
          /\ fbkBody.item = "none" /\ fbkReader.body.item = "none"
          /\ fbkStamp.age = MaxFeedbackAge + 2 /\ fbkReader.stamp.age = MaxFeedbackAge + 2

\* What the HAL knows, and that it cannot be armed while its region is made.
HalInv ==
    /\ mapped = "no" <=> phase = "off"
    /\ opened <=> phase \notin Quiet
    /\ haveFeedback => opened
    /\ armed => haveFeedback /\ ~safeEntered
    /\ mapped = "named" => region # "none"
    /\ mapped = "named" /\ phase # "mapping" => region \in {"header", "ready"}
    /\ mapped = "named" /\ region # "ready" => ~haveFeedback
    /\ EnableTellsArmed

\* The EtherCAT master in the hands of the L0 process.
BusInv ==
    /\ busFaults \in Nat
    /\ l0 \in Cycling => active
    /\ l0 \in {"input", "reading"} => told = Slaves
    /\ IdleMasterIsFree
    /\ CyclesAreClosed

\* A stamp and a body of one publication, or of an order nobody drives.
Whole(s, b) == s.ago = b.ago \/ s.age = Lease + 1 \/ b.item.kind = "none"

\* A reader with the stamp s will find a body that fits.  The writer can be at
\* work although the sequence number is even, when the owner has zeroed the
\* region under its hands; what it finds there then are zeros.
WillFit(s) ==
    /\ cmdWriter.step \in {"idle", "end"} => Whole(s, cmdBody)
    /\ cmdWriter.step = "stamp" => s.age = Lease + 1 /\ cmdBody.item.kind = "none"
    /\ cmdWriter.step = "body" => s.age = Lease + 1 \/ (s.ago = 0 /\ cmdBody.item.kind = "none")

\* The sequence lock of the commands, as long as no writer died in it.
CommandInv ==
    "command" \notin torn =>
        /\ cmdWriter.step = "idle" => ~cmdOdd
        /\ cmdWriter.step # "idle" => ~cmdWriter.odd
        /\ cmdWriter.step = "body" /\ cmdOdd => cmdStamp.ago = 0
        /\ cmdWriter.step = "end" => Whole(cmdStamp, cmdBody)
        /\ ~cmdOdd => WillFit(cmdStamp)
        /\ cmdReader.step \in {"stamp", "body", "after"} /\ ~cmdReader.moved => ~cmdOdd
        /\ cmdReader.step = "body" /\ ~cmdReader.moved => WillFit(cmdReader.stamp)
        /\ cmdReader.step = "after" /\ ~cmdReader.moved => Whole(cmdReader.stamp, cmdReader.body)
        /\ cmdReader.step = "done" => Whole(cmdReader.stamp, cmdReader.body)

\* The same of the feedback, whose region is not zeroed while it is written.
FeedbackInv ==
    "feedback" \notin torn =>
        /\ fbkOdd <=> fbkWriter.step # "idle"
        /\ fbkWriter.step # "idle" => ~fbkWriter.odd
        /\ fbkWriter.step = "body" => fbkStamp.ago = 0
        /\ fbkWriter.step \in {"idle", "end"} => fbkStamp.ago = fbkBody.ago
        /\ fbkReader.step \in {"stamp", "body", "after"} /\ ~fbkReader.moved => ~fbkOdd
        /\ fbkReader.step = "body" /\ ~fbkReader.moved => fbkReader.stamp.ago = fbkStamp.ago
        /\ fbkReader.step = "after" /\ ~fbkReader.moved => fbkReader.stamp.ago = fbkReader.body.ago
        /\ fbkReader.step = "done" => fbkReader.stamp.ago = fbkReader.body.ago

\* No copy of a feedback stamp is younger than the region's own.
AgeInv ==
    /\ fbkStamp.age <= fbkReader.stamp.age
    /\ fbkWriter.step = "stamp" =>
          fbkWriter.age <= fbkStamp.age /\ fbkWriter.age <= fbkReader.stamp.age

\* The order that is being written.
Ordering(kind) == cmdWriter.step \in {"stamp", "body"} /\ cmdWriter.item.kind = kind

\* A goal in the region means that its run is on, or that a hold frame is about to
\* replace it, so that no goal is left when the next run begins.
GoalInv ==
    /\ ~cmdWriter.item.before
    /\ cmdReader.step = "idle" => cmdReader.body.item = NoOrder
    /\ deaths = 0 =>
          /\ ~cmdBody.item.before
          /\ cmdReader.body.item.before => sawEnable # "on"
          /\ phase \in Quiet => safeEntered /\ cmdWriter.step = "idle"
          /\ Ordering("goal") => mapped = "named" /\ ~safeEntered
          /\ cmdBody.item.kind = "goal" => mapped = "named" /\ (~safeEntered \/ Ordering("hold"))

IInv ==
    /\ TypeOK /\ TriesInv /\ RegionInv /\ HalInv /\ BusInv
    /\ CommandInv /\ FeedbackInv /\ AgeInv /\ GoalInv

-----------------------------------------------------------------------------
(* What a step does to each direction of the region.                        *)

CommandKept == UNCHANGED <<cmdVars, torn>>
CommandRunBegins == RunBegins /\ UNCHANGED torn
CommandBegun ==
    \E kind \in {"goal", "hold"} :
        Command!PublishBegin(0, [kind |-> kind, before |-> FALSE]) /\ UNCHANGED torn
CommandWritten == Command!Publishing(NoOrder) /\ UNCHANGED torn
CommandWriterDies ==
    /\ torn' = IF cmdWriter.step # "idle" THEN torn \cup {"command"} ELSE torn
    /\ cmdWriter' = Command!NoWriter(NoOrder)
    /\ UNCHANGED <<cmdOdd, cmdStamp, cmdBody, cmdReader>>
CommandZeroed ==
    /\ Command!Zeroed(NoOrder) /\ cmdReader' = Command!Moved
    /\ UNCHANGED <<cmdWriter, torn>>
CommandAsked == Command!ReadBegin /\ UNCHANGED torn
CommandRead == Command!Reading(NoOrder) /\ UNCHANGED torn
CommandDropped ==
    /\ cmdReader' = Command!NoCopy(NoOrder)
    /\ "command" \in torn' <=> "command" \in torn
    /\ UNCHANGED <<cmdOdd, cmdStamp, cmdBody, cmdWriter>>
CommandAges == Command!GrowOlder /\ UNCHANGED torn

CommandStep ==
    \/ CommandKept \/ CommandRunBegins \/ CommandBegun \/ CommandWritten \/ CommandWriterDies
    \/ CommandZeroed \/ CommandAsked \/ CommandRead \/ CommandDropped \/ CommandAges \/ Unlink

FeedbackKept == UNCHANGED <<fbkVars, torn>>
FeedbackBegun == l0 = "reading" /\ Feedback!PublishBegin(0, "sample") /\ UNCHANGED torn
FeedbackWritten == l0 = "publishing" /\ Feedback!Publishing("none") /\ UNCHANGED torn
FeedbackWriterDies ==
    /\ torn' = IF fbkWriter.step # "idle" THEN torn \cup {"feedback"} ELSE torn
    /\ fbkWriter' = Feedback!NoWriter("none")
    /\ UNCHANGED <<fbkOdd, fbkStamp, fbkBody, fbkReader>>
FeedbackZeroed ==
    /\ l0 = "zero"
    /\ Feedback!Zeroed("none") /\ fbkReader' = Feedback!Moved
    /\ UNCHANGED <<fbkWriter, torn>>
FeedbackAsked == Feedback!ReadBegin /\ UNCHANGED torn
FeedbackRead == Feedback!Reading("none") /\ UNCHANGED torn
FeedbackDropped ==
    /\ fbkReader' = Feedback!NoCopy("none")
    /\ "feedback" \in torn' <=> "feedback" \in torn
    /\ UNCHANGED <<fbkOdd, fbkStamp, fbkBody, fbkWriter>>
FeedbackAges == Feedback!GrowOlder /\ UNCHANGED torn

FeedbackStep ==
    \/ FeedbackKept \/ FeedbackBegun \/ FeedbackWritten \/ FeedbackWriterDies
    \/ FeedbackZeroed \/ FeedbackAsked \/ FeedbackRead \/ FeedbackDropped \/ FeedbackAges \/ Unlink

\* The steps that take the name from the region.
LEMMA GoneSteps ==
  ASSUME \/ L0Close \/ RemoveName
         \/ L0Activate /\ l0' = "down"
  PROVE  Unlink
  BY DEF L0Close, RemoveName, L0Activate, L0Gone

LEMMA CommandSteps == [Next]_vars => CommandStep
  <1> SUFFICES ASSUME [Next]_vars PROVE CommandStep
    OBVIOUS
  <1> USE DEF CommandStep, cmdVars, regionVars
  <1>1. CASE UNCHANGED vars
    BY <1>1 DEF vars, CommandKept
  <1>2. CASE Tick
    BY <1>2 DEF Tick, CommandAges
  <1>3. CASE Attach \/ AttachMap \/ Detach \/ CycleBegin \/ ReadStep \/ CycleRead \/ CycleIdle
             \/ Arm \/ Leave \/ HalClose
    BY <1>3 DEF Attach, AttachMap, Detach, CycleBegin, ReadStep, CycleRead, CycleIdle, Arm, Leave,
                HalClose, CommandKept
  <1>4. CASE OpenSafe
    BY <1>4 DEF OpenSafe, CommandRunBegins
  <1>5. CASE Write
    BY <1>5 DEF Write, Publish, CommandBegun, CommandKept
  <1>6. CASE EmergencyStop
    BY <1>6 DEF EmergencyStop, Publish, CommandBegun, CommandKept
  <1>7. CASE PublishStep
    BY <1>7 DEF PublishStep, CommandWritten
  <1>8. CASE ControllerDies
    BY <1>8 DEF ControllerDies, CommandWriterDies
  <1>9. CASE L0Create \/ L0CreateFails \/ L0Size \/ L0Header \/ L0Receive \/ L0PublishStep
             \/ L0Send
    BY <1>9 DEF L0Create, L0CreateFails, L0Size, L0Header, L0Receive, L0PublishStep, L0Send,
                CommandKept
  <1>10. CASE L0Activate
    BY <1>10 DEF L0Activate, L0Gone, CommandKept
  <1>11. CASE L0Zero
    BY <1>11 DEF L0Zero, ZeroRegion, CommandZeroed
  <1>12. CASE L0Input
    BY <1>12 DEF L0Input, CommandAsked
  <1>13. CASE L0ReadStep
    BY <1>13 DEF L0ReadStep, CommandRead
  <1>14. CASE L0Output
    BY <1>14 DEF L0Output, CommandDropped
  <1>15. CASE L0Dies
    BY <1>15 DEF L0Dies, CommandDropped
  <1>16. CASE L0Close \/ RemoveName
    BY <1>16, GoneSteps
  <1> QED
    BY <1>1, <1>2, <1>3, <1>4, <1>5, <1>6, <1>7, <1>8, <1>9, <1>10, <1>11, <1>12, <1>13, <1>14,
       <1>15, <1>16 DEF Next, Controller, L0

LEMMA FeedbackSteps == [Next]_vars => FeedbackStep
  <1> SUFFICES ASSUME [Next]_vars PROVE FeedbackStep
    OBVIOUS
  <1> USE DEF FeedbackStep, fbkVars, regionVars
  <1>1. CASE UNCHANGED vars
    BY <1>1 DEF vars, FeedbackKept
  <1>2. CASE Tick
    BY <1>2 DEF Tick, FeedbackAges
  <1>3. CASE Attach \/ AttachMap \/ Detach \/ OpenSafe \/ CycleIdle \/ Arm \/ Write \/ EmergencyStop
             \/ PublishStep \/ Leave \/ HalClose
    BY <1>3 DEF Attach, AttachMap, Detach, OpenSafe, CycleIdle, Arm, Write, EmergencyStop,
                PublishStep, Leave, HalClose, FeedbackKept
  <1>4. CASE CycleBegin
    BY <1>4 DEF CycleBegin, FeedbackAsked, FeedbackKept
  <1>5. CASE ReadStep
    BY <1>5 DEF ReadStep, FeedbackRead
  <1>6. CASE CycleRead
    BY <1>6 DEF CycleRead, FeedbackDropped
  <1>7. CASE ControllerDies
    BY <1>7 DEF ControllerDies, FeedbackDropped
  <1>8. CASE L0Create \/ L0CreateFails \/ L0Size \/ L0Header \/ L0Receive \/ L0Input
             \/ L0ReadStep \/ L0Send
    BY <1>8 DEF L0Create, L0CreateFails, L0Size, L0Header, L0Receive, L0Input, L0ReadStep, L0Send,
                FeedbackKept
  <1>9. CASE L0Activate
    BY <1>9 DEF L0Activate, L0Gone, FeedbackKept
  <1>10. CASE L0Zero
    BY <1>10 DEF L0Zero, ZeroRegion, FeedbackZeroed
  <1>11. CASE L0Output
    BY <1>11 DEF L0Output, FeedbackBegun
  <1>12. CASE L0PublishStep
    BY <1>12 DEF L0PublishStep, FeedbackWritten
  <1>13. CASE L0Dies
    BY <1>13 DEF L0Dies, FeedbackWriterDies
  <1>14. CASE L0Close \/ RemoveName
    BY <1>14, GoneSteps
  <1> QED
    BY <1>1, <1>2, <1>3, <1>4, <1>5, <1>6, <1>7, <1>8, <1>9, <1>10, <1>11, <1>12, <1>13, <1>14
       DEF Next, Controller, L0

-----------------------------------------------------------------------------
(* Types.                                                                   *)

LEMMA ConstantTypes ==
  /\ Attempts \in Nat \ {0} /\ MaxRegions \in Nat /\ MaxDeaths \in Nat
  /\ MaxFeedbackAge \in Nat /\ Lease \in Nat
  BY SharedMotorAssumption

LEMMA OrderTypes ==
  /\ NoOrder \in Orders
  /\ \A kind \in {"goal", "hold"} : [kind |-> kind, before |-> FALSE] \in Orders
  BY DEF NoOrder, Orders, Kinds

\* What a new region, a process that starts and a call that has ended leave.
LEMMA CommandValues ==
  /\ Command!NoCopy(NoOrder) \in Command!Readers
  /\ Command!NoWriter(NoOrder) \in Command!Writers
  /\ [ago |-> 2, age |-> Lease + 1] \in Command!Stamps
  /\ [ago |-> 2, item |-> NoOrder] \in Command!TaggedBodies
  BY ConstantTypes, OrderTypes
     DEF Command!NoCopy, Command!NoWriter, Command!Readers, Command!Writers, Command!Stamps,
         Command!TaggedBodies, Command!Agos

LEMMA FeedbackValues ==
  /\ Feedback!NoCopy("none") \in Feedback!Readers
  /\ Feedback!NoWriter("none") \in Feedback!Writers
  /\ [ago |-> 2, age |-> MaxFeedbackAge + 2] \in Feedback!Stamps
  /\ [ago |-> 2, item |-> "none"] \in Feedback!TaggedBodies
  BY ConstantTypes
     DEF Feedback!NoCopy, Feedback!NoWriter, Feedback!Readers, Feedback!Writers, Feedback!Stamps,
         Feedback!TaggedBodies, Feedback!Agos

LEMMA CommandBeforeTypes ==
  /\ \A w \in Command!Stamps : Command!Before(w) \in Command!Stamps
  /\ \A w \in Command!TaggedBodies : Command!Before(w) \in Command!TaggedBodies
  BY DEF Command!Before, Command!Stamps, Command!TaggedBodies, Command!Agos

LEMMA CommandTypesStep ==
  ASSUME CommandTypes, TriesInv, CommandStep
  PROVE  CommandTypes' /\ (cmdReader.step \in Copying => cmdReader.tries < Attempts)'
  <1> USE ConstantTypes DEF CommandTypes, TriesInv, Copying
  <1>1. CASE CommandKept
    BY <1>1 DEF CommandKept, cmdVars
  <1>2. CASE CommandRunBegins
    BY <1>2 DEF CommandRunBegins, RunBegins, Earlier, Command!TaggedBodies, Command!Readers, Orders
  <1>3. CASE CommandBegun
    <2>1. PICK order \in Orders : Command!PublishBegin(0, order)
      BY <1>3, OrderTypes DEF CommandBegun
    <2>2. cmdWriter' \in Command!Writers /\ cmdOdd' \in BOOLEAN
      BY <2>1 DEF Command!PublishBegin, Command!Writers
    <2>3. cmdStamp' \in Command!Stamps /\ cmdBody' \in Command!TaggedBodies
      BY <2>1, CommandBeforeTypes DEF Command!PublishBegin
    <2>4. /\ Command!Before(cmdReader.stamp) \in Command!Stamps
          /\ Command!Before(cmdReader.body) \in Command!TaggedBodies
      BY CommandBeforeTypes DEF Command!Readers
    <2>5. /\ cmdReader' \in Command!Readers /\ cmdReader'.step = cmdReader.step
          /\ cmdReader'.tries = cmdReader.tries
      BY <2>1, <2>4 DEF Command!PublishBegin, Command!Moved, Command!Readers
    <2> QED
      BY <2>2, <2>3, <2>5
  <1>4. CASE CommandWritten
    <2>1. CASE Command!PublishStamp
      BY <2>1 DEF Command!PublishStamp, Command!Stamps, Command!Writers, Command!Agos
    <2>2. CASE Command!PublishBody
      BY <2>2 DEF Command!PublishBody, Command!TaggedBodies, Command!Writers, Command!Agos
    <2>3. CASE Command!PublishEnd(NoOrder)
      BY <2>3, CommandValues DEF Command!PublishEnd, Command!Moved, Command!Writers, Command!Readers
    <2> QED
      BY <1>4, <2>1, <2>2, <2>3 DEF CommandWritten, Command!Publishing
  <1>5. CASE CommandWriterDies
    BY <1>5, CommandValues DEF CommandWriterDies
  <1>6. CASE CommandZeroed
    BY <1>6, CommandValues DEF CommandZeroed, Command!Zeroed, Command!Moved, Command!Readers
  <1>7. CASE CommandAsked
    <2>0. ASSUME NEW r \in Command!Readers, NEW q, q = [r EXCEPT !.step = "before", !.tries = 0]
          PROVE  q \in Command!Readers /\ q.tries = 0
      <3>1. 0 \in 0 .. Attempts
        OBVIOUS
      <3> QED
        BY <2>0, <3>1 DEF Command!Readers
    <2>1. cmdReader' \in Command!Readers /\ cmdReader'.tries = 0
      BY <1>7, <2>0 DEF CommandAsked, Command!ReadBegin
    <2> QED
      BY <1>7, <2>1 DEF CommandAsked, Command!ReadBegin
  <1>8. CASE CommandRead
    <2>1. cmdReader.step \in Copying =>
            /\ Command!NextTry(NoOrder) \in Command!Readers
            /\ Command!NextTry(NoOrder).step \in Copying =>
                  Command!NextTry(NoOrder).tries < Attempts
      <3>1. SUFFICES ASSUME cmdReader.tries \in 0 .. Attempts, cmdReader.tries < Attempts
                     PROVE  /\ Command!NextTry(NoOrder) \in Command!Readers
                            /\ Command!NextTry(NoOrder).step \in Copying =>
                                  Command!NextTry(NoOrder).tries < Attempts
        BY DEF Command!Readers
      <3>2. cmdReader.tries + 1 \in 0 .. Attempts
        BY <3>1
      <3>3. /\ Command!NextTry(NoOrder).tries = cmdReader.tries + 1
            /\ Command!NextTry(NoOrder).step =
                  IF cmdReader.tries + 1 < Attempts THEN "before" ELSE "failed"
        BY DEF Command!NextTry, Command!NoCopy
      <3>4. Command!NextTry(NoOrder) \in Command!Readers
        BY <3>2, CommandValues DEF Command!NextTry, Command!Readers
      <3> QED
        BY <3>3, <3>4
    <2>2. CASE Command!ReadBefore(NoOrder)
      BY <2>1, <2>2 DEF Command!ReadBefore, Command!Readers
    <2>3. CASE Command!ReadStamp
      BY <2>3 DEF Command!ReadStamp, Command!Readers
    <2>4. CASE Command!ReadBody
      BY <2>4 DEF Command!ReadBody, Command!Readers
    <2>5. CASE Command!ReadAfter(NoOrder)
      BY <2>1, <2>5 DEF Command!ReadAfter, Command!Readers
    <2> QED
      BY <1>8, <2>2, <2>3, <2>4, <2>5 DEF CommandRead, Command!Reading
  <1>9. CASE CommandDropped
    BY <1>9, CommandValues DEF CommandDropped, Command!NoCopy
  <1>10. CASE CommandAges
    BY <1>10 DEF CommandAges, Command!GrowOlder, Command!Older, Command!Stamps, Command!Writers,
                 Command!Readers
  <1>11. CASE Unlink
    BY <1>11, CommandValues DEF Unlink, Command!Zeroed, Command!NoCopy
  <1> QED
    BY <1>1, <1>2, <1>3, <1>4, <1>5, <1>6, <1>7, <1>8, <1>9, <1>10, <1>11 DEF CommandStep

LEMMA FeedbackBeforeTypes ==
  /\ \A w \in Feedback!Stamps : Feedback!Before(w) \in Feedback!Stamps
  /\ \A w \in Feedback!TaggedBodies : Feedback!Before(w) \in Feedback!TaggedBodies
  BY DEF Feedback!Before, Feedback!Stamps, Feedback!TaggedBodies, Feedback!Agos

LEMMA FeedbackTypesStep ==
  ASSUME FeedbackTypes, TriesInv, FeedbackStep
  PROVE  FeedbackTypes' /\ (fbkReader.step \in Copying => fbkReader.tries < Attempts)'
  <1> USE ConstantTypes DEF FeedbackTypes, TriesInv, Copying
  <1>1. CASE FeedbackKept
    BY <1>1 DEF FeedbackKept, fbkVars
  <1>2. CASE FeedbackBegun
    <2>1. Feedback!PublishBegin(0, "sample")
      BY <1>2 DEF FeedbackBegun
    <2>2. fbkWriter' \in Feedback!Writers /\ fbkOdd' \in BOOLEAN
      BY <2>1 DEF Feedback!PublishBegin, Feedback!Writers
    <2>3. fbkStamp' \in Feedback!Stamps /\ fbkBody' \in Feedback!TaggedBodies
      BY <2>1, FeedbackBeforeTypes DEF Feedback!PublishBegin
    <2>4. /\ Feedback!Before(fbkReader.stamp) \in Feedback!Stamps
          /\ Feedback!Before(fbkReader.body) \in Feedback!TaggedBodies
      BY FeedbackBeforeTypes DEF Feedback!Readers
    <2>5. /\ fbkReader' \in Feedback!Readers /\ fbkReader'.step = fbkReader.step
          /\ fbkReader'.tries = fbkReader.tries
      BY <2>1, <2>4 DEF Feedback!PublishBegin, Feedback!Moved, Feedback!Readers
    <2> QED
      BY <2>2, <2>3, <2>5
  <1>3. CASE FeedbackWritten
    <2>1. CASE Feedback!PublishStamp
      BY <2>1 DEF Feedback!PublishStamp, Feedback!Stamps, Feedback!Writers, Feedback!Agos
    <2>2. CASE Feedback!PublishBody
      BY <2>2 DEF Feedback!PublishBody, Feedback!TaggedBodies, Feedback!Writers, Feedback!Agos
    <2>3. CASE Feedback!PublishEnd("none")
      BY <2>3, FeedbackValues
         DEF Feedback!PublishEnd, Feedback!Moved, Feedback!Writers, Feedback!Readers
    <2> QED
      BY <1>3, <2>1, <2>2, <2>3 DEF FeedbackWritten, Feedback!Publishing
  <1>4. CASE FeedbackWriterDies
    BY <1>4, FeedbackValues DEF FeedbackWriterDies
  <1>5. CASE FeedbackZeroed
    BY <1>5, FeedbackValues DEF FeedbackZeroed, Feedback!Zeroed, Feedback!Moved, Feedback!Readers
  <1>6. CASE FeedbackAsked
    <2>0. ASSUME NEW r \in Feedback!Readers, NEW q, q = [r EXCEPT !.step = "before", !.tries = 0]
          PROVE  q \in Feedback!Readers /\ q.tries = 0
      <3>1. 0 \in 0 .. Attempts
        OBVIOUS
      <3> QED
        BY <2>0, <3>1 DEF Feedback!Readers
    <2>1. fbkReader' \in Feedback!Readers /\ fbkReader'.tries = 0
      BY <1>6, <2>0 DEF FeedbackAsked, Feedback!ReadBegin
    <2> QED
      BY <1>6, <2>1 DEF FeedbackAsked, Feedback!ReadBegin
  <1>7. CASE FeedbackRead
    <2>1. fbkReader.step \in Copying =>
            /\ Feedback!NextTry("none") \in Feedback!Readers
            /\ Feedback!NextTry("none").step \in Copying =>
                  Feedback!NextTry("none").tries < Attempts
      <3>1. SUFFICES ASSUME fbkReader.tries \in 0 .. Attempts, fbkReader.tries < Attempts
                     PROVE  /\ Feedback!NextTry("none") \in Feedback!Readers
                            /\ Feedback!NextTry("none").step \in Copying =>
                                  Feedback!NextTry("none").tries < Attempts
        BY DEF Feedback!Readers
      <3>2. fbkReader.tries + 1 \in 0 .. Attempts
        BY <3>1
      <3>3. /\ Feedback!NextTry("none").tries = fbkReader.tries + 1
            /\ Feedback!NextTry("none").step =
                  IF fbkReader.tries + 1 < Attempts THEN "before" ELSE "failed"
        BY DEF Feedback!NextTry, Feedback!NoCopy
      <3>4. Feedback!NextTry("none") \in Feedback!Readers
        BY <3>2, FeedbackValues DEF Feedback!NextTry, Feedback!Readers
      <3> QED
        BY <3>3, <3>4
    <2>2. CASE Feedback!ReadBefore("none")
      BY <2>1, <2>2 DEF Feedback!ReadBefore, Feedback!Readers
    <2>3. CASE Feedback!ReadStamp
      BY <2>3 DEF Feedback!ReadStamp, Feedback!Readers
    <2>4. CASE Feedback!ReadBody
      BY <2>4 DEF Feedback!ReadBody, Feedback!Readers
    <2>5. CASE Feedback!ReadAfter("none")
      BY <2>1, <2>5 DEF Feedback!ReadAfter, Feedback!Readers
    <2> QED
      BY <1>7, <2>2, <2>3, <2>4, <2>5 DEF FeedbackRead, Feedback!Reading
  <1>8. CASE FeedbackDropped
    BY <1>8, FeedbackValues DEF FeedbackDropped, Feedback!NoCopy
  <1>9. CASE FeedbackAges
    BY <1>9 DEF FeedbackAges, Feedback!GrowOlder, Feedback!Older, Feedback!Stamps, Feedback!Writers,
                Feedback!Readers
  <1>10. CASE Unlink
    BY <1>10, FeedbackValues DEF Unlink, Feedback!Zeroed, Feedback!NoCopy
  <1> QED
    BY <1>1, <1>2, <1>3, <1>4, <1>5, <1>6, <1>7, <1>8, <1>9, <1>10 DEF FeedbackStep

-----------------------------------------------------------------------------
(* The sequence lock.                                                       *)

\* What a publication does to the tags of a pair of words, it does to both.
LEMMA BeforeKeepsWhole ==
  ASSUME NEW s \in Command!Stamps, NEW b \in Command!TaggedBodies, Whole(s, b)
  PROVE  Whole(Command!Before(s), Command!Before(b))
  BY DEF Whole, Command!Before, Command!Stamps, Command!TaggedBodies, Command!Agos

LEMMA CommandInvStep ==
  ASSUME CommandTypes, CommandInv, CommandStep
  PROVE  CommandInv'
  <1> SUFFICES ASSUME "command" \notin torn'
               PROVE  CommandInv'
    BY DEF CommandInv
  <1> USE DEF CommandTypes
  <1>1. CASE CommandKept
    BY <1>1 DEF CommandKept, cmdVars, CommandInv, WillFit
  <1>2. CASE CommandRunBegins
    <2>1. /\ cmdBody'.ago = cmdBody.ago /\ cmdBody'.item.kind = cmdBody.item.kind
          /\ cmdReader'.step = cmdReader.step /\ cmdReader'.moved = cmdReader.moved
          /\ cmdReader'.stamp = cmdReader.stamp
          /\ cmdReader'.body.ago = cmdReader.body.ago
          /\ cmdReader'.body.item.kind = cmdReader.body.item.kind
      BY <1>2 DEF CommandRunBegins, RunBegins, Earlier, Command!TaggedBodies, Command!Readers, Orders
    <2>2. UNCHANGED <<cmdOdd, cmdStamp, cmdWriter, torn>>
      BY <1>2 DEF CommandRunBegins, RunBegins
    <2> QED
      BY <2>1, <2>2 DEF CommandInv, WillFit, Whole
  <1>3. CASE CommandBegun
    <2>0. PICK order : Command!PublishBegin(0, order) /\ UNCHANGED torn
      BY <1>3 DEF CommandBegun
    <2>1. /\ cmdWriter.step = "idle" /\ ~cmdOdd /\ cmdOdd'
          /\ cmdWriter'.step = "stamp" /\ ~cmdWriter'.odd
      BY <2>0 DEF Command!PublishBegin, CommandInv
    <2>2. /\ cmdReader'.step = cmdReader.step
          /\ cmdReader'.step \in {"stamp", "body", "after"} => cmdReader'.moved
          /\ cmdReader'.stamp = Command!Before(cmdReader.stamp)
          /\ cmdReader'.body = Command!Before(cmdReader.body)
      BY <2>0 DEF Command!PublishBegin, Command!Moved, Command!Readers
    <2>3. cmdReader.step = "done" => Whole(cmdReader'.stamp, cmdReader'.body)
      BY <2>0, <2>2, BeforeKeepsWhole DEF CommandInv, Command!Readers
    <2> QED
      BY <2>1, <2>2, <2>3 DEF CommandInv
  <1>4. CASE CommandWritten
    <2>1. CASE Command!PublishStamp
      <3>1. /\ cmdWriter.step = "stamp" /\ cmdWriter'.step = "body" /\ cmdStamp'.ago = 0
            /\ cmdWriter'.odd = cmdWriter.odd
            /\ UNCHANGED <<cmdOdd, cmdBody, cmdReader, torn>>
        BY <1>4, <2>1 DEF CommandWritten, Command!PublishStamp, Command!Writers
      <3> QED
        BY <3>1 DEF CommandInv, WillFit, Whole
    <2>2. CASE Command!PublishBody
      <3>1. /\ cmdWriter.step = "body" /\ cmdWriter'.step = "end" /\ cmdBody'.ago = 0
            /\ cmdWriter'.odd = cmdWriter.odd
            /\ UNCHANGED <<cmdOdd, cmdStamp, cmdReader, torn>>
        BY <1>4, <2>2 DEF CommandWritten, Command!PublishBody, Command!Writers
      <3> QED
        BY <3>1 DEF CommandInv, WillFit, Whole
    <2>3. CASE Command!PublishEnd(NoOrder)
      <3>1. /\ cmdWriter.step = "end" /\ cmdWriter'.step = "idle" /\ cmdOdd' = cmdWriter.odd
            /\ UNCHANGED <<cmdStamp, cmdBody, torn>>
            /\ cmdReader'.step = cmdReader.step
            /\ cmdReader'.step \in {"stamp", "body", "after"} => cmdReader'.moved
            /\ cmdReader'.stamp = cmdReader.stamp /\ cmdReader'.body = cmdReader.body
        BY <1>4, <2>3
           DEF CommandWritten, Command!PublishEnd, Command!NoWriter, Command!Moved, Command!Readers
      <3> QED
        BY <3>1 DEF CommandInv, WillFit, Whole
    <2> QED
      BY <1>4, <2>1, <2>2, <2>3 DEF CommandWritten, Command!Publishing
  <1>5. CASE CommandWriterDies
    <2>1. cmdWriter.step = "idle" /\ cmdWriter'.step = "idle" /\ "command" \notin torn
      BY <1>5 DEF CommandWriterDies, Command!NoWriter
    <2> QED
      BY <1>5, <2>1 DEF CommandWriterDies, CommandInv, WillFit
  <1>6. CASE CommandZeroed
    <2>1. /\ ~cmdOdd' /\ cmdStamp'.age = Lease + 1 /\ cmdStamp'.ago = 2
          /\ cmdBody'.ago = 2 /\ cmdBody'.item.kind = "none"
          /\ UNCHANGED <<cmdWriter, torn>>
          /\ cmdReader'.step = cmdReader.step
          /\ cmdReader'.step \in {"stamp", "body", "after"} => cmdReader'.moved
          /\ cmdReader'.stamp = cmdReader.stamp /\ cmdReader'.body = cmdReader.body
      BY <1>6 DEF CommandZeroed, Command!Zeroed, Command!Moved, Command!Readers, NoOrder
    <2> QED
      BY <2>1 DEF CommandInv, WillFit, Whole
  <1>7. CASE CommandAsked
    <2>1. cmdReader'.step = "before"
      BY <1>7 DEF CommandAsked, Command!ReadBegin, Command!Readers
    <2> QED
      BY <1>7, <2>1 DEF CommandAsked, Command!ReadBegin, CommandInv, WillFit
  <1>8. CASE CommandRead
    <2>0. UNCHANGED <<cmdOdd, cmdStamp, cmdBody, cmdWriter, torn>>
      BY <1>8 DEF CommandRead, Command!Reading, Command!ReadBefore, Command!ReadStamp,
                  Command!ReadBody, Command!ReadAfter
    <2>1. Command!NextTry(NoOrder).step \in {"before", "failed"}
      BY DEF Command!NextTry, Command!NoCopy
    <2>2. CASE cmdReader'.step \in {"before", "failed"}
      BY <2>0, <2>2 DEF CommandInv, WillFit
    <2>3. CASE ~cmdOdd /\ cmdReader'.step = "stamp"
      BY <2>0, <2>3 DEF CommandInv, WillFit
    <2>4. CASE Command!ReadStamp
      <3>1. /\ cmdReader.step = "stamp" /\ cmdReader'.step = "body"
            /\ cmdReader'.moved = cmdReader.moved /\ cmdReader'.stamp = cmdStamp
        BY <2>4 DEF Command!ReadStamp, Command!Readers
      <3> QED
        BY <2>0, <3>1 DEF CommandInv, WillFit
    <2>5. CASE Command!ReadBody
      <3>1. /\ cmdReader.step = "body" /\ cmdReader'.step = "after"
            /\ cmdReader'.moved = cmdReader.moved /\ cmdReader'.stamp = cmdReader.stamp
            /\ cmdReader'.body = cmdBody
        BY <2>5 DEF Command!ReadBody, Command!Readers
      <3>2. ~cmdReader.moved => Whole(cmdReader.stamp, cmdBody)
        BY <2>0, <3>1 DEF CommandInv, WillFit, Whole, Command!Writers
      <3> QED
        BY <2>0, <3>1, <3>2 DEF CommandInv, WillFit
    <2>6. CASE /\ cmdReader.step = "after" /\ ~cmdReader.moved
               /\ cmdReader' = [cmdReader EXCEPT !.step = "done"]
      <3>1. /\ cmdReader'.step = "done" /\ cmdReader'.stamp = cmdReader.stamp
            /\ cmdReader'.body = cmdReader.body
        BY <2>6 DEF Command!Readers
      <3> QED
        BY <2>0, <2>6, <3>1 DEF CommandInv, WillFit
    <2>7. CASE Command!ReadBefore(NoOrder)
      <3>1. CASE cmdOdd
        BY <2>1, <2>2, <2>7, <3>1 DEF Command!ReadBefore
      <3>2. CASE ~cmdOdd
        BY <2>3, <2>7, <3>2 DEF Command!ReadBefore, Command!Readers
      <3> QED
        BY <3>1, <3>2
    <2>8. CASE Command!ReadAfter(NoOrder)
      <3>1. CASE cmdReader.moved
        BY <2>1, <2>2, <2>8, <3>1 DEF Command!ReadAfter
      <3>2. CASE ~cmdReader.moved
        BY <2>6, <2>8, <3>2 DEF Command!ReadAfter
      <3> QED
        BY <3>1, <3>2
    <2> QED
      BY <1>8, <2>4, <2>5, <2>7, <2>8 DEF CommandRead, Command!Reading
  <1>9. CASE CommandDropped
    <2>1. cmdReader'.step = "idle"
      BY <1>9 DEF CommandDropped, Command!NoCopy
    <2> QED
      BY <1>9, <2>1 DEF CommandDropped, CommandInv, WillFit
  <1>10. CASE CommandAges
    <2>1. /\ cmdStamp'.ago = cmdStamp.ago /\ (cmdStamp.age = Lease + 1 => cmdStamp'.age = Lease + 1)
          /\ cmdWriter'.step = cmdWriter.step /\ cmdWriter'.odd = cmdWriter.odd
          /\ cmdReader'.step = cmdReader.step /\ cmdReader'.moved = cmdReader.moved
          /\ cmdReader'.stamp.ago = cmdReader.stamp.ago
          /\ cmdReader.stamp.age = Lease + 1 => cmdReader'.stamp.age = Lease + 1
          /\ cmdReader'.body = cmdReader.body
      BY <1>10, ConstantTypes
         DEF CommandAges, Command!GrowOlder, Command!Older, Command!Stamps, Command!Writers,
             Command!Readers
    <2>2. UNCHANGED <<cmdOdd, cmdBody, torn>>
      BY <1>10 DEF CommandAges, Command!GrowOlder
    <2> QED
      BY <2>1, <2>2 DEF CommandInv, WillFit, Whole
  <1>11. CASE Unlink
    <2>1. /\ ~cmdOdd' /\ cmdStamp'.ago = cmdBody'.ago /\ cmdWriter'.step = "idle"
          /\ cmdReader'.step = "idle"
      BY <1>11 DEF Unlink, Command!Zeroed, Command!NoCopy, Command!NoWriter
    <2> QED
      BY <2>1 DEF CommandInv, WillFit, Whole
  <1> QED
    BY <1>1, <1>2, <1>3, <1>4, <1>5, <1>6, <1>7, <1>8, <1>9, <1>10, <1>11 DEF CommandStep

LEMMA FeedbackInvStep ==
  ASSUME FeedbackTypes, RegionInv, FeedbackInv, FeedbackStep
  PROVE  FeedbackInv'
  <1> SUFFICES ASSUME "feedback" \notin torn'
               PROVE  FeedbackInv'
    BY DEF FeedbackInv
  <1> USE DEF FeedbackTypes
  <1>1. CASE FeedbackKept
    BY <1>1 DEF FeedbackKept, fbkVars, FeedbackInv
  <1>2. CASE FeedbackBegun
    <2>1. /\ fbkWriter.step = "idle" /\ ~fbkOdd /\ fbkOdd' /\ UNCHANGED torn
          /\ fbkWriter'.step = "stamp" /\ ~fbkWriter'.odd
      BY <1>2 DEF FeedbackBegun, Feedback!PublishBegin, FeedbackInv
    <2>2. /\ fbkReader'.step = fbkReader.step
          /\ fbkReader'.step \in {"stamp", "body", "after"} => fbkReader'.moved
          /\ fbkReader'.stamp = Feedback!Before(fbkReader.stamp)
          /\ fbkReader'.body = Feedback!Before(fbkReader.body)
      BY <1>2 DEF FeedbackBegun, Feedback!PublishBegin, Feedback!Moved, Feedback!Readers
    <2>3. fbkReader.stamp.ago = fbkReader.body.ago => fbkReader'.stamp.ago = fbkReader'.body.ago
      BY <2>2 DEF Feedback!Before, Feedback!Stamps, Feedback!TaggedBodies, Feedback!Readers
    <2> QED
      BY <2>1, <2>2, <2>3 DEF FeedbackInv
  <1>3. CASE FeedbackWritten
    <2>1. CASE Feedback!PublishStamp
      <3>1. /\ fbkWriter.step = "stamp" /\ fbkWriter'.step = "body" /\ fbkStamp'.ago = 0
            /\ fbkWriter'.odd = fbkWriter.odd
            /\ UNCHANGED <<fbkOdd, fbkBody, fbkReader, torn>>
        BY <1>3, <2>1 DEF FeedbackWritten, Feedback!PublishStamp, Feedback!Writers
      <3> QED
        BY <3>1 DEF FeedbackInv
    <2>2. CASE Feedback!PublishBody
      <3>1. /\ fbkWriter.step = "body" /\ fbkWriter'.step = "end" /\ fbkBody'.ago = 0
            /\ fbkWriter'.odd = fbkWriter.odd
            /\ UNCHANGED <<fbkOdd, fbkStamp, fbkReader, torn>>
        BY <1>3, <2>2 DEF FeedbackWritten, Feedback!PublishBody, Feedback!Writers
      <3> QED
        BY <3>1 DEF FeedbackInv
    <2>3. CASE Feedback!PublishEnd("none")
      <3>1. /\ fbkWriter.step = "end" /\ fbkWriter'.step = "idle" /\ fbkOdd' = fbkWriter.odd
            /\ UNCHANGED <<fbkStamp, fbkBody, torn>>
            /\ fbkReader'.step = fbkReader.step
            /\ fbkReader'.step \in {"stamp", "body", "after"} => fbkReader'.moved
            /\ fbkReader'.stamp = fbkReader.stamp /\ fbkReader'.body = fbkReader.body
        BY <1>3, <2>3 DEF FeedbackWritten, Feedback!PublishEnd, Feedback!NoWriter, Feedback!Moved,
                          Feedback!Readers
      <3> QED
        BY <3>1 DEF FeedbackInv
    <2> QED
      BY <1>3, <2>1, <2>2, <2>3 DEF FeedbackWritten, Feedback!Publishing
  <1>4. CASE FeedbackWriterDies
    <2>1. fbkWriter.step = "idle" /\ fbkWriter'.step = "idle" /\ "feedback" \notin torn
      BY <1>4 DEF FeedbackWriterDies, Feedback!NoWriter
    <2> QED
      BY <1>4, <2>1 DEF FeedbackWriterDies, FeedbackInv
  <1>5. CASE FeedbackZeroed
    <2>1. /\ ~fbkOdd' /\ fbkStamp'.ago = 2 /\ fbkBody'.ago = 2
          /\ UNCHANGED <<fbkWriter, torn>> /\ fbkWriter.step = "idle"
          /\ fbkReader'.step = fbkReader.step
          /\ fbkReader'.step \in {"stamp", "body", "after"} => fbkReader'.moved
          /\ fbkReader'.stamp = fbkReader.stamp /\ fbkReader'.body = fbkReader.body
      BY <1>5 DEF FeedbackZeroed, Feedback!Zeroed, Feedback!Moved, Feedback!Readers, RegionInv
    <2> QED
      BY <2>1 DEF FeedbackInv
  <1>6. CASE FeedbackAsked
    <2>1. fbkReader'.step = "before"
      BY <1>6 DEF FeedbackAsked, Feedback!ReadBegin, Feedback!Readers
    <2> QED
      BY <1>6, <2>1 DEF FeedbackAsked, Feedback!ReadBegin, FeedbackInv
  <1>7. CASE FeedbackRead
    <2>0. UNCHANGED <<fbkOdd, fbkStamp, fbkBody, fbkWriter, torn>>
      BY <1>7 DEF FeedbackRead, Feedback!Reading, Feedback!ReadBefore, Feedback!ReadStamp,
                  Feedback!ReadBody, Feedback!ReadAfter
    <2>1. Feedback!NextTry("none").step \in {"before", "failed"}
      BY DEF Feedback!NextTry, Feedback!NoCopy
    <2>2. CASE fbkReader'.step \in {"before", "failed"}
      BY <2>0, <2>2 DEF FeedbackInv
    <2>3. CASE ~fbkOdd /\ fbkReader'.step = "stamp"
      BY <2>0, <2>3 DEF FeedbackInv
    <2>4. CASE Feedback!ReadStamp
      <3>1. /\ fbkReader.step = "stamp" /\ fbkReader'.step = "body"
            /\ fbkReader'.moved = fbkReader.moved /\ fbkReader'.stamp = fbkStamp
        BY <2>4 DEF Feedback!ReadStamp, Feedback!Readers
      <3> QED
        BY <2>0, <3>1 DEF FeedbackInv
    <2>5. CASE Feedback!ReadBody
      <3>1. /\ fbkReader.step = "body" /\ fbkReader'.step = "after"
            /\ fbkReader'.moved = fbkReader.moved /\ fbkReader'.stamp = fbkReader.stamp
            /\ fbkReader'.body = fbkBody
        BY <2>5 DEF Feedback!ReadBody, Feedback!Readers
      <3> QED
        BY <2>0, <3>1 DEF FeedbackInv
    <2>6. CASE /\ fbkReader.step = "after" /\ ~fbkReader.moved
               /\ fbkReader' = [fbkReader EXCEPT !.step = "done"]
      <3>1. /\ fbkReader'.step = "done" /\ fbkReader'.stamp = fbkReader.stamp
            /\ fbkReader'.body = fbkReader.body
        BY <2>6 DEF Feedback!Readers
      <3> QED
        BY <2>0, <2>6, <3>1 DEF FeedbackInv
    <2>7. CASE Feedback!ReadBefore("none")
      <3>1. CASE fbkOdd
        BY <2>1, <2>2, <2>7, <3>1 DEF Feedback!ReadBefore
      <3>2. CASE ~fbkOdd
        BY <2>3, <2>7, <3>2 DEF Feedback!ReadBefore, Feedback!Readers
      <3> QED
        BY <3>1, <3>2
    <2>8. CASE Feedback!ReadAfter("none")
      <3>1. CASE fbkReader.moved
        BY <2>1, <2>2, <2>8, <3>1 DEF Feedback!ReadAfter
      <3>2. CASE ~fbkReader.moved
        BY <2>6, <2>8, <3>2 DEF Feedback!ReadAfter
      <3> QED
        BY <3>1, <3>2
    <2> QED
      BY <1>7, <2>4, <2>5, <2>7, <2>8 DEF FeedbackRead, Feedback!Reading
  <1>8. CASE FeedbackDropped
    <2>1. fbkReader'.step = "idle"
      BY <1>8 DEF FeedbackDropped, Feedback!NoCopy
    <2> QED
      BY <1>8, <2>1 DEF FeedbackDropped, FeedbackInv
  <1>9. CASE FeedbackAges
    <2>1. /\ fbkStamp'.ago = fbkStamp.ago
          /\ fbkWriter'.step = fbkWriter.step /\ fbkWriter'.odd = fbkWriter.odd
          /\ fbkReader'.step = fbkReader.step /\ fbkReader'.moved = fbkReader.moved
          /\ fbkReader'.stamp.ago = fbkReader.stamp.ago
          /\ fbkReader'.body = fbkReader.body
      BY <1>9 DEF FeedbackAges, Feedback!GrowOlder, Feedback!Stamps, Feedback!Writers,
                  Feedback!Readers
    <2>2. UNCHANGED <<fbkOdd, fbkBody, torn>>
      BY <1>9 DEF FeedbackAges, Feedback!GrowOlder
    <2> QED
      BY <2>1, <2>2 DEF FeedbackInv
  <1>10. CASE Unlink
    <2>1. /\ ~fbkOdd' /\ fbkStamp'.ago = fbkBody'.ago /\ fbkWriter'.step = "idle"
          /\ fbkReader'.step = "idle"
      BY <1>10 DEF Unlink, Feedback!Zeroed, Feedback!NoCopy, Feedback!NoWriter
    <2> QED
      BY <2>1 DEF FeedbackInv
  <1> QED
    BY <1>1, <1>2, <1>3, <1>4, <1>5, <1>6, <1>7, <1>8, <1>9, <1>10 DEF FeedbackStep

-----------------------------------------------------------------------------
(* Ages, and a region in the making.                                        *)

LEMMA OlderIsMonotone ==
  ASSUME NEW a \in 0 .. MaxFeedbackAge + 2, NEW b \in 0 .. MaxFeedbackAge + 2
  PROVE  /\ Feedback!Older(a) \in 0 .. MaxFeedbackAge + 2
         /\ a <= b => Feedback!Older(a) <= Feedback!Older(b)
         /\ a = MaxFeedbackAge + 2 => Feedback!Older(a) = MaxFeedbackAge + 2
  BY ConstantTypes DEF Feedback!Older

LEMMA FeedbackAgeTypes ==
  ASSUME FeedbackTypes
  PROVE  /\ fbkStamp.age \in 0 .. MaxFeedbackAge + 2
         /\ fbkReader.stamp.age \in 0 .. MaxFeedbackAge + 2
         /\ fbkWriter.age \in 0 .. MaxFeedbackAge + 2
  BY DEF FeedbackTypes, Feedback!Stamps, Feedback!Readers, Feedback!Writers

\* What a reader of the feedback may find in its copy after a step.
LEMMA FeedbackCopies ==
  ASSUME FeedbackTypes, FeedbackRead
  PROVE  /\ UNCHANGED <<fbkOdd, fbkStamp, fbkBody, fbkWriter, torn>>
         /\ \/ fbkReader'.stamp = fbkReader.stamp
            \/ fbkReader'.stamp = fbkStamp
            \/ fbkReader'.stamp.age = MaxFeedbackAge + 2
         /\ fbkReader'.body.item \in {fbkReader.body.item, fbkBody.item, "none"}
  <1> USE DEF FeedbackTypes
  <1>0. /\ Feedback!NextTry("none").stamp.age = MaxFeedbackAge + 2
        /\ Feedback!NextTry("none").body.item = "none"
    BY DEF Feedback!NextTry, Feedback!NoCopy
  <1>1. CASE Feedback!ReadBefore("none")
    BY <1>0, <1>1 DEF FeedbackRead, Feedback!ReadBefore, Feedback!Readers
  <1>2. CASE Feedback!ReadStamp
    BY <1>2 DEF FeedbackRead, Feedback!ReadStamp, Feedback!Readers
  <1>3. CASE Feedback!ReadBody
    BY <1>3 DEF FeedbackRead, Feedback!ReadBody, Feedback!Readers
  <1>4. CASE Feedback!ReadAfter("none")
    BY <1>0, <1>4 DEF FeedbackRead, Feedback!ReadAfter, Feedback!Readers
  <1> QED
    BY <1>1, <1>2, <1>3, <1>4 DEF FeedbackRead, Feedback!Reading

LEMMA AgeStep ==
  ASSUME FeedbackTypes, RegionInv, AgeInv, FeedbackStep
  PROVE  AgeInv'
  <1> USE FeedbackAgeTypes, ConstantTypes DEF AgeInv
  <1>1. CASE FeedbackKept
    BY <1>1 DEF FeedbackKept, fbkVars
  <1>2. CASE FeedbackBegun
    <2>1. /\ fbkStamp'.age = fbkStamp.age /\ fbkReader'.stamp.age = fbkReader.stamp.age
          /\ fbkWriter'.age = 0
      BY <1>2 DEF FeedbackBegun, Feedback!PublishBegin, Feedback!Moved, Feedback!Before,
                  FeedbackTypes, Feedback!Readers, Feedback!Stamps, Feedback!TaggedBodies
    <2> QED
      BY <2>1
  <1>3. CASE FeedbackWritten
    <2>1. CASE Feedback!PublishStamp
      <3>1. /\ fbkWriter.step = "stamp" /\ fbkWriter'.step = "body"
            /\ fbkStamp'.age = fbkWriter.age /\ fbkReader' = fbkReader
        BY <2>1 DEF Feedback!PublishStamp, FeedbackTypes, Feedback!Writers
      <3> QED
        BY <3>1
    <2>2. CASE Feedback!PublishBody \/ Feedback!PublishEnd("none")
      <3>1. fbkWriter'.step # "stamp" /\ fbkStamp' = fbkStamp
        BY <2>2 DEF Feedback!PublishBody, Feedback!PublishEnd, Feedback!NoWriter, FeedbackTypes,
                    Feedback!Writers
      <3>2. fbkReader'.stamp = fbkReader.stamp
        BY <2>2 DEF Feedback!PublishBody, Feedback!PublishEnd, Feedback!Moved, FeedbackTypes,
                    Feedback!Readers
      <3> QED
        BY <3>1, <3>2
    <2> QED
      BY <1>3, <2>1, <2>2 DEF FeedbackWritten, Feedback!Publishing
  <1>4. CASE FeedbackWriterDies
    BY <1>4 DEF FeedbackWriterDies, Feedback!NoWriter
  <1>5. CASE FeedbackZeroed
    <2>1. /\ fbkReader.stamp.age = MaxFeedbackAge + 2 /\ fbkWriter.step = "idle"
          /\ fbkStamp'.age = MaxFeedbackAge + 2
          /\ fbkWriter' = fbkWriter /\ fbkReader'.stamp = fbkReader.stamp
      BY <1>5 DEF FeedbackZeroed, RegionInv, Feedback!Zeroed, Feedback!Moved, FeedbackTypes,
                  Feedback!Readers
    <2> QED
      BY <2>1
  <1>6. CASE FeedbackAsked
    <2>1. fbkReader'.stamp = fbkReader.stamp
      BY <1>6 DEF FeedbackAsked, Feedback!ReadBegin, FeedbackTypes, Feedback!Readers
    <2> QED
      BY <1>6, <2>1 DEF FeedbackAsked, Feedback!ReadBegin
  <1>7. CASE FeedbackRead
    BY <1>7, FeedbackCopies
  <1>8. CASE FeedbackDropped
    BY <1>8 DEF FeedbackDropped, Feedback!NoCopy
  <1>9. CASE FeedbackAges
    <2>1. /\ fbkStamp'.age = Feedback!Older(fbkStamp.age)
          /\ fbkWriter'.age = Feedback!Older(fbkWriter.age) /\ fbkWriter'.step = fbkWriter.step
          /\ fbkReader'.stamp.age = Feedback!Older(fbkReader.stamp.age)
      BY <1>9 DEF FeedbackAges, Feedback!GrowOlder, FeedbackTypes, Feedback!Stamps,
                  Feedback!Writers, Feedback!Readers
    <2> QED
      BY <2>1, OlderIsMonotone
  <1>10. CASE Unlink
    BY <1>10 DEF Unlink, Feedback!Zeroed, Feedback!NoCopy, Feedback!NoWriter
  <1> QED
    BY <1>1, <1>2, <1>3, <1>4, <1>5, <1>6, <1>7, <1>8, <1>9, <1>10 DEF FeedbackStep

\* A region that is not ready stays empty.
Untold ==
    /\ fbkBody.item = "none" /\ fbkReader.body.item = "none"
    /\ fbkStamp.age = MaxFeedbackAge + 2 /\ fbkReader.stamp.age = MaxFeedbackAge + 2

LEMMA UntoldStep ==
  ASSUME FeedbackTypes, RegionInv, region # "ready", FeedbackStep
  PROVE  Untold'
  <1> USE ConstantTypes DEF RegionInv, Untold, Cycling
  <1>1. CASE FeedbackKept
    BY <1>1 DEF FeedbackKept, fbkVars
  <1>2. CASE FeedbackBegun \/ FeedbackWritten
    BY <1>2 DEF FeedbackBegun, FeedbackWritten
  <1>3. CASE FeedbackWriterDies
    BY <1>3 DEF FeedbackWriterDies
  <1>4. CASE FeedbackZeroed
    <2>1. fbkReader'.stamp = fbkReader.stamp /\ fbkReader'.body = fbkReader.body
      BY <1>4 DEF FeedbackZeroed, Feedback!Moved, FeedbackTypes, Feedback!Readers
    <2> QED
      BY <1>4, <2>1 DEF FeedbackZeroed, Feedback!Zeroed
  <1>5. CASE FeedbackAsked
    <2>1. fbkReader'.stamp = fbkReader.stamp /\ fbkReader'.body = fbkReader.body
      BY <1>5 DEF FeedbackAsked, Feedback!ReadBegin, FeedbackTypes, Feedback!Readers
    <2> QED
      BY <1>5, <2>1 DEF FeedbackAsked, Feedback!ReadBegin
  <1>6. CASE FeedbackRead
    BY <1>6, FeedbackCopies
  <1>7. CASE FeedbackDropped
    BY <1>7 DEF FeedbackDropped, Feedback!NoCopy
  <1>8. CASE FeedbackAges
    <2>1. /\ fbkStamp'.age = Feedback!Older(fbkStamp.age)
          /\ fbkReader'.stamp.age = Feedback!Older(fbkReader.stamp.age)
          /\ fbkBody' = fbkBody /\ fbkReader'.body = fbkReader.body
      BY <1>8 DEF FeedbackAges, Feedback!GrowOlder, FeedbackTypes, Feedback!Stamps,
                  Feedback!Writers, Feedback!Readers
    <2> QED
      BY <2>1, FeedbackAgeTypes, OlderIsMonotone
  <1>9. CASE Unlink
    BY <1>9 DEF Unlink, Feedback!Zeroed, Feedback!NoCopy
  <1> QED
    BY <1>1, <1>2, <1>3, <1>4, <1>5, <1>6, <1>7, <1>8, <1>9 DEF FeedbackStep

-----------------------------------------------------------------------------
(* The controller, the L0 process and the region.                           *)

LEMMA RegionTypesStep ==
  ASSUME TypeOK, [Next]_vars
  PROVE  RegionTypes'
  <1> USE DEF TypeOK, RegionTypes, SetEnable
  <1>0. 0 \in 0 .. 1 /\ 1 \in 0 .. 1
    OBVIOUS
  <1>1. CASE UNCHANGED vars \/ Tick
    BY <1>1 DEF vars, regionVars, Tick
  <1>2. CASE Attach \/ AttachMap \/ Detach \/ CycleBegin \/ ReadStep \/ CycleRead \/ CycleIdle
             \/ Write \/ PublishStep \/ Leave
    BY <1>2 DEF Attach, AttachMap, Detach, CycleBegin, ReadStep, CycleRead, CycleIdle, Write,
                PublishStep, Leave, regionVars
  <1>3. CASE OpenSafe \/ Arm \/ EmergencyStop \/ HalClose
    BY <1>0, <1>3 DEF OpenSafe, Arm, EmergencyStop, HalClose
  <1>4. CASE ControllerDies \/ L0Dies
    BY <1>4 DEF ControllerDies, L0Dies
  <1>5. CASE L0Create \/ L0CreateFails \/ L0Size \/ L0Header \/ L0Zero
    BY <1>0, <1>5 DEF L0Create, L0CreateFails, L0Size, L0Header, L0Zero, ZeroRegion
  <1>6. CASE L0Receive
    BY <1>6 DEF L0Receive, IghReceive, ReadyAfter
  <1>7. CASE L0Input \/ L0ReadStep \/ L0Output \/ L0PublishStep \/ L0Send
    BY <1>7 DEF L0Input, L0ReadStep, L0Output, L0PublishStep, L0Send, regionVars
  <1>8. CASE L0Activate
    BY <1>0, <1>8 DEF L0Activate, L0Gone, Unlink, regionVars
  <1>9. CASE L0Close \/ RemoveName
    BY <1>0, <1>9, GoneSteps DEF Unlink
  <1> QED
    BY <1>1, <1>2, <1>3, <1>4, <1>5, <1>6, <1>7, <1>8, <1>9 DEF Next, Controller, L0

LEMMA ControllerTypesStep ==
  ASSUME TypeOK, [Next]_vars
  PROVE  ControllerTypes'
  <1> USE DEF TypeOK, ControllerTypes, Phases, halVars
  <1>1. CASE UNCHANGED vars \/ Tick
    BY <1>1 DEF vars, ctlVars, Tick
  <1>2. CASE Attach \/ AttachMap \/ Detach \/ OpenSafe \/ CycleBegin
    BY <1>2 DEF Attach, AttachMap, Detach, OpenSafe, CycleBegin
  <1>3. CASE ReadStep
    BY <1>3 DEF ReadStep, ctlVars
  <1>4. CASE CycleRead
    BY <1>4 DEF CycleRead
  <1>5. CASE CycleIdle \/ Arm \/ Write \/ EmergencyStop \/ PublishStep \/ Leave
    BY <1>5 DEF CycleIdle, Arm, Write, EmergencyStop, PublishStep, Leave
  <1>6. CASE HalClose \/ ControllerDies
    BY <1>6 DEF HalClose, ControllerDies
  <1>7. CASE L0Create \/ L0CreateFails \/ L0Size \/ L0Header \/ L0Zero \/ L0Receive \/ L0Input
             \/ L0ReadStep \/ L0Output \/ L0PublishStep \/ L0Send \/ L0Dies
    BY <1>7 DEF L0Create, L0CreateFails, L0Size, L0Header, L0Zero, L0Receive, L0Input, L0ReadStep, L0Output,
                L0PublishStep, L0Send, L0Dies, ctlVars
  <1>8. CASE L0Activate
    BY <1>8 DEF L0Activate, L0Gone, Unlink, ctlVars
  <1>9. CASE L0Close \/ RemoveName
    BY <1>9 DEF L0Close, RemoveName, L0Gone, Unlink
  <1> QED
    BY <1>1, <1>2, <1>3, <1>4, <1>5, <1>6, <1>7, <1>8, <1>9 DEF Next, Controller, L0

LEMMA L0TypesStep ==
  ASSUME TypeOK, [Next]_vars
  PROVE  L0Types'
  <1> USE ConstantTypes DEF TypeOK, L0Types, L0Phases
  <1>1. CASE UNCHANGED vars \/ Tick
    BY <1>1 DEF vars, l0Vars, ighVars, Tick
  <1>2. CASE Attach \/ AttachMap \/ Detach \/ CycleBegin \/ ReadStep \/ CycleRead \/ CycleIdle
             \/ Arm \/ Write \/ EmergencyStop \/ PublishStep \/ Leave \/ HalClose
    <2>1. UNCHANGED <<l0Vars, ighVars, deaths>>
      BY <1>2 DEF Attach, AttachMap, Detach, CycleBegin, ReadStep, CycleRead, CycleIdle, Arm,
                  Write, EmergencyStop, PublishStep, Leave, HalClose
    <2> QED
      BY <2>1 DEF l0Vars, ighVars
  <1>3. CASE OpenSafe \/ ControllerDies
    BY <1>3 DEF OpenSafe, RunBegins, ControllerDies, l0Vars, ighVars
  <1>4. CASE L0Size
    BY <1>4 DEF L0Size, ighVars
  <1>5. CASE L0Create \/ L0CreateFails \/ L0Header \/ L0Zero \/ L0Input \/ L0ReadStep \/ L0Output \/ L0PublishStep
    BY <1>5 DEF L0Create, L0CreateFails, L0Header, L0Zero, L0Input, L0ReadStep, L0Output,
                L0PublishStep, l0Vars, ighVars
  <1>6. CASE L0Activate
    BY <1>6 DEF L0Activate, L0Gone, IghActivate, IghGiveUp, IghClose, l0Vars
  <1>7. CASE L0Receive
    BY <1>7 DEF L0Receive, IghReceive
  <1>8. CASE L0Send
    BY <1>8 DEF L0Send, IghSend
  <1>9. CASE L0Close \/ RemoveName
    BY <1>9 DEF L0Close, RemoveName, L0Gone, IghClose, l0Vars, ighVars
  <1>10. CASE L0Dies
    <2>1. deaths' \in 0 .. MaxDeaths
      BY <1>10 DEF L0Dies
    <2>2. /\ l0' = "down" /\ sawEnable' = "off" /\ regions' = regions
          /\ ~held' /\ ~active' /\ ~received'
      BY <1>10 DEF L0Dies, IghClose
    <2>3. held' \in BOOLEAN /\ active' \in BOOLEAN /\ received' \in BOOLEAN
      BY <1>10 DEF L0Dies, IghClose
    <2> QED
      BY <2>1, <2>2, <2>3
  <1> QED
    BY <1>1, <1>2, <1>3, <1>4, <1>5, <1>6, <1>7, <1>8, <1>9, <1>10 DEF Next, Controller, L0

\* What the steps do to the phase of L0 and to the region.
LEMMA RegionInvStep ==
  ASSUME TypeOK, RegionInv, [Next]_vars
  PROVE  RegionInv'
  <1>1. FeedbackStep /\ FeedbackTypes
    BY FeedbackSteps DEF TypeOK
  <1>2. region' # "ready" => Untold'
    <2>1. CASE region # "ready"
      BY <1>1, <2>1, UntoldStep
    <2>2. CASE Unlink
      BY <2>2 DEF Unlink, Untold, Feedback!Zeroed, Feedback!NoCopy
    <2>3. CASE UNCHANGED region \/ L0Zero
      BY <2>1, <2>3 DEF L0Zero
    <2>4. UNCHANGED region \/ L0Zero \/ Unlink \/ region # "ready"
      <3>1. CASE UNCHANGED vars \/ Tick \/ Controller
        BY <3>1 DEF vars, regionVars, Tick, Controller, Attach, AttachMap, Detach, OpenSafe,
                    CycleBegin, ReadStep, CycleRead, CycleIdle, Arm, Write, EmergencyStop,
                    PublishStep, Leave, HalClose, ControllerDies
      <3>2. CASE L0Create \/ L0CreateFails \/ L0Size \/ L0Header
        BY <3>2 DEF L0Create, L0CreateFails, L0Size, L0Header, RegionInv
      <3>3. CASE L0Receive \/ L0Input \/ L0ReadStep \/ L0Output \/ L0PublishStep \/ L0Send \/ L0Dies
        BY <3>3 DEF L0Receive, L0Input, L0ReadStep, L0Output, L0PublishStep, L0Send, L0Dies,
                    regionVars
      <3>4. CASE L0Activate
        BY <3>4 DEF L0Activate, L0Gone, regionVars
      <3>5. CASE L0Close \/ RemoveName
        BY <3>5, GoneSteps
      <3> QED
        BY <3>1, <3>2, <3>3, <3>4, <3>5 DEF Next, L0
    <2> QED
      BY <2>1, <2>2, <2>3, <2>4
  <1> DEFINE Made ==
        /\ l0 = "create" => region = "empty"
        /\ l0 = "init" => region = "zero"
        /\ l0 = "zero" => region = "header"
        /\ l0 \in Cycling \cup {"activate"} => region = "ready"
        /\ fbkWriter.step # "idle" <=> l0 = "publishing"
  <1>3. Made'
    <2> USE DEF RegionInv, Cycling
    <2>1. CASE UNCHANGED vars
      BY <2>1 DEF vars, l0Vars, regionVars, fbkVars
    <2>2. CASE Tick
      <3>1. UNCHANGED <<l0, region>> /\ fbkWriter'.step = fbkWriter.step
        BY <1>1, <2>2 DEF Tick, l0Vars, Feedback!GrowOlder, FeedbackTypes, Feedback!Writers
      <3> QED
        BY <3>1
    <2>3. CASE Controller
      <3>1. UNCHANGED <<l0, region, fbkWriter>>
        BY <2>3
           DEF Controller, Attach, AttachMap, Detach, OpenSafe, CycleBegin, ReadStep, CycleRead,
               CycleIdle, Arm, Write, EmergencyStop, PublishStep, Leave, HalClose, ControllerDies,
               l0Vars, regionVars, fbkVars, Feedback!ReadBegin, Feedback!Reading,
               Feedback!ReadBefore, Feedback!ReadStamp, Feedback!ReadBody, Feedback!ReadAfter
      <3> QED
        BY <3>1
    <2>4. CASE L0Create \/ L0CreateFails \/ L0Size \/ L0Header \/ L0Zero
      BY <2>4 DEF L0Create, L0CreateFails, L0Size, L0Header, L0Zero, fbkVars
    <2>5. CASE L0Receive \/ L0Input \/ L0ReadStep \/ L0Send
      BY <2>5 DEF L0Receive, L0Input, L0ReadStep, L0Send, regionVars, fbkVars, l0Vars
    <2>6. CASE L0Output
      BY <2>6 DEF L0Output, regionVars, Feedback!PublishBegin
    <2>7. CASE L0PublishStep
      <3>1. UNCHANGED region /\ l0 = "publishing"
        BY <2>7 DEF L0PublishStep, regionVars
      <3>2. l0' = IF fbkWriter'.step = "idle" THEN "send" ELSE "publishing"
        BY <2>7 DEF L0PublishStep
      <3> QED
        BY <3>1, <3>2
    <2>8. CASE L0Dies
      BY <2>8 DEF L0Dies, Feedback!NoWriter
    <2>9. CASE L0Activate
      BY <2>9 DEF L0Activate, L0Gone, Unlink, Feedback!NoWriter, regionVars, fbkVars
    <2>10. CASE L0Close \/ RemoveName
      BY <2>10 DEF L0Close, RemoveName, L0Gone, Unlink, Feedback!NoWriter, l0Vars
    <2> QED
      BY <2>1, <2>2, <2>3, <2>4, <2>5, <2>6, <2>7, <2>8, <2>9, <2>10 DEF Next, L0
  <1>4. (l0 = "down" /\ region \in {"header", "ready"} => deaths > 0)'
    <2> USE DEF RegionInv, Cycling
    <2>0. deaths \in Nat
      BY ConstantTypes DEF TypeOK, L0Types
    <2>1. CASE UNCHANGED vars \/ Tick \/ Controller
      <3>1. UNCHANGED <<l0, region>>
        BY <2>1
           DEF vars, Tick, Controller, Attach, AttachMap, Detach, OpenSafe, CycleBegin, ReadStep,
               CycleRead, CycleIdle, Arm, Write, EmergencyStop, PublishStep, Leave, HalClose,
               ControllerDies, l0Vars, regionVars
      <3>2. deaths' = deaths \/ deaths' = deaths + 1
        BY <2>1
           DEF vars, Tick, Controller, Attach, AttachMap, Detach, OpenSafe, CycleBegin, ReadStep,
               CycleRead, CycleIdle, Arm, Write, EmergencyStop, PublishStep, Leave, HalClose,
               ControllerDies
      <3> QED
        BY <2>0, <3>1, <3>2
    <2>2. CASE L0Create \/ L0CreateFails \/ L0Size \/ L0Header \/ L0Zero
      BY <2>2 DEF L0Create, L0CreateFails, L0Size, L0Header, L0Zero
    <2>3. CASE L0Receive \/ L0Input \/ L0ReadStep \/ L0Output \/ L0PublishStep \/ L0Send
      BY <2>3 DEF L0Receive, L0Input, L0ReadStep, L0Output, L0PublishStep, L0Send, l0Vars
    <2>4. CASE L0Dies
      BY <2>0, <2>4 DEF L0Dies
    <2>5. CASE L0Activate
      BY <2>5 DEF L0Activate, L0Gone, Unlink
    <2>6. CASE L0Close \/ RemoveName
      BY <2>6, GoneSteps DEF Unlink
    <2> QED
      BY <2>1, <2>2, <2>3, <2>4, <2>5, <2>6 DEF Next, L0
  <1> QED
    BY <1>2, <1>3, <1>4 DEF RegionInv, Untold

\* A copy of a region that is not ready is no feedback.
LEMMA NothingToTake ==
  ASSUME RegionInv, mapped = "named", region # "ready"
  PROVE  ~ReadOutcome.got
  BY DEF RegionInv, ReadOutcome

LEMMA HalInvStep ==
  ASSUME TypeOK, RegionInv, HalInv, [Next]_vars
  PROVE  HalInv'
  <1> USE DEF TypeOK, ControllerTypes, HalInv, EnableTellsArmed, Quiet
  <1>1. CASE UNCHANGED vars
    BY <1>1 DEF vars, ctlVars, halVars, regionVars
  <1>2. CASE Tick
    BY <1>2 DEF Tick, halVars
  <1>3. CASE Attach \/ AttachMap \/ Detach
    BY <1>3 DEF Attach, AttachMap, Detach, halVars, regionVars
  <1>4. CASE OpenSafe
    BY <1>4 DEF OpenSafe, SetEnable
  <1>5. CASE CycleBegin \/ CycleIdle \/ Write \/ PublishStep \/ Leave
    <2>1. UNCHANGED <<mapped, opened, armed, haveFeedback, region, enable>>
      BY <1>5 DEF CycleBegin, CycleIdle, Write, PublishStep, Leave, halVars, regionVars
    <2>4. safeEntered' => safeEntered
      BY <1>5 DEF CycleBegin, CycleIdle, Write, PublishStep, Leave
    <2>2. phase' \in Quiet <=> phase \in Quiet
      BY <1>5 DEF CycleBegin, CycleIdle, Write, PublishStep, Leave
    <2>3. phase' = "off" <=> phase = "off"
      BY <1>5 DEF CycleBegin, CycleIdle, Write, PublishStep, Leave
    <2>5. phase' # "mapping" => phase # "mapping"
      BY <1>5 DEF CycleBegin, CycleIdle, Write, PublishStep, Leave
    <2> HIDE DEF Quiet
    <2> QED
      BY <2>1, <2>2, <2>3, <2>4, <2>5
  <1>6. CASE ReadStep
    BY <1>6 DEF ReadStep, ctlVars, halVars, regionVars
  <1>7. CASE CycleRead
    <2>1. /\ phase = "reading" /\ phase' \in {"act", "leave"}
          /\ UNCHANGED <<mapped, opened, armed, region, enable>>
      BY <1>7 DEF CycleRead, regionVars
    <2>2. safeEntered' => safeEntered
      BY <1>7 DEF CycleRead
    <2>3. haveFeedback => haveFeedback'
      BY <1>7 DEF CycleRead
    <2>4. haveFeedback' => haveFeedback \/ ReadOutcome.got
      BY <1>7 DEF CycleRead
    <2>5. opened /\ opened'
      BY <2>1
    <2>6. mapped' = "named" /\ region' # "ready" => ~haveFeedback'
      BY <2>1, <2>4, NothingToTake
    <2> QED
      BY <2>1, <2>2, <2>3, <2>5, <2>6
  <1>8. CASE Arm
    BY <1>8 DEF Arm, ArmAllowed, SetEnable
  <1>9. CASE EmergencyStop
    BY <1>9 DEF EmergencyStop, SetEnable
  <1>10. CASE HalClose \/ ControllerDies
    BY <1>10 DEF HalClose, ControllerDies, SetEnable
  <1>11. CASE L0Create \/ L0CreateFails \/ L0Size \/ L0Header
    BY <1>11 DEF L0Create, L0CreateFails, L0Size, L0Header, RegionInv, ctlVars, halVars
  <1>12. CASE L0Zero
    BY <1>12 DEF L0Zero, ZeroRegion, RegionInv, ctlVars, halVars
  <1>13. CASE L0Receive \/ L0Input \/ L0ReadStep \/ L0Output \/ L0PublishStep \/ L0Send \/ L0Dies
    <2>1. UNCHANGED <<ctlVars, region, enable>>
      BY <1>13 DEF L0Receive, L0Input, L0ReadStep, L0Output, L0PublishStep, L0Send, L0Dies,
                   regionVars
    <2> QED
      BY <2>1 DEF ctlVars, halVars
  <1>14. CASE Unlink /\ UNCHANGED <<halVars, safeEntered>>
    BY <1>14 DEF Unlink, halVars
  <1>15. CASE L0Activate
    <2>1. UNCHANGED <<ctlVars, regionVars>> \/ (Unlink /\ UNCHANGED <<halVars, safeEntered>>)
      BY <1>15 DEF L0Activate, L0Gone
    <2> QED
      BY <1>14, <2>1 DEF ctlVars, halVars, regionVars
  <1>16. CASE L0Close \/ RemoveName
    BY <1>14, <1>16 DEF L0Close, RemoveName, L0Gone
  <1> QED
    BY <1>1, <1>2, <1>3, <1>4, <1>5, <1>6, <1>7, <1>8, <1>9, <1>10, <1>11, <1>12, <1>13, <1>15,
       <1>16 DEF Next, Controller, L0

LEMMA BusInvStep ==
  ASSUME TypeOK, BusInv, [Next]_vars
  PROVE  BusInv'
  <1> USE DEF TypeOK, L0Types, BusInv, IdleMasterIsFree, CyclesAreClosed, Cycling
  <1>1. CASE UNCHANGED vars \/ Tick \/ Controller
    <2>1. UNCHANGED <<l0, ighVars>>
      BY <1>1 DEF vars, Tick, Controller, Attach, AttachMap, Detach, OpenSafe, CycleBegin,
                  ReadStep, CycleRead, CycleIdle, Arm, Write, EmergencyStop, PublishStep, Leave,
                  HalClose, ControllerDies, l0Vars
    <2> QED
      BY <2>1 DEF ighVars
  <1>2. CASE L0Create \/ L0Size \/ L0Header \/ L0Zero \/ RemoveName \/ L0CreateFails
    BY <1>2 DEF L0Create, L0Size, L0Header, L0Zero, RemoveName, L0CreateFails, l0Vars, ighVars
  <1>3. CASE L0Activate
    <2>1. CASE IghActivate("Ok") /\ l0' = "cycle"
      BY <2>1 DEF IghActivate
    <2>2. CASE IghActivate("IoError") /\ L0Gone
      BY <1>3, <2>2 DEF L0Activate, IghActivate, EcrtFails, IghGiveUp, IghClose, L0Gone
    <2> QED
      BY <1>3, <2>1, <2>2 DEF L0Activate
  <1>4. CASE L0Receive
    <2>1. l0 = "cycle" /\ l0' \in {"input", "send"} /\ active' = active
      BY <1>4 DEF L0Receive, IghReceive
    <2>2. busFaults' \in Nat
      <3>1. busFaults' = busFaults \/ busFaults' = busFaults + 1
        BY <1>4 DEF L0Receive, IghReceive, EcrtFails
      <3> QED
        BY <3>1
    <2>3. l0' = "input" => told' = Slaves
      BY <1>4 DEF L0Receive, IghReceive
    <2> QED
      BY <2>1, <2>2, <2>3
  <1>5. CASE L0Input \/ L0Output \/ L0PublishStep
    BY <1>5 DEF L0Input, L0Output, L0PublishStep, ighVars
  <1>6. CASE L0ReadStep
    BY <1>6 DEF L0ReadStep, l0Vars, ighVars
  <1>7. CASE L0Send
    BY <1>7 DEF L0Send, IghSend, EcrtFails
  <1>8. CASE L0Close
    BY <1>8 DEF L0Close, L0Gone, IghClose
  <1>9. CASE L0Dies
    BY <1>9 DEF L0Dies, IghClose
  <1> QED
    BY <1>1, <1>2, <1>3, <1>4, <1>5, <1>6, <1>7, <1>8, <1>9 DEF Next, L0

-----------------------------------------------------------------------------
(* The orders of a run of the controller.                                   *)

\* What is written is of this run, and a reader starts with nothing.
LEMMA FreshOrders ==
  ASSUME CommandTypes, GoalInv, CommandStep
  PROVE  /\ ~cmdWriter'.item.before
         /\ cmdReader'.step = "idle" => cmdReader'.body.item = NoOrder
  <1> USE DEF CommandTypes, GoalInv, NoOrder
  <1>1. CASE CommandKept
    BY <1>1 DEF CommandKept, cmdVars
  <1>2. CASE CommandRunBegins
    <2>1. cmdWriter' = cmdWriter /\ cmdReader'.step = cmdReader.step
      BY <1>2 DEF CommandRunBegins, RunBegins, Command!Readers
    <2>2. cmdReader.body.item = NoOrder => cmdReader'.body.item = NoOrder
      BY <1>2 DEF CommandRunBegins, RunBegins, Earlier, Command!Readers, Command!TaggedBodies, Orders
    <2> QED
      BY <2>1, <2>2
  <1>3. CASE CommandBegun
    <2>1. ~cmdWriter'.item.before
      BY <1>3 DEF CommandBegun, Command!PublishBegin
    <2>2. cmdReader'.step = cmdReader.step /\ cmdReader'.body.item = cmdReader.body.item
      BY <1>3 DEF CommandBegun, Command!PublishBegin, Command!Moved, Command!Before,
                  Command!Readers, Command!TaggedBodies
    <2> QED
      BY <2>1, <2>2
  <1>4. CASE CommandWritten
    <2>1. ~cmdWriter'.item.before
      BY <1>4 DEF CommandWritten, Command!Publishing, Command!PublishStamp, Command!PublishBody,
                  Command!PublishEnd, Command!NoWriter, Command!Writers
    <2>2. cmdReader'.step = cmdReader.step /\ cmdReader'.body = cmdReader.body
      BY <1>4 DEF CommandWritten, Command!Publishing, Command!PublishStamp, Command!PublishBody,
                  Command!PublishEnd, Command!Moved, Command!Readers
    <2> QED
      BY <2>1, <2>2
  <1>5. CASE CommandWriterDies
    BY <1>5 DEF CommandWriterDies, Command!NoWriter
  <1>6. CASE CommandZeroed
    <2>1. /\ cmdWriter' = cmdWriter
          /\ cmdReader'.step = cmdReader.step /\ cmdReader'.body = cmdReader.body
      BY <1>6 DEF CommandZeroed, Command!Moved, Command!Readers
    <2> QED
      BY <2>1
  <1>7. CASE CommandAsked
    BY <1>7 DEF CommandAsked, Command!ReadBegin, Command!Readers
  <1>8. CASE CommandRead
    <2>1. cmdWriter' = cmdWriter
      BY <1>8 DEF CommandRead, Command!Reading, Command!ReadBefore, Command!ReadStamp,
                  Command!ReadBody, Command!ReadAfter
    <2>2. cmdReader'.step # "idle"
      BY <1>8 DEF CommandRead, Command!Reading, Command!ReadBefore, Command!ReadStamp,
                  Command!ReadBody, Command!ReadAfter, Command!NextTry, Command!NoCopy,
                  Command!Readers
    <2> QED
      BY <2>1, <2>2
  <1>9. CASE CommandDropped
    BY <1>9 DEF CommandDropped, Command!NoCopy
  <1>10. CASE CommandAges
    <2>1. /\ cmdWriter'.item = cmdWriter.item
          /\ cmdReader'.step = cmdReader.step /\ cmdReader'.body = cmdReader.body
      BY <1>10 DEF CommandAges, Command!GrowOlder, Command!Writers, Command!Readers
    <2> QED
      BY <2>1
  <1>11. CASE Unlink
    BY <1>11 DEF Unlink, Command!NoWriter, Command!NoCopy
  <1> QED
    BY <1>1, <1>2, <1>3, <1>4, <1>5, <1>6, <1>7, <1>8, <1>9, <1>10, <1>11 DEF CommandStep

LEMMA BegunKeepsOrders ==
  ASSUME CommandTypes, NEW order, Command!PublishBegin(0, order)
  PROVE  cmdBody'.item = cmdBody.item /\ cmdReader'.body.item = cmdReader.body.item
  BY DEF Command!PublishBegin, Command!Moved, Command!Before, CommandTypes, Command!Readers,
         Command!TaggedBodies

LEMMA GoalInvStep ==
  ASSUME TypeOK, HalInv, GoalInv, [Next]_vars
  PROVE  GoalInv'
  <1>0. CommandStep /\ CommandTypes
    BY CommandSteps DEF TypeOK
  <1> SUFFICES ASSUME deaths = 0, deaths' = 0
               PROVE  /\ ~cmdBody'.item.before
                      /\ cmdReader'.body.item.before => sawEnable' # "on"
                      /\ phase' \in Quiet => safeEntered' /\ cmdWriter'.step = "idle"
                      /\ Ordering("goal")' => mapped' = "named" /\ ~safeEntered'
                      /\ cmdBody'.item.kind = "goal" =>
                            mapped' = "named" /\ (~safeEntered' \/ Ordering("hold")')
    <2>1. deaths' = deaths \/ deaths' = deaths + 1
      BY DEF Next, Controller, L0, vars, Tick, Attach, AttachMap, Detach, OpenSafe, CycleBegin,
             ReadStep, CycleRead, CycleIdle, Arm, Write, EmergencyStop, PublishStep, Leave, HalClose,
             ControllerDies, L0Create, L0CreateFails, L0Size, L0Header, L0Zero, L0Activate,
             L0Receive, L0Input, L0ReadStep, L0Output, L0PublishStep, L0Send, L0Close, L0Dies,
             RemoveName, L0Gone
    <2>2. deaths' = 0 => deaths = 0
      BY <2>1 DEF TypeOK, L0Types
    <2> QED
      BY <1>0, <2>2, FreshOrders DEF GoalInv
  <1> USE DEF GoalInv, Ordering, TypeOK
  <1>1. CASE UNCHANGED <<cmdVars, ctlVars, sawEnable>>
    BY <1>1 DEF cmdVars, ctlVars
  <1>2. CASE Attach \/ AttachMap \/ Detach
    <2>1. /\ UNCHANGED <<cmdVars, safeEntered, sawEnable>> /\ phase \in Quiet
          /\ cmdBody.item.kind # "goal"
      BY <1>2 DEF Attach, AttachMap, Detach, Quiet, l0Vars
    <2> QED
      BY <2>1 DEF cmdVars
  <1>3. CASE CycleBegin \/ ReadStep \/ CycleIdle
    <2>1. UNCHANGED <<cmdVars, mapped, safeEntered, sawEnable>> /\ phase' \notin Quiet
      BY <1>3 DEF CycleBegin, ReadStep, CycleIdle, Quiet, ctlVars, l0Vars
    <2> QED
      BY <2>1 DEF cmdVars
  <1>4. CASE CycleRead \/ Arm \/ Leave
    <2>1. UNCHANGED <<cmdVars, mapped, sawEnable>> /\ phase' \notin Quiet
      BY <1>4 DEF CycleRead, Arm, Leave, Quiet, ctlVars, l0Vars
    <2>2. safeEntered' => safeEntered
      BY <1>4 DEF CycleRead, Arm, Leave
    <2> QED
      BY <2>1, <2>2 DEF cmdVars
  <1>5. CASE HalClose
    BY <1>5 DEF HalClose, cmdVars, l0Vars
  <1>6. CASE OpenSafe
    <2>1. /\ cmdWriter' = cmdWriter /\ cmdWriter.step = "idle" /\ phase' \notin Quiet
          /\ cmdBody.item.kind # "goal"
      BY <1>6 DEF OpenSafe, RunBegins, Quiet
    <2>2. ~cmdBody'.item.before /\ cmdBody'.item.kind = cmdBody.item.kind
      BY <1>0, <1>6, <2>1
         DEF OpenSafe, RunBegins, Earlier, CommandTypes, Command!TaggedBodies, Orders
    <2>3. sawEnable' # "on"
      BY <1>6 DEF OpenSafe, RunBegins
    <2> QED
      BY <2>1, <2>2, <2>3
  <1>7. CASE Write
    <2>0. phase' \notin Quiet
      BY <1>7 DEF Write, Quiet
    <2>1. CASE mapped = "named"
      <3>1. /\ cmdWriter'.step = "stamp" /\ cmdWriter'.item.kind = "goal"
            /\ UNCHANGED <<mapped, safeEntered, sawEnable>>
            /\ ~safeEntered
        BY <1>7, <2>1 DEF Write, Publish, Command!PublishBegin, HalInv, l0Vars
      <3>2. Command!PublishBegin(0, [kind |-> "goal", before |-> FALSE])
        BY <1>7, <2>1 DEF Write, Publish
      <3>3. /\ cmdBody'.item = cmdBody.item /\ cmdReader'.body.item = cmdReader.body.item
        BY <1>0, <3>2, BegunKeepsOrders
      <3> QED
        BY <2>0, <2>1, <3>1, <3>3
    <2>2. CASE mapped # "named"
      BY <1>7, <2>0, <2>2 DEF Write, Publish, cmdVars, l0Vars
    <2> QED
      BY <2>1, <2>2
  <1>8. CASE EmergencyStop
    <2>0. phase' \notin Quiet
      BY <1>8 DEF EmergencyStop, Quiet
    <2>1. CASE mapped = "named"
      <3>1. /\ cmdWriter'.step = "stamp" /\ cmdWriter'.item.kind = "hold"
            /\ UNCHANGED <<mapped, sawEnable>>
        BY <1>8, <2>1 DEF EmergencyStop, Publish, Command!PublishBegin, l0Vars
      <3>2. Command!PublishBegin(0, [kind |-> "hold", before |-> FALSE])
        BY <1>8, <2>1 DEF EmergencyStop, Publish
      <3>3. /\ cmdBody'.item = cmdBody.item /\ cmdReader'.body.item = cmdReader.body.item
        BY <1>0, <3>2, BegunKeepsOrders
      <3> QED
        BY <2>0, <2>1, <3>1, <3>3
    <2>2. CASE mapped # "named"
      BY <1>8, <2>0, <2>2 DEF EmergencyStop, Publish, cmdVars, l0Vars
    <2> QED
      BY <2>1, <2>2
  <1>9. CASE PublishStep
    <2>0. /\ UNCHANGED <<mapped, safeEntered, sawEnable>>
          /\ phase' \in Quiet => phase \in Quiet
          /\ cmdWriter.step # "idle" /\ phase \notin Quiet
      BY <1>9 DEF PublishStep, Quiet, l0Vars, Command!Publishing, Command!PublishStamp,
                  Command!PublishBody, Command!PublishEnd
    <2>1. cmdReader'.body = cmdReader.body
      BY <1>0, <1>9 DEF PublishStep, Command!Publishing, Command!PublishStamp, Command!PublishBody,
                        Command!PublishEnd, Command!Moved, CommandTypes, Command!Readers
    <2>2. CASE Command!PublishStamp
      <3>1. /\ cmdWriter.step = "stamp" /\ cmdWriter'.step = "body"
            /\ cmdWriter'.item = cmdWriter.item /\ cmdBody' = cmdBody
        BY <1>0, <2>2 DEF Command!PublishStamp, CommandTypes, Command!Writers
      <3> QED
        BY <2>0, <2>1, <3>1
    <2>3. CASE Command!PublishBody
      <3>1. /\ cmdWriter.step = "body" /\ cmdWriter'.step = "end"
            /\ cmdBody'.item = cmdWriter.item
        BY <1>0, <2>3 DEF Command!PublishBody, CommandTypes, Command!Writers
      <3> QED
        BY <2>0, <2>1, <3>1
    <2>4. CASE Command!PublishEnd(NoOrder)
      <3>1. cmdWriter.step = "end" /\ cmdWriter'.step = "idle" /\ cmdBody' = cmdBody
        BY <2>4 DEF Command!PublishEnd, Command!NoWriter
      <3> QED
        BY <2>0, <2>1, <3>1
    <2> QED
      BY <1>9, <2>2, <2>3, <2>4 DEF PublishStep, Command!Publishing
  <1>10. CASE ControllerDies \/ L0Dies
    BY <1>10 DEF ControllerDies, L0Dies
  <1>11. CASE L0Zero
    <2>1. /\ UNCHANGED <<cmdWriter, ctlVars, sawEnable>>
          /\ cmdBody'.item = NoOrder
      BY <1>11 DEF L0Zero, ZeroRegion, Command!Zeroed
    <2>2. cmdReader'.body = cmdReader.body
      BY <1>0, <1>11 DEF L0Zero, ZeroRegion, Command!Moved, CommandTypes, Command!Readers
    <2> QED
      BY <2>1, <2>2 DEF ctlVars, NoOrder
  <1>12. CASE L0Input
    <2>1. /\ UNCHANGED <<cmdWriter, cmdBody, ctlVars>>
          /\ cmdReader.step = "idle"
      BY <1>12 DEF L0Input, Command!ReadBegin
    <2>2. cmdReader'.body = cmdReader.body
      BY <1>0, <1>12 DEF L0Input, Command!ReadBegin, CommandTypes, Command!Readers
    <2> QED
      BY <2>1, <2>2 DEF ctlVars, NoOrder
  <1>13. CASE L0ReadStep
    <2>1. UNCHANGED <<cmdWriter, cmdBody, ctlVars, sawEnable>>
      BY <1>13 DEF L0ReadStep, Command!Reading, Command!ReadBefore, Command!ReadStamp,
                   Command!ReadBody, Command!ReadAfter, l0Vars
    <2>2. \/ cmdReader'.body = cmdReader.body
          \/ cmdReader'.body = cmdBody
          \/ ~cmdReader'.body.item.before
      <3>1. ~Command!NextTry(NoOrder).body.item.before
        BY DEF Command!NextTry, Command!NoCopy, NoOrder
      <3>2. CASE Command!ReadBefore(NoOrder) \/ Command!ReadAfter(NoOrder)
        BY <1>0, <3>1, <3>2 DEF Command!ReadBefore, Command!ReadAfter, CommandTypes, Command!Readers
      <3>3. CASE Command!ReadStamp \/ Command!ReadBody
        BY <1>0, <3>3 DEF Command!ReadStamp, Command!ReadBody, CommandTypes, Command!Readers
      <3> QED
        BY <1>13, <3>2, <3>3 DEF L0ReadStep, Command!Reading
    <2> QED
      BY <2>1, <2>2 DEF ctlVars
  <1>14. CASE L0Output
    <2>1. /\ UNCHANGED <<cmdWriter, cmdBody, ctlVars>> /\ sawEnable' # "on"
      BY <1>14 DEF L0Output
    <2> QED
      BY <2>1 DEF ctlVars
  <1>15. CASE Tick
    <2>1. UNCHANGED <<cmdBody, mapped, safeEntered, phase, sawEnable>>
      BY <1>15 DEF Tick, Command!GrowOlder, l0Vars
    <2>2. /\ cmdWriter'.step = cmdWriter.step /\ cmdWriter'.item = cmdWriter.item
          /\ cmdReader'.body = cmdReader.body
      BY <1>0, <1>15 DEF Tick, Command!GrowOlder, CommandTypes, Command!Readers, Command!Writers
    <2> QED
      BY <2>1, <2>2
  <1>16. CASE Unlink /\ UNCHANGED safeEntered
    <2>1. /\ cmdWriter'.step = "idle" /\ cmdBody'.item = NoOrder /\ cmdReader'.body.item = NoOrder
      BY <1>16 DEF Unlink, Command!NoWriter, Command!NoCopy, Command!Zeroed
    <2>2. phase' \in Quiet => phase \in Quiet
      BY <1>16 DEF Unlink, Quiet
    <2> QED
      BY <1>16, <2>1, <2>2 DEF NoOrder
  <1>17. CASE L0Create \/ L0CreateFails \/ L0Size \/ L0Header \/ L0Receive \/ L0PublishStep
              \/ L0Send \/ L0Activate \/ L0Close \/ RemoveName
    <2>1. \/ UNCHANGED <<cmdVars, ctlVars, sawEnable>>
          \/ Unlink /\ UNCHANGED safeEntered
      BY <1>17 DEF L0Create, L0Size, L0Header, L0Receive, L0PublishStep, L0Send, L0Activate,
                   L0CreateFails, L0Close, RemoveName, L0Gone
    <2> QED
      BY <1>1, <1>16, <2>1
  <1> QED
    BY <1>1, <1>2, <1>3, <1>4, <1>5, <1>6, <1>7, <1>8, <1>9, <1>10, <1>11, <1>12, <1>13, <1>14,
       <1>15, <1>17 DEF Next, Controller, L0, vars, l0Vars

-----------------------------------------------------------------------------
LEMMA InitInv == Init => IInv
  <1> SUFFICES ASSUME Init PROVE IInv
    OBVIOUS
  <1>1. CommandTypes /\ FeedbackTypes
    BY CommandValues, FeedbackValues
       DEF Init, CommandTypes, FeedbackTypes, Command!NoCopy, Feedback!NoCopy
  <1>2. RegionTypes /\ ControllerTypes /\ L0Types
    <2>1. 0 \in 0 .. 1 /\ 0 \in 0 .. MaxRegions /\ 0 \in 0 .. MaxDeaths
      BY ConstantTypes
    <2>2. RegionTypes
      BY <2>1 DEF Init, RegionTypes
    <2>3. ControllerTypes
      BY DEF Init, ControllerTypes, Phases
    <2>4. L0Types
      BY <2>1 DEF Init, IghInit, L0Types, L0Phases
    <2> QED
      BY <2>2, <2>3, <2>4
  <1>3. /\ cmdReader.step = "idle" /\ fbkReader.step = "idle" /\ cmdWriter.step = "idle"
        /\ fbkWriter.step = "idle" /\ cmdWriter.item = NoOrder
        /\ cmdStamp.ago = 2 /\ cmdBody.ago = 2 /\ cmdBody.item = NoOrder
        /\ cmdReader.body.item = NoOrder
        /\ fbkStamp.ago = 2 /\ fbkBody.ago = 2 /\ fbkBody.item = "none"
        /\ fbkReader.body.item = "none"
        /\ fbkStamp.age = MaxFeedbackAge + 2 /\ fbkReader.stamp.age = MaxFeedbackAge + 2
    BY DEF Init, Command!NoCopy, Command!NoWriter, Feedback!NoCopy, Feedback!NoWriter
  <1>4. TriesInv /\ RegionInv
    BY <1>3 DEF Init, TriesInv, Copying, RegionInv, Cycling
  <1>5. HalInv /\ BusInv
    BY DEF Init, IghInit, HalInv, Quiet, EnableTellsArmed, BusInv, Cycling, IdleMasterIsFree,
           CyclesAreClosed
  <1>6. CommandInv /\ FeedbackInv /\ AgeInv
    BY <1>3, ConstantTypes DEF Init, CommandInv, WillFit, Whole, FeedbackInv, AgeInv
  <1>7. GoalInv
    BY <1>3 DEF Init, GoalInv, NoOrder, Ordering, Quiet
  <1> QED
    BY <1>1, <1>2, <1>4, <1>5, <1>6, <1>7 DEF IInv, TypeOK

LEMMA StepInv == IInv /\ [Next]_vars => IInv'
  <1> SUFFICES ASSUME IInv, [Next]_vars PROVE IInv'
    OBVIOUS
  <1>1. CommandStep /\ FeedbackStep
    BY CommandSteps, FeedbackSteps
  <1>2. TypeOK'
    BY <1>1, CommandTypesStep, FeedbackTypesStep, RegionTypesStep, ControllerTypesStep, L0TypesStep
       DEF IInv, TypeOK
  <1>3. TriesInv'
    BY <1>1, CommandTypesStep, FeedbackTypesStep DEF IInv, TypeOK, TriesInv
  <1>4. RegionInv' /\ HalInv' /\ BusInv'
    BY RegionInvStep, HalInvStep, BusInvStep DEF IInv
  <1>5. CommandInv' /\ FeedbackInv' /\ AgeInv'
    BY <1>1, CommandInvStep, FeedbackInvStep, AgeStep DEF IInv, TypeOK
  <1>6. GoalInv'
    BY GoalInvStep DEF IInv
  <1> QED
    BY <1>2, <1>3, <1>4, <1>5, <1>6 DEF IInv

\* The inductive invariant: what the two processes know of each other.
THEOREM Invariance == Spec => []IInv
  <1> QED
    BY InitInv, StepInv, PTL DEF Spec

\* Types; the enable line falls with its run of the HAL, the reservation of the
\* EtherCAT master and a region that can be used with their L0 process unless that
\* is killed, a bus cycle with its send.  A create_owner() that fails may leave a
\* name, but one that nobody can attach to.
THEOREM OwnedToTheEnd == Spec => []NothingOutlivesItsOwner
  <1>1. IInv => NothingOutlivesItsOwner
    BY DEF IInv, RegionInv, HalInv, BusInv, NamesHaveAnOwner, NothingOutlivesItsOwner
  <1> QED
    BY Invariance, <1>1, PTL

\* The sequence lock: what L0 drives, and what the HAL takes for feedback, is one
\* publication and no mixture, unless a writer of this direction died in one.
THEOREM WholeSnapshots == Spec => SnapshotsAreWhole
  <1>1. IInv =>
          (/\ l0 = "reading" /\ Driven # "nothing" /\ l0' = "publishing" /\ "command" \notin torn
              => cmdReader.stamp.ago = cmdReader.body.ago
           /\ phase = "reading" /\ phase' = "act" /\ fbkReader.step = "done"
              /\ "feedback" \notin torn
              => fbkReader.stamp.ago = fbkReader.body.ago)
    <2> SUFFICES ASSUME IInv
                 PROVE  /\ Driven # "nothing" /\ "command" \notin torn
                           => cmdReader.stamp.ago = cmdReader.body.ago
                        /\ fbkReader.step = "done" /\ "feedback" \notin torn
                           => fbkReader.stamp.ago = fbkReader.body.ago
      OBVIOUS
    <2>1. Driven # "nothing" => /\ cmdReader.step = "done" /\ cmdReader.body.item.kind # "none"
                                /\ cmdReader.stamp.age <= Lease
      BY DEF Driven
    <2>2. cmdReader.stamp.age <= Lease => cmdReader.stamp.age # Lease + 1
      BY ConstantTypes
    <2> QED
      BY <2>1, <2>2 DEF IInv, CommandInv, FeedbackInv, Whole
  <1> QED
    BY Invariance, <1>1, PTL DEF SnapshotsAreWhole

\* What is driven rests on a receive that has asked every slave of the bus.
THEOREM BusIsAskedFirst == Spec => DrivesOnABusThatTold
  <1>1. IInv => (l0 = "reading" /\ l0' = "publishing" /\ Driven # "nothing" => told = Slaves)
    BY DEF IInv, BusInv
  <1> QED
    BY Invariance, <1>1, PTL DEF DrivesOnABusThatTold

\* Without deaths, a run of the controller that has raised the enable line finds
\* no goal of an earlier run driven: the hold frame of its stop has replaced it.
THEOREM OldGoalsAreReplaced == Spec => OldGoalsAreNotDriven
  <1>1. IInv => (l0 = "reading" /\ l0' = "publishing" /\ Driven = "goal"
                   => ~(cmdReader.body.item.before /\ sawEnable = "on") \/ deaths > 0)
    BY DEF IInv, TypeOK, L0Types, GoalInv
  <1> QED
    BY Invariance, <1>1, PTL DEF OldGoalsAreNotDriven

\* Only the read that ends it, or a death, takes the controller out of its read.
LEMMA ReadsEnd ==
  ASSUME [Next]_vars, phase = "reading", phase' # "reading", phase' # "off"
  PROVE  CycleRead
  BY DEF Next, Controller, L0, vars, ctlVars, Tick, Attach, AttachMap, Detach, OpenSafe, CycleBegin,
         ReadStep, CycleRead, CycleIdle, Arm, Write, EmergencyStop, PublishStep, Leave, HalClose,
         ControllerDies, L0Create, L0CreateFails, L0Size, L0Header, L0Zero, L0Activate,
         L0Receive, L0Input, L0ReadStep, L0Output, L0PublishStep, L0Send, L0Close, L0Dies,
         RemoveName, L0Gone, Unlink

\* An armed controller whose feedback has stopped goes through no further cycle
\* without a fault, whatever it copies and however late it is.
THEOREM StoppedFeedbackIsNoticed == Spec => DeadFeedbackIsAFault
  <1>1. IInv /\ [Next]_vars =>
          (/\ armed /\ phase = "reading" /\ phase' # "reading" /\ phase' # "off"
           /\ MaxFeedbackAge + 2 = IF mapped = "orphan" THEN orphan.age ELSE fbkStamp.age
           => barred')
    <2> SUFFICES ASSUME IInv, [Next]_vars, armed, phase = "reading", phase' # "reading",
                        phase' # "off",
                        MaxFeedbackAge + 2 = IF mapped = "orphan" THEN orphan.age ELSE fbkStamp.age
                 PROVE  barred'
      OBVIOUS
    <2>1. CycleRead
      BY ReadsEnd
    <2>2. ~Acceptable(MaxFeedbackAge + 2)
      BY ConstantTypes DEF Acceptable
    <2>3. mapped # "orphan" => fbkReader.stamp.age = MaxFeedbackAge + 2
      <3>1. FeedbackTypes /\ AgeInv
        BY DEF IInv, TypeOK
      <3> QED
        BY <3>1, FeedbackAgeTypes, ConstantTypes DEF AgeInv
    <2>4. ~ReadOutcome.got
      BY <2>2, <2>3 DEF ReadOutcome
    <2> QED
      BY <2>1, <2>4 DEF CycleRead
  <1> QED
    BY Invariance, <1>1, PTL DEF Spec, DeadFeedbackIsAFault
====
