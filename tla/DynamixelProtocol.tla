---- MODULE DynamixelProtocol ----
(***************************************************************************)
(* DynamixelProtocol2: the packets of each transaction, and the feedback    *)
(* frame that is put together from the status packets of a Bulk Read.       *)
(*                                                                          *)
(* A packet is named by what it does: all joints fit into one Sync Write    *)
(* and one Bulk Read.  A status packet arrives in two halves; `old` says    *)
(* that it answers a request before the last one.  valid_ is TRUE: the      *)
(* composition root refuses other profiles.  With a valid profile Sync      *)
(* Writes are used only, which are not answered.                            *)
(***************************************************************************)
EXTENDS Naturals, Sequences, FiniteSets

CONSTANTS
    JointCount      \* kJointCount

ASSUME ProtocolAssumption == JointCount \in Nat \ {0}

Joints == 1 .. JointCount

VARIABLES
    buffer,         \* bytes in parser_, in halves of status packets
    seen,           \* seen_mask_
    faults,         \* fault_bits_
    sample,         \* the status packet position_[j] comes from
    frame           \* the last SensorFrame of the session: its samples and its fault_bits

protocolVars == <<buffer, seen, faults, sample, frame>>

Packets == {"torqueOn", "torqueOff", "goal", "bulkRead"}

\* "invalid": another mode, or a position no register of the profile can hold.
Commands == {"position", "safeStop", "invalid"}
Encodable == {"position", "safeStop"}
Statuses == [joint : Joints, error : BOOLEAN, old : BOOLEAN]
Half(s, p) == [status |-> s, part |-> p]
Halves == [status : Statuses, part : {"head", "tail"}]
Samples == [got : BOOLEAN, error : BOOLEAN, old : BOOLEAN]
NoSample == [got |-> FALSE, error |-> FALSE, old |-> FALSE]
NoSamples == [j \in Joints |-> NoSample]
NoFrame == [ready |-> FALSE, samples |-> NoSamples, faults |-> {}]

EncodeStartup == <<"bulkRead">>
EncodeArm == <<"torqueOn", "bulkRead">>
EncodeSafeStop == <<"torqueOff">>

\* Mutant of EncodeCommand: no feedback is asked for.
EncodeCommandOnly(command) == IF command = "safeStop" THEN EncodeSafeStop ELSE <<"goal">>

\* Of an encodable command; only a position asks for feedback.
EncodeCommand(command) ==
    IF command = "safeStop" THEN EncodeSafeStop ELSE <<"goal", "bulkRead">>

ProtocolInit ==
    /\ buffer = <<>> /\ seen = {} /\ faults = {}
    /\ sample = NoSamples /\ frame = NoFrame

ProtocolReset ==
    /\ buffer' = <<>> /\ seen' = {} /\ faults' = {}
    /\ sample' = NoSamples /\ frame' = NoFrame

\* pop(): bytes in front of a header are skipped; the length of a packet whose
\* end was lost reaches into the next one, the CRC fails, and the search goes on
\* behind the first header.  So the packets are found that are whole: here the
\* positions of the tails behind their own head.
Popped(b) == {i \in 2 .. Len(b) : b[i].part = "tail" /\ b[i - 1] = Half(b[i].status, "head")}

\* An incomplete packet waits.
LeftBehind(b) == IF b # <<>> /\ b[Len(b)].part = "head" THEN <<b[Len(b)]>> ELSE <<>>

Complete(joints) == joints = Joints

\* Mutant of SeenAfter: the mask is kept.
SeenKept(joints) == joints

\* The mask starts again behind a frame.
SeenAfter(joints) == IF Complete(joints) THEN {} ELSE joints

\* decode_feedback(): push never fails, as what pop leaves behind is shorter than
\* a packet and the buffer holds two.
DecodeFeedback(chunk, status) ==
    LET b         == buffer \o chunk
        ends(j)   == {i \in Popped(b) : b[i].status.joint = j}
        newest(j) == b[CHOOSE i \in ends(j) : \A k \in ends(j) : k <= i].status
        samples   == [j \in Joints |->
                        IF ends(j) = {} THEN sample[j]
                        ELSE [got |-> TRUE, error |-> newest(j).error, old |-> newest(j).old]]
        joints    == seen \cup {j \in Joints : ends(j) # {}}
        bits      == faults \cup {j \in Joints : \E i \in ends(j) : b[i].status.error}
    IN  /\ status = IF Complete(joints) THEN "Ok" ELSE "NotReady"
        /\ buffer' = LeftBehind(b)
        /\ sample' = samples
        /\ seen' = SeenAfter(joints)
        /\ IF Complete(joints)
           THEN faults' = {} /\ frame' = [ready |-> TRUE, samples |-> samples, faults |-> bits]
           ELSE faults' = bits /\ UNCHANGED frame
====
