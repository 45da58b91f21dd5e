---- MODULE Snapshot ----
(***************************************************************************)
(* One direction of SharedMotorRegion: publish_command / read_command and,  *)
(* with the same protocol, publish_feedback / read_feedback.                *)
(*                                                                          *)
(* One action is one access to the shared words, of which two stand for     *)
(* all: `stamp` (the generation and the times) and `body` (the joints).     *)
(* The sequence number is kept as its parity, and what a reader learns by   *)
(* comparing it with the one before as reader.moved: 2^31 publications      *)
(* within one attempt are not considered.  The fences make the order of the *)
(* relaxed accesses between them invisible.                                 *)
(***************************************************************************)
EXTENDS Naturals

CONSTANTS
    Attempts,       \* kSnapshotReadAttempts
    Bodies,         \* what the joints can be
    MaxAge          \* the ages of stamps saturate here

VARIABLES
    odd,            \* parity of the sequence number in the region
    stamp, body,    \* words of the region; `ago` is how many publications ago they were written
    writer,         \* publish_...(): the step, the sequence number it loaded, its input
    reader          \* read_...(): the step, the attempt, the copy

Agos == 0 .. 2      \* all that is older than the last but one is the same

Stamps == [ago : Agos, age : 0 .. MaxAge]
TaggedBodies == [ago : Agos, item : Bodies]
Writers == [step : {"idle", "stamp", "body", "end"}, odd : BOOLEAN, age : 0 .. MaxAge, item : Bodies]
Readers == [step : {"idle", "before", "stamp", "body", "after", "done", "failed"},
            tries : 0 .. Attempts, moved : BOOLEAN, stamp : Stamps, body : TaggedBodies]

Moved == [reader EXCEPT !.moved = @ \/ reader.step \in {"stamp", "body", "after"}]
NoCopy(nothing) == [step |-> "idle", tries |-> 0, moved |-> FALSE,
                    stamp |-> [ago |-> 2, age |-> MaxAge], body |-> [ago |-> 2, item |-> nothing]]
NoWriter(nothing) == [step |-> "idle", odd |-> FALSE, age |-> MaxAge, item |-> nothing]

\* What the constructor stores: an even sequence number and generation 0.
Zeroed(nothing) ==
    /\ odd' = FALSE
    /\ stamp' = [ago |-> 2, age |-> MaxAge] /\ body' = [ago |-> 2, item |-> nothing]

Before(word) == [word EXCEPT !.ago = IF @ < 2 THEN @ + 1 ELSE 2]

PublishBegin(age, item) ==
    /\ writer.step = "idle"
    /\ writer' = [step |-> "stamp", odd |-> odd, age |-> age, item |-> item]
    /\ odd' = ~odd
    /\ stamp' = Before(stamp) /\ body' = Before(body)
    /\ reader' = [Moved EXCEPT !.stamp = Before(@), !.body = Before(@)]

PublishStamp ==
    /\ writer.step = "stamp"
    /\ stamp' = [ago |-> 0, age |-> writer.age]
    /\ writer' = [writer EXCEPT !.step = "body"]
    /\ UNCHANGED <<odd, body, reader>>

PublishBody ==
    /\ writer.step = "body"
    /\ body' = [ago |-> 0, item |-> writer.item]
    /\ writer' = [writer EXCEPT !.step = "end"]
    /\ UNCHANGED <<odd, stamp, reader>>

PublishEnd(nothing) ==
    /\ writer.step = "end"
    /\ odd' = writer.odd /\ reader' = Moved
    /\ writer' = NoWriter(nothing)
    /\ UNCHANGED <<stamp, body>>

ReadBegin ==
    /\ reader.step = "idle"
    /\ reader' = [reader EXCEPT !.step = "before", !.tries = 0]
    /\ UNCHANGED <<odd, stamp, body, writer>>

\* What was copied is written over or not looked at.
NextTry(nothing) ==
    [NoCopy(nothing) EXCEPT !.step = IF reader.tries + 1 < Attempts THEN "before" ELSE "failed",
                            !.tries = reader.tries + 1]

ReadBefore(nothing) ==
    /\ reader.step = "before"
    /\ reader' = IF odd THEN NextTry(nothing) ELSE [reader EXCEPT !.step = "stamp", !.moved = FALSE]
    /\ UNCHANGED <<odd, stamp, body, writer>>

ReadStamp ==
    /\ reader.step = "stamp"
    /\ reader' = [reader EXCEPT !.step = "body", !.stamp = stamp]
    /\ UNCHANGED <<odd, stamp, body, writer>>

ReadBody ==
    /\ reader.step = "body"
    /\ reader' = [reader EXCEPT !.step = "after", !.body = body]
    /\ UNCHANGED <<odd, stamp, body, writer>>

\* Mutant of ReadAfter: the sequence number is not compared.
ReadAfterTrusting(nothing) ==
    /\ reader.step = "after"
    /\ reader' = [reader EXCEPT !.step = "done"]
    /\ UNCHANGED <<odd, stamp, body, writer>>

ReadAfter(nothing) ==
    /\ reader.step = "after"
    /\ reader' = IF reader.moved THEN NextTry(nothing) ELSE [reader EXCEPT !.step = "done"]
    /\ UNCHANGED <<odd, stamp, body, writer>>

Publishing(nothing) == PublishStamp \/ PublishBody \/ PublishEnd(nothing)
Reading(nothing) == ReadBefore(nothing) \/ ReadStamp \/ ReadBody \/ ReadAfter(nothing)

\* A tick of the clock.
Older(age) == IF age < MaxAge THEN age + 1 ELSE age
GrowOlder ==
    /\ stamp' = [stamp EXCEPT !.age = Older(@)]
    /\ writer' = [writer EXCEPT !.age = Older(@)]
    /\ reader' = [reader EXCEPT !.stamp.age = Older(@)]
    /\ UNCHANGED <<odd, body>>
====
