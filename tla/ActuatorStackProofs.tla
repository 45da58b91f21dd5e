---- MODULE ActuatorStackProofs ----
(***************************************************************************)
(* Proofs of the safety properties of ActuatorStack.tla.                    *)
(*                                                                          *)
(* None of them is inductive.  That the two ends do not talk at once, and   *)
(* that a frame is of one round of answers, both rest on the silence before *)
(* a transaction: it is only sent when the round before has become a frame  *)
(* or nothing has been asked, so that link, parser and servos hold no       *)
(* answer then.  IInv says where answers can be meanwhile, and what the     *)
(* packets that wait can be; the theorems follow from it.                   *)
(***************************************************************************)
EXTENDS ActuatorStack, SequenceTheorems, TLAPS

\* What is said of the packets that wait, q being Queued.
OnlyStops(q) == \A i \in 1 .. Len(q) : q[i] = "torqueOff"
OnlyStopsBehind(q) ==
    \A i \in 1 .. Len(q) : q[i] = "bulkRead" => \A k \in i + 1 .. Len(q) : q[k] = "torqueOff"
EndsOn(q) ==
    \E i \in 1 .. Len(q) : q[i] = "torqueOn" /\ \A k \in i + 1 .. Len(q) : q[k] # "torqueOff"
Waits(q, p) == \E i \in 1 .. Len(q) : q[i] = p

\* The link is open exactly while the loop runs; an armed loop has left the
\* safe state, a stopped one is in it.
PhaseInv ==
    /\ linkOpen = open
    /\ open <=> phase # "stopped"
    /\ ~open => tx = <<>> /\ rx = <<>>
    /\ engineArmed /\ phase # "leave" => ~safeEntered
    /\ phase = "stopped" => safeEntered

\* A batch with a torque-off is a stop.
Pure(q) == Waits(q, "torqueOff") => OnlyStops(q)

\* Half duplex, over Queued; what the link retains is of one batch.
CollideInv == OnlyStopsBehind(Queued) /\ (due # {} => OnlyStops(Queued)) /\ Pure(tx)

\* No answer is under way, and none has been asked for.
Unasked == ~Waits(Queued, "bulkRead") /\ due = {} /\ rx = <<>> /\ buffer = <<>> /\ seen = {}

\* While the link is open: a torque-on and a goal have their Bulk Read behind them,
\* all answers to the one before have been taken when it is queued, and a torque-off
\* comes from a stop, or is written when nothing has been asked.
TransactionInv ==
    open =>
        /\ Waits(Queued, "bulkRead") => rx = <<>> /\ buffer = <<>> /\ seen = {}
        /\ Waits(Queued, "torqueOn") \/ Waits(Queued, "goal") => Waits(Queued, "bulkRead")
        /\ Waits(Queued, "torqueOff") => fault \/ disarm \/ phase = "leave" \/ Unasked

\* Halves of one servo are the two halves of one answer, one behind the other.
Paired(units) ==
    \A i, k \in 1 .. Len(units) :
        i < k /\ units[i].status.joint = units[k].status.joint =>
            /\ k = i + 1
            /\ units[i] = Half(units[k].status, "head") /\ units[k].part = "tail"

\* Halves of the last request, of servos not in `joints`.
Fresh(units, joints) ==
    \A i \in 1 .. Len(units) :
        ~units[i].status.old /\ units[i].status.joint \notin joints

\* While the link is open: what has arrived answers the last request, and no servo
\* is twice among those that are to answer, in hand and taken.
RoundInv ==
    open =>
        /\ Paired(buffer \o rx) /\ Fresh(buffer \o rx, seen \cup due)
        /\ seen \cap due = {}
        /\ \A j \in seen : sample[j].got /\ ~sample[j].old
        /\ faults = {j \in seen : sample[j].error}

\* A frame holds a sample of every servo, each fresh when the frame was made.
FrameInv ==
    frame.ready =>
        /\ \A j \in Joints : frame.samples[j].got /\ ~frame.samples[j].old
        /\ frame.faults = {j \in Joints : frame.samples[j].error}

\* The loop may come to send a transaction before it reads a frame again ...
MaySend ==
    /\ ~fault /\ ~disarm
    /\ \/ phase = "act" /\ engineArmed
       \/ phase \in {"read", "act"} /\ ~engineArmed /\ feedbackReady

\* ... only while nothing is under way in either direction.
Silent == Queued = <<>> /\ due = {} /\ rx = <<>> /\ buffer = <<>> /\ seen = {}
SilenceInv == MaySend => Silent

\* The packets of a position command.
Goal == EncodeCommand("position")

\* A stop, over Queued.
StopInv ==
    safeEntered /\ ~stopLost =>
        ~EndsOn(Queued) /\ (torque # {} => Waits(Queued, "torqueOff"))

IInv ==
    /\ TypeOK /\ PhaseInv /\ CollideInv /\ TransactionInv
    /\ RoundInv /\ FrameInv /\ SilenceInv /\ StopInv

-----------------------------------------------------------------------------
(* The packets that wait. *)

\* It does not matter which packets were put together first.
LEMMA JoinPackets ==
    ASSUME NEW s \in Seq(Packets), NEW t \in Seq(Packets), NEW u \in Seq(Packets)
    PROVE  (s \o t) \o u = s \o (t \o u)
  BY ConcatAssociative

\* The kernel takes some of the packets: none is lost and none overtakes another.
LEMMA SentKeeps ==
    ASSUME wire \in Seq(Packets), NEW packets \in Seq(Packets), NEW n \in 0 .. Len(packets),
           Sent(packets, n)
    PROVE  /\ wire' \in Seq(Packets) /\ tx' \in Seq(Packets)
           /\ Len(tx') = Len(packets) - n
           /\ Queued' = wire \o packets
           /\ Pure(packets) => Pure(tx')
  <1> DEFINE a == SubSeq(packets, 1, n)
             b == SubSeq(packets, n + 1, Len(packets))
  <1>1. Len(packets) \in Nat /\ \A i \in 1 .. Len(packets) : packets[i] \in Packets
    BY LenProperties, ElementOfSeq
  <1>2. a \in Seq(Packets)
    BY <1>1, SubSeqProperties
  <1>3. b \in Seq(Packets) /\ Len(b) = Len(packets) - n
    BY <1>1, SubSeqProperties
  <1>4. a \o b = packets
    <2>1. /\ 1 \in 1 .. Len(packets) + 1 /\ n \in 1 - 1 .. Len(packets)
          /\ Len(packets) \in n .. Len(packets)
      BY <1>1
    <2>2. SubSeq(packets, 1, n) \o SubSeq(packets, n + 1, Len(packets))
            = SubSeq(packets, 1, Len(packets))
      BY <2>1, ConcatAdjacentSubSeq
    <2> QED
      BY <2>2, SubSeqFull
  <1>7. Pure(packets) => Pure(b)
    <2>1. \A i \in 1 .. Len(b) : n + i \in 1 .. Len(packets) /\ b[i] = packets[n + i]
      BY <1>1, <1>3
    <2> HIDE DEF a, b
    <2> QED
      BY <2>1 DEF Pure, Waits, OnlyStops
  <1> HIDE DEF a, b
  <1>5. (wire \o a) \o b = wire \o packets
    BY <1>2, <1>3, <1>4, JoinPackets, ZenonT(30)
  <1>6. wire \o a \in Seq(Packets)
    BY <1>2, ConcatProperties
  <1> QED
    BY <1>2, <1>3, <1>5, <1>6, <1>7 DEF Sent, Queued, a, b

\* A read leaves the packets in their order, whatever of them it hands to the kernel.
LEMMA ReceiveKeeps ==
    ASSUME wire \in Seq(Packets), tx \in Seq(Packets), rx \in Seq(Halves),
           NEW size \in Nat, NEW status, LinkReceive(size, status)
    PROVE  /\ wire' \in Seq(Packets) /\ tx' \in Seq(Packets) /\ Len(tx') <= Len(tx)
           /\ Queued' = Queued /\ linkOpen' = linkOpen /\ (Pure(tx) => Pure(tx'))
           /\ rx' = SubSeq(rx, size + 1, Len(rx))
           /\ size = 0 => rx' = rx /\ status # "Ok"
           /\ size # 0 => size \in 1 .. Len(rx)
  <1>1. Len(tx) \in Nat /\ Len(rx) \in Nat
    BY LenProperties
  <1>2. /\ wire' \in Seq(Packets) /\ tx' \in Seq(Packets) /\ Len(tx') <= Len(tx)
        /\ Queued' = Queued /\ (Pure(tx) => Pure(tx'))
    <2>1. CASE UNCHANGED <<tx, wire>>
      BY <2>1, <1>1 DEF Queued
    <2>2. CASE \E n \in 0 .. Len(tx) : Sent(tx, n)
      <3>1. PICK n \in 0 .. Len(tx) : Sent(tx, n)
        BY <2>2
      <3>2. /\ wire' \in Seq(Packets) /\ tx' \in Seq(Packets) /\ Len(tx') = Len(tx) - n
            /\ Queued' = wire \o tx /\ (Pure(tx) => Pure(tx'))
        BY <3>1, SentKeeps
      <3> QED
        BY <3>2, <1>1 DEF Queued
    <2> QED
      BY <2>1, <2>2, <1>1 DEF LinkReceive
  <1>3. size = 0 => rx' = rx
    BY SubSeqFull DEF LinkReceive
  <1>4. size = 0 => status # "Ok"
    BY LinkAssumption, <1>1 DEF LinkReceive, IdleStatus
  <1>5. size # 0 => size \in 1 .. Len(rx)
    BY <1>1 DEF LinkReceive
  <1> QED
    BY <1>2, <1>3, <1>4, <1>5 DEF LinkReceive

\* A batch goes behind everything that waits, or nothing changes.
LEMMA TransmitQueues ==
    ASSUME wire \in Seq(Packets), tx \in Seq(Packets), Len(tx) <= 2,
           NEW batch \in Seq(Packets), Len(batch) <= 2, NEW status, LinkTransmit(batch, status)
    PROVE  /\ wire' \in Seq(Packets) /\ tx' \in Seq(Packets) /\ Len(tx') <= 2
           /\ linkOpen' = linkOpen /\ rx' = rx
           /\ Pure(tx) /\ Pure(batch) => Pure(tx')
           /\ \/ status = "NotReady" /\ Queued' = Queued /\ tx' = tx
              \/ status \in {"Ok", "IoError"} /\ Queued' = Queued \o batch
  <1>1. Len(batch) \in Nat
    BY LenProperties
  <1>2. CASE status = "NotReady" /\ UNCHANGED <<tx, wire>>
    BY <1>2 DEF LinkTransmit, Queued
  <1>3. CASE /\ tx = <<>> /\ status \in {"Ok", "IoError"}
             /\ \E n \in 0 .. Len(batch) : Sent(batch, n)
    <2>1. PICK n \in 0 .. Len(batch) : Sent(batch, n)
      BY <1>3
    <2>2. Queued = wire
      BY <1>3, ConcatEmptySeq DEF Queued
    <2>3. /\ wire' \in Seq(Packets) /\ tx' \in Seq(Packets) /\ Len(tx') = Len(batch) - n
          /\ Queued' = wire \o batch /\ (Pure(batch) => Pure(tx'))
      BY <2>1, SentKeeps
    <2> QED
      BY <1>1, <1>3, <2>2, <2>3 DEF LinkTransmit
  <1> QED
    BY <1>1, <1>2, <1>3 DEF LinkTransmit

\* A torque-off behind everything that waits.
LEMMA StopAppended ==
    ASSUME NEW q \in Seq(Packets)
    PROVE  LET r == q \o EncodeSafeStop
           IN  /\ OnlyStopsBehind(q) => OnlyStopsBehind(r)
               /\ OnlyStops(q) => OnlyStops(r)
               /\ ~EndsOn(r) /\ Waits(r, "torqueOff")
               /\ \A p : p # "torqueOff" => (Waits(r, p) <=> Waits(q, p))
  <1> DEFINE r == q \o EncodeSafeStop
  <1>1. Len(q) \in Nat
    BY LenProperties
  <1>2. EncodeSafeStop \in Seq(Packets) /\ Len(EncodeSafeStop) = 1 /\ EncodeSafeStop[1] = "torqueOff"
    BY DEF EncodeSafeStop, Packets
  <1>3. /\ Len(r) = Len(q) + 1 /\ r[Len(q) + 1] = "torqueOff"
        /\ \A i \in 1 .. Len(q) : r[i] = q[i]
    BY <1>1, <1>2, ConcatProperties
  <1> HIDE DEF r
  <1>4. OnlyStopsBehind(q) => OnlyStopsBehind(r)
    BY <1>1, <1>3 DEF OnlyStopsBehind
  <1>5. OnlyStops(q) => OnlyStops(r)
    BY <1>1, <1>3 DEF OnlyStops
  <1>6. ~EndsOn(r) /\ Waits(r, "torqueOff")
    BY <1>1, <1>3 DEF EndsOn, Waits
  <1>7. \A p : p # "torqueOff" => (Waits(r, p) <=> Waits(q, p))
    BY <1>1, <1>3 DEF Waits
  <1> QED
    BY <1>4, <1>5, <1>6, <1>7 DEF r

\* The first packet is gone.
LEMMA HeadDelivered ==
    ASSUME NEW q \in Seq(Packets), q # <<>>
    PROVE  LET r == Tail(q)
           IN  /\ OnlyStopsBehind(q) => OnlyStopsBehind(r)
               /\ OnlyStopsBehind(q) /\ Head(q) = "bulkRead" => OnlyStops(r)
               /\ OnlyStops(q) => OnlyStops(r) /\ Head(q) = "torqueOff"
               /\ ~EndsOn(q) => ~EndsOn(r)
               /\ ~EndsOn(q) /\ Head(q) = "torqueOn" => Waits(r, "torqueOff")
               /\ \A p : Waits(q, p) <=> Head(q) = p \/ Waits(r, p)
  <1> DEFINE r == Tail(q)
  <1>1. Len(q) \in Nat \ {0} /\ Len(r) = Len(q) - 1 /\ Head(q) = q[1]
    BY LenProperties, EmptySeq, HeadTailProperties
  <1>2. \A i \in 1 .. Len(r) : r[i] = q[i + 1]
    BY HeadTailProperties
  <1> HIDE DEF r
  <1>3. \A i \in 2 .. Len(q) : i - 1 \in 1 .. Len(r) /\ r[i - 1] = q[i]
    BY <1>1, <1>2
  <1>4. OnlyStopsBehind(q) => OnlyStopsBehind(r)
    BY <1>1, <1>2 DEF OnlyStopsBehind
  <1>5. OnlyStopsBehind(q) /\ Head(q) = "bulkRead" => OnlyStops(r)
    BY <1>1, <1>2 DEF OnlyStopsBehind, OnlyStops
  <1>6. OnlyStops(q) => OnlyStops(r) /\ Head(q) = "torqueOff"
    BY <1>1, <1>2 DEF OnlyStops
  <1>7. EndsOn(r) => EndsOn(q)
    <2> SUFFICES ASSUME NEW i \in 1 .. Len(r), r[i] = "torqueOn",
                        \A k \in i + 1 .. Len(r) : r[k] # "torqueOff"
                 PROVE  EndsOn(q)
      BY DEF EndsOn
    <2>1. i + 1 \in 1 .. Len(q) /\ q[i + 1] = "torqueOn"
      BY <1>1, <1>2
    <2>2. \A k \in (i + 1) + 1 .. Len(q) : k - 1 \in i + 1 .. Len(r) /\ r[k - 1] = q[k]
      BY <1>1, <1>3
    <2> QED
      BY <2>1, <2>2 DEF EndsOn
  <1>8. ~EndsOn(q) /\ Head(q) = "torqueOn" => Waits(r, "torqueOff")
    BY <1>1, <1>3 DEF EndsOn, Waits
  <1>9. \A p : Waits(q, p) <=> Head(q) = p \/ Waits(r, p)
    <2>1. \A i \in 1 .. Len(q) :
            \/ i = 1
            \/ i - 1 \in 1 .. Len(r) /\ q[i] = r[i - 1]
      BY <1>1, <1>3
    <2>2. \A i \in 1 .. Len(r) : i + 1 \in 1 .. Len(q)
      BY <1>1
    <2> QED
      BY <1>1, <1>2, <2>1, <2>2 DEF Waits
  <1> QED
    BY <1>4, <1>5, <1>6, <1>7, <1>8, <1>9 DEF r

\* What the link retains waits behind the rest, and is gone when it is closed.
LEMMA EndDropped ==
    ASSUME NEW q \in Seq(Packets), NEW t \in Seq(Packets)
    PROVE  /\ OnlyStopsBehind(q \o t) => OnlyStopsBehind(q)
           /\ OnlyStops(q \o t) => OnlyStops(q)
           /\ ~EndsOn(q \o t) /\ ~Waits(t, "torqueOff") => ~EndsOn(q)
           /\ Pure(t) /\ Waits(t, "torqueOff") => ~EndsOn(q \o t)
           /\ \A p : Waits(q \o t, p) <=> Waits(q, p) \/ Waits(t, p)
  <1> DEFINE r == q \o t
  <1>1. Len(q) \in Nat /\ Len(t) \in Nat
    BY LenProperties
  <1>2. /\ Len(r) = Len(q) + Len(t)
        /\ \A i \in 1 .. Len(q) + Len(t) : r[i] = IF i <= Len(q) THEN q[i] ELSE t[i - Len(q)]
    BY ConcatProperties
  <1> HIDE DEF r
  <1>3. /\ \A i \in 1 .. Len(q) : r[i] = q[i]
        /\ \A i \in 1 .. Len(t) : r[Len(q) + i] = t[i]
    BY <1>1, <1>2
  <1>4. OnlyStopsBehind(r) => OnlyStopsBehind(q)
    BY <1>1, <1>2, <1>3 DEF OnlyStopsBehind
  <1>5. OnlyStops(r) => OnlyStops(q)
    BY <1>1, <1>2, <1>3 DEF OnlyStops
  <1>6. EndsOn(q) /\ ~Waits(t, "torqueOff") => EndsOn(r)
    BY <1>1, <1>2, SMTT(20) DEF EndsOn, Waits
  <1>8. Pure(t) /\ Waits(t, "torqueOff") => ~EndsOn(r)
    <2> SUFFICES ASSUME OnlyStops(t), Waits(t, "torqueOff"), NEW i \in 1 .. Len(r),
                        r[i] = "torqueOn", \A k \in i + 1 .. Len(r) : r[k] # "torqueOff"
                 PROVE  FALSE
      BY DEF Pure, EndsOn
    <2>1. Len(t) \in Nat \ {0} /\ t[Len(t)] = "torqueOff"
      BY <1>1 DEF OnlyStops, Waits
    <2>2. r[Len(r)] = "torqueOff" /\ Len(r) \in Nat
      BY <1>1, <1>2, <1>3, <2>1
    <2> QED
      BY <2>2
  <1>7. \A p : Waits(r, p) <=> Waits(q, p) \/ Waits(t, p)
    <2>1. \A i \in 1 .. Len(r) :
            \/ i \in 1 .. Len(q) /\ r[i] = q[i]
            \/ i - Len(q) \in 1 .. Len(t) /\ r[i] = t[i - Len(q)]
      BY <1>1, <1>2
    <2>2. /\ \A i \in 1 .. Len(q) : i \in 1 .. Len(r)
          /\ \A i \in 1 .. Len(t) : Len(q) + i \in 1 .. Len(r)
      BY <1>1, <1>2
    <2> QED
      BY <1>3, <2>1, <2>2 DEF Waits
  <1> QED
    BY <1>4, <1>5, <1>6, <1>7, <1>8 DEF r

\* The transactions end in their only Bulk Read and hold no torque-off; a stop is
\* a torque-off alone.
LEMMA Batches ==
    /\ <<>> \in Seq(Packets) /\ EncodeStartup \in Seq(Packets) /\ EncodeArm \in Seq(Packets)
    /\ Goal \in Seq(Packets) /\ EncodeSafeStop \in Seq(Packets)
    /\ Len(EncodeStartup) = 1 /\ Len(EncodeArm) = 2 /\ Len(Goal) = 2 /\ Len(EncodeSafeStop) = 1
    /\ OnlyStopsBehind(EncodeStartup) /\ OnlyStopsBehind(EncodeArm) /\ OnlyStopsBehind(Goal)
    /\ Waits(EncodeStartup, "bulkRead") /\ Waits(EncodeArm, "bulkRead") /\ Waits(Goal, "bulkRead")
    /\ ~Waits(EncodeStartup, "torqueOff") /\ ~Waits(EncodeArm, "torqueOff")
    /\ ~Waits(Goal, "torqueOff")
    /\ OnlyStops(EncodeSafeStop) /\ \A p : Waits(EncodeSafeStop, p) => p = "torqueOff"
    /\ ~EndsOn(EncodeStartup) /\ ~EndsOn(<<>>) /\ \A p : ~Waits(<<>>, p)
    /\ OnlyStopsBehind(<<>>) /\ OnlyStops(<<>>)
  <1> USE DEF EncodeStartup, EncodeArm, Goal, EncodeCommand, EncodeSafeStop, Packets
  <1>1. /\ <<>> \in Seq(Packets) /\ EncodeStartup \in Seq(Packets) /\ EncodeArm \in Seq(Packets)
        /\ Goal \in Seq(Packets) /\ EncodeSafeStop \in Seq(Packets)
    OBVIOUS
  <1>2. /\ Len(EncodeStartup) = 1 /\ Len(EncodeArm) = 2 /\ Len(Goal) = 2
        /\ Len(EncodeSafeStop) = 1
    OBVIOUS
  <1>3. OnlyStopsBehind(EncodeStartup) /\ OnlyStopsBehind(EncodeArm) /\ OnlyStopsBehind(Goal)
    BY DEF OnlyStopsBehind
  <1>4. Waits(EncodeStartup, "bulkRead") /\ Waits(EncodeArm, "bulkRead") /\ Waits(Goal, "bulkRead")
    BY DEF Waits
  <1>5. /\ ~Waits(EncodeStartup, "torqueOff") /\ ~Waits(EncodeArm, "torqueOff")
        /\ ~Waits(Goal, "torqueOff")
    BY DEF Waits
  <1>8. OnlyStops(EncodeSafeStop) /\ \A p : Waits(EncodeSafeStop, p) => p = "torqueOff"
    BY DEF OnlyStops, Waits
  <1>6. ~EndsOn(EncodeStartup) /\ ~EndsOn(<<>>) /\ \A p : ~Waits(<<>>, p)
    BY DEF EndsOn, Waits
  <1>7. OnlyStopsBehind(<<>>) /\ OnlyStops(<<>>)
    BY DEF OnlyStops, OnlyStopsBehind
  <1> QED
    BY <1>1, <1>2, <1>3, <1>4, <1>5, <1>6, <1>7, <1>8

\* What a command is encoded to.
LEMMA CommandBatches ==
    \A c \in Encodable : EncodeCommand(c) \in {Goal, EncodeSafeStop}
  BY DEF Encodable, EncodeCommand, Goal

-----------------------------------------------------------------------------
(* The answers that arrive. *)

\* A read cuts what has arrived in two.
LEMMA CutInTwo ==
    ASSUME NEW f \in Seq(Halves), NEW x \in Seq(Halves), NEW n \in 1 .. Len(x)
    PROVE  LET b == f \o SubSeq(x, 1, n)
               r == SubSeq(x, n + 1, Len(x))
               u == f \o x
           IN  /\ b \in Seq(Halves) /\ r \in Seq(Halves) /\ u \in Seq(Halves)
               /\ Len(b) \in Nat \ {0} /\ Len(r) \in Nat /\ Len(u) = Len(b) + Len(r)
               /\ \A i \in 1 .. Len(b) : b[i] = u[i]
               /\ \A i \in 1 .. Len(r) : r[i] = u[Len(b) + i]
  <1> DEFINE c == SubSeq(x, 1, n)
             r == SubSeq(x, n + 1, Len(x))
  <1>1. /\ Len(x) \in Nat /\ Len(f) \in Nat
        /\ \A i \in 1 .. Len(x) : x[i] \in Halves
    BY LenProperties, ElementOfSeq
  <1>2. c \in Seq(Halves) /\ Len(c) = n /\ \A i \in 1 .. n : c[i] = x[i]
    BY <1>1, SubSeqProperties
  <1>3. r \in Seq(Halves) /\ Len(r) = Len(x) - n /\ \A i \in 1 .. Len(x) - n : r[i] = x[n + i]
    BY <1>1, SubSeqProperties
  <1> HIDE DEF c, r
  <1>4. /\ f \o c \in Seq(Halves) /\ Len(f \o c) = Len(f) + n
        /\ \A i \in 1 .. Len(f) + n : (f \o c)[i] = IF i <= Len(f) THEN f[i] ELSE c[i - Len(f)]
    BY <1>2, ConcatProperties
  <1>5. /\ f \o x \in Seq(Halves) /\ Len(f \o x) = Len(f) + Len(x)
        /\ \A i \in 1 .. Len(f) + Len(x) : (f \o x)[i] = IF i <= Len(f) THEN f[i] ELSE x[i - Len(f)]
    BY ConcatProperties
  <1>6. \A i \in 1 .. Len(f \o c) : (f \o c)[i] = (f \o x)[i]
    BY <1>1, <1>2, <1>4, <1>5
  <1>7. \A i \in 1 .. Len(r) : r[i] = (f \o x)[Len(f \o c) + i]
    BY <1>1, <1>3, <1>4, <1>5
  <1>8. /\ Len(f \o c) \in Nat \ {0} /\ Len(r) \in Nat
        /\ Len(f \o x) = Len(f \o c) + Len(r)
    BY <1>1, <1>3, <1>4, <1>5
  <1>9. f \o c \in Seq(Halves) /\ r \in Seq(Halves) /\ f \o x \in Seq(Halves)
    BY <1>3, <1>4, <1>5
  <1> QED
    BY <1>6, <1>7, <1>8, <1>9 DEF c, r

\* What pop leaves behind is the end of what was in hand.
LEMMA LeftIsTheEnd ==
    ASSUME NEW b \in Seq(Halves), NEW r \in Seq(Halves), NEW u \in Seq(Halves),
           Len(b) # 0, Len(u) = Len(b) + Len(r),
           \A i \in 1 .. Len(b) : b[i] = u[i], \A i \in 1 .. Len(r) : r[i] = u[Len(b) + i]
    PROVE  /\ LeftBehind(b) \in Seq(Halves) /\ Len(LeftBehind(b)) <= 1
           /\ LeftBehind(b) \o r \in Seq(Halves)
           /\ LeftBehind(b) = <<>> \/ b[Len(b)].part = "head"
           /\ \E d \in {Len(b) - 1, Len(b)} :
                /\ Len(LeftBehind(b) \o r) = Len(u) - d
                /\ \A i \in 1 .. Len(LeftBehind(b) \o r) : (LeftBehind(b) \o r)[i] = u[i + d]
                /\ d = Len(b) - 1 => b[Len(b)].part = "head"
  <1>1. /\ Len(b) \in Nat \ {0} /\ Len(r) \in Nat /\ b[Len(b)] \in Halves /\ b # <<>>
        /\ b[Len(b)] = u[Len(b)]
    BY LenProperties, ElementOfSeq, EmptySeq
  <1>2. CASE b[Len(b)].part = "head"
    <2> DEFINE l == <<b[Len(b)]>>
    <2>1. l = LeftBehind(b)
      BY <1>1, <1>2 DEF LeftBehind
    <2>2. l \in Seq(Halves) /\ Len(l) = 1 /\ l[1] = u[Len(b)]
      BY <1>1
    <2> HIDE DEF l
    <2>3. /\ l \o r \in Seq(Halves) /\ Len(l \o r) = Len(l) + Len(r)
          /\ \A i \in 1 .. Len(l) + Len(r) :
                (l \o r)[i] = IF i <= Len(l) THEN l[i] ELSE r[i - Len(l)]
      BY <2>2, ConcatProperties
    <2>4. \A i \in 1 .. Len(l \o r) : (l \o r)[i] = u[i + (Len(b) - 1)]
      <3> SUFFICES ASSUME NEW i \in 1 .. Len(l \o r)
                   PROVE  (l \o r)[i] = u[i + (Len(b) - 1)]
        OBVIOUS
      <3>1. CASE i = 1
        BY <3>1, <1>1, <2>2, <2>3
      <3>2. CASE i # 1
        <4>1. i - 1 \in 1 .. Len(r) /\ (l \o r)[i] = r[i - 1]
          BY <3>2, <1>1, <2>2, <2>3
        <4>2. r[i - 1] = u[Len(b) + (i - 1)] /\ Len(b) + (i - 1) = i + (Len(b) - 1)
          BY <4>1, <1>1, SMTT(20)
        <4> QED
          BY <4>1, <4>2
      <3> QED
        BY <3>1, <3>2
    <2>5. Len(l \o r) = Len(u) - (Len(b) - 1)
      BY <1>1, <2>2, <2>3
    <2> QED
      BY <1>1, <1>2, <2>1, <2>2, <2>3, <2>4, <2>5
  <1>3. CASE b[Len(b)].part # "head"
    <2>1. LeftBehind(b) = <<>> /\ LeftBehind(b) \o r = r
      BY <1>1, <1>3, ConcatEmptySeq DEF LeftBehind
    <2>2. \A i \in 1 .. Len(r) : r[i] = u[i + Len(b)]
      BY <1>1
    <2>3. <<>> \in Seq(Halves) /\ Len(<<>>) = 0
      BY EmptySeq
    <2> QED
      BY <1>1, <2>1, <2>2, <2>3
  <1> QED
    BY <1>2, <1>3

\* The end of a well-formed input is well formed.
LEMMA EndIsWellFormed ==
    ASSUME NEW u \in Seq(Halves), NEW v \in Seq(Halves), NEW d \in Nat, NEW joints,
           Len(v) = Len(u) - d, \A i \in 1 .. Len(v) : v[i] = u[i + d],
           Paired(u), Fresh(u, joints)
    PROVE  Paired(v) /\ Fresh(v, joints)
  <1>1. Len(u) \in Nat /\ \A i \in 1 .. Len(v) : i + d \in 1 .. Len(u)
    BY LenProperties
  <1>2. Fresh(v, joints)
    BY <1>1 DEF Fresh
  <1>3. Paired(v)
    <2> SUFFICES ASSUME NEW i \in 1 .. Len(v), NEW k \in 1 .. Len(v), i < k,
                        v[i].status.joint = v[k].status.joint
                 PROVE  /\ k = i + 1
                        /\ v[i] = Half(v[k].status, "head") /\ v[k].part = "tail"
      BY DEF Paired
    <2>1. /\ i + d \in 1 .. Len(u) /\ k + d \in 1 .. Len(u) /\ i + d < k + d
          /\ v[i] = u[i + d] /\ v[k] = u[k + d]
      BY <1>1
    <2>2. ASSUME NEW m \in 1 .. Len(u), NEW n \in 1 .. Len(u), m < n,
                 u[m].status.joint = u[n].status.joint
          PROVE  n = m + 1 /\ u[m] = Half(u[n].status, "head") /\ u[n].part = "tail"
      BY <2>2, Zenon DEF Paired
    <2>3. u[i + d].status.joint = u[k + d].status.joint
      BY <2>1
    <2>4. /\ k + d = (i + d) + 1
          /\ u[i + d] = Half(u[k + d].status, "head") /\ u[k + d].part = "tail"
      BY <2>1, <2>2, <2>3, Zenon
    <2>5. k = i + 1
      BY <2>4
    <2> QED
      BY <2>1, <2>4, <2>5, Zenon
  <1> QED
    BY <1>2, <1>3

\* decode_feedback on the first `size` units that have arrived.
LEMMA DecodeStep ==
    ASSUME LinkTypes, ProtocolTypes, BusTypes, open, RoundInv, FrameInv,
           NEW size \in 1 .. Len(rx), NEW s, DecodeFeedback(SubSeq(rx, 1, size), s),
           rx' = SubSeq(rx, size + 1, Len(rx)), due' = due, open' = open
    PROVE  /\ ProtocolTypes' /\ RoundInv' /\ FrameInv' /\ s # "IoError"
           /\ s = "Ok" => due = {} /\ rx' = <<>> /\ buffer' = <<>> /\ seen' = {}
  <1> DEFINE u == buffer \o rx
             b == buffer \o SubSeq(rx, 1, size)
             ends(j) == {i \in Popped(b) : b[i].status.joint = j}
             last(j) == CHOOSE i \in ends(j) : \A k \in ends(j) : k <= i
             taken == [j \in Joints |->
                        IF ends(j) = {} THEN sample[j]
                        ELSE [got |-> TRUE, error |-> b[last(j)].status.error,
                              old |-> b[last(j)].status.old]]
             joints == seen \cup {j \in Joints : ends(j) # {}}
             bits == faults \cup {j \in Joints : \E i \in ends(j) : b[i].status.error}
             rest == LeftBehind(b) \o rx'
  <1>1. /\ b \in Seq(Halves) /\ rx' \in Seq(Halves) /\ u \in Seq(Halves)
        /\ Len(b) \in Nat \ {0} /\ Len(rx') \in Nat /\ Len(u) = Len(b) + Len(rx')
        /\ \A i \in 1 .. Len(b) : b[i] = u[i]
        /\ \A i \in 1 .. Len(rx') : rx'[i] = u[Len(b) + i]
    <2> DEFINE r == SubSeq(rx, size + 1, Len(rx))
    <2>1. buffer \in Seq(Halves) /\ rx \in Seq(Halves)
      BY DEF LinkTypes, ProtocolTypes
    <2>2. /\ b \in Seq(Halves) /\ r \in Seq(Halves) /\ u \in Seq(Halves)
          /\ Len(b) \in Nat \ {0} /\ Len(r) \in Nat /\ Len(u) = Len(b) + Len(r)
          /\ \A i \in 1 .. Len(b) : b[i] = u[i]
          /\ \A i \in 1 .. Len(r) : r[i] = u[Len(b) + i]
      BY <2>1, CutInTwo
    <2>3. rx' = r
      OBVIOUS
    <2> HIDE DEF r, b, u
    <2> QED
      BY <2>2, <2>3
  <1>2. /\ s = IF Complete(joints) THEN "Ok" ELSE "NotReady"
        /\ buffer' = LeftBehind(b) /\ sample' = taken /\ seen' = SeenAfter(joints)
        /\ IF Complete(joints)
           THEN faults' = {} /\ frame' = [ready |-> TRUE, samples |-> taken, faults |-> bits]
           ELSE faults' = bits /\ UNCHANGED frame
    BY Zenon DEF DecodeFeedback
  <1>3. /\ Paired(u) /\ Fresh(u, seen \cup due) /\ seen \cap due = {}
        /\ \A j \in seen : sample[j].got /\ ~sample[j].old
        /\ faults = {j \in seen : sample[j].error}
    BY DEF RoundInv
  <1> HIDE DEF u, b
  <1>4. \A j : \A i \in ends(j) :
            /\ i \in 2 .. Len(b) /\ b[i] \in Halves /\ b[i].part = "tail"
            /\ b[i].status.joint = j /\ j \in Joints /\ ~b[i].status.old
            /\ j \notin seen /\ j \notin due
    <2> SUFFICES ASSUME NEW j, NEW i \in ends(j)
                 PROVE  /\ i \in 2 .. Len(b) /\ b[i] \in Halves /\ b[i].part = "tail"
                        /\ b[i].status.joint = j /\ j \in Joints /\ ~b[i].status.old
                        /\ j \notin seen /\ j \notin due
      OBVIOUS
    <2>1. i \in 2 .. Len(b) /\ b[i].part = "tail" /\ b[i].status.joint = j
      BY DEF Popped
    <2>2. i \in 1 .. Len(b) /\ i \in 1 .. Len(u) /\ b[i] = u[i]
      BY <2>1, <1>1
    <2>3. b[i] \in Halves
      BY <2>2, <1>1, ElementOfSeq
    <2>4. j \in Joints
      BY <2>1, <2>3 DEF Halves, Statuses
    <2>5. ~u[i].status.old /\ u[i].status.joint \notin seen \cup due
      BY <2>2, <1>3 DEF Fresh
    <2> QED
      BY <2>1, <2>2, <2>3, <2>4, <2>5
  <1>5. \A j : \A i, k \in ends(j) : i = k
    <2> SUFFICES ASSUME NEW j, NEW i \in ends(j), NEW k \in ends(j), i < k PROVE FALSE
      BY <1>4
    <2>1. /\ i \in 2 .. Len(b) /\ k \in 2 .. Len(b) /\ b[i].status.joint = b[k].status.joint
          /\ b[i].part = "tail"
      BY <1>4
    <2> HIDE DEF ends
    <2>2. /\ i \in 1 .. Len(u) /\ k \in 1 .. Len(u) /\ u[i].status.joint = u[k].status.joint
          /\ u[i].part = "tail"
      <3>1. i \in 1 .. Len(b) /\ k \in 1 .. Len(b)
        BY <2>1, <1>1
      <3>2. b[i] = u[i] /\ b[k] = u[k]
        BY <3>1, <1>1
      <3>3. i \in 1 .. Len(u) /\ k \in 1 .. Len(u)
        BY <3>1, <1>1
      <3> QED
        BY <2>1, <3>2, <3>3
    <2>3. u[i] = Half(u[k].status, "head")
      BY <2>2, <1>3 DEF Paired
    <2> QED
      BY <2>2, <2>3 DEF Half
  <1>6. \A j : ends(j) # {} => last(j) \in ends(j)
    BY <1>4, <1>5
  <1> HIDE DEF ends, last
  <1>7. \A j \in Joints :
            /\ taken[j] \in Samples
            /\ j \in joints /\ j \notin seen => /\ taken[j].got /\ ~taken[j].old
                                                /\ taken[j].error <=> j \in bits
            /\ j \notin joints \/ j \in seen => taken[j] = sample[j]
    <2> SUFFICES ASSUME NEW j \in Joints
                 PROVE  /\ taken[j] \in Samples
                        /\ j \in joints /\ j \notin seen => /\ taken[j].got /\ ~taken[j].old
                                                            /\ taken[j].error <=> j \in bits
                        /\ j \notin joints \/ j \in seen => taken[j] = sample[j]
      OBVIOUS
    <2>1. CASE ends(j) = {}
      BY <2>1 DEF ProtocolTypes
    <2>2. CASE ends(j) # {}
      <3>1. last(j) \in ends(j) /\ \A i \in ends(j) : i = last(j)
        BY <2>2, <1>5, <1>6
      <3>2. b[last(j)].status \in Statuses /\ ~b[last(j)].status.old /\ j \notin seen
        BY <3>1, <1>4 DEF Halves
      <3>3. taken[j] = [got |-> TRUE, error |-> b[last(j)].status.error,
                        old |-> b[last(j)].status.old]
        BY <2>2
      <3>4. j \in bits <=> b[last(j)].status.error
        BY <3>1, <3>2, <1>3
      <3>5. j \in joints
        BY <2>2
      <3> HIDE DEF taken, joints, bits
      <3> QED
        BY <3>2, <3>3, <3>4, <3>5 DEF Samples, Statuses
    <2> QED
      BY <2>1, <2>2
  <1>8. bits = {j \in joints : taken[j].error} /\ bits \subseteq Joints /\ joints \subseteq Joints
    <2>1. bits \subseteq Joints /\ joints \subseteq Joints
      BY DEF ProtocolTypes
    <2>2. bits \subseteq joints
      BY <1>3
    <2>3. \A j \in joints : j \in bits <=> taken[j].error
      <3> SUFFICES ASSUME NEW j \in joints PROVE j \in bits <=> taken[j].error
        OBVIOUS
      <3>1. CASE j \in seen
        <4>1. j \in bits <=> j \in faults
          BY <3>1, <1>4
        <4> HIDE DEF joints, bits, taken
        <4> QED
          BY <3>1, <4>1, <2>1, <1>3, <1>7
      <3>2. CASE j \notin seen
        <4> HIDE DEF joints, bits, taken
        <4> QED
          BY <3>2, <2>1, <1>7
      <3> QED
        BY <3>1, <3>2
    <2> HIDE DEF joints, bits, taken
    <2> QED
      BY <2>1, <2>2, <2>3
  <1>9. \A j \in joints : taken[j].got /\ ~taken[j].old
    <2>1. joints \subseteq Joints
      BY <1>8
    <2> HIDE DEF joints, bits, taken
    <2> QED
      BY <2>1, <1>3, <1>7
  <1>10. taken \in [Joints -> Samples]
    <2>1. \A j \in Joints : taken[j] \in Samples
      BY <1>7
    <2> QED
      BY <2>1
  <1>11. joints \cap due = {} /\ \A j \in joints : j \in seen \/ ends(j) # {}
    BY <1>3, <1>4
  <1>12. /\ LeftBehind(b) \in Seq(Halves) /\ Len(LeftBehind(b)) <= 1 /\ rest \in Seq(Halves)
         /\ LeftBehind(b) = <<>> \/ b[Len(b)].part = "head"
         /\ \E d \in {Len(b) - 1, Len(b)} :
                /\ Len(rest) = Len(u) - d
                /\ \A i \in 1 .. Len(rest) : rest[i] = u[i + d]
                /\ d = Len(b) - 1 => b[Len(b)].part = "head"
    BY <1>1, LeftIsTheEnd, ZenonT(60)
  <1> HIDE DEF taken, joints, bits, rest
  <1>13. PICK d \in {Len(b) - 1, Len(b)} :
                /\ Len(rest) = Len(u) - d
                /\ \A i \in 1 .. Len(rest) : rest[i] = u[i + d]
                /\ d = Len(b) - 1 => b[Len(b)].part = "head"
    BY <1>12
  <1>14. Paired(rest) /\ Fresh(rest, seen \cup due)
    <2>1. d \in Nat
      BY <1>1
    <2>2. u \in Seq(Halves) /\ rest \in Seq(Halves) /\ Paired(u) /\ Fresh(u, seen \cup due)
      BY <1>1, <1>3, <1>12
    <2>3. Len(rest) = Len(u) - d /\ \A i \in 1 .. Len(rest) : rest[i] = u[i + d]
      BY <1>13
    <2> QED
      BY <2>1, <2>2, <2>3, EndIsWellFormed
  <1>15. \A i \in 1 .. Len(rest) : rest[i].status.joint \notin joints
    <2> SUFFICES ASSUME NEW i \in 1 .. Len(rest), rest[i].status.joint \in joints PROVE FALSE
      OBVIOUS
    <2> DEFINE j == rest[i].status.joint
    <2>1. j \notin seen
      BY <1>14 DEF Fresh
    <2>2. PICK k \in ends(j) : TRUE
      BY <2>1, <1>11
    <2>3. k \in 1 .. Len(b) /\ b[k].part = "tail" /\ b[k].status.joint = j
      BY <2>2, <1>4
    <2>4. Len(rest) \in Nat
      BY <1>12, LenProperties
    <2>5. i + d \in 1 .. Len(u) /\ rest[i] = u[i + d] /\ i + d >= Len(b)
      <3>1. rest[i] = u[i + d]
        BY <1>13
      <3>2. Len(rest) = Len(u) - d /\ Len(u) \in Nat /\ d \in Nat /\ d >= Len(b) - 1
        BY <1>1, <1>13, SMTT(20)
      <3>3. i \in Nat \ {0} /\ i <= Len(rest)
        BY <2>4
      <3>4. Len(b) \in Nat
        BY <1>1, LenProperties
      <3> DEFINE m == Len(rest)
                 n == Len(u)
                 l == Len(b)
      <3>5. m = n - d /\ n \in Nat /\ d \in Nat /\ d >= l - 1 /\ l \in Nat /\ m \in Nat /\ i <= m
        BY <2>4, <3>2, <3>3, <3>4
      <3> HIDE DEF m, n, l
      <3>6. i + d \in 1 .. n /\ i + d >= l
        BY <3>3, <3>5
      <3> QED
        BY <3>1, <3>6 DEF n, l
    <2>6. k \in 1 .. Len(u) /\ u[k] = b[k]
      BY <1>1, <2>3
    <2>7. k # i + d
      <3>1. CASE i + d = Len(b)
        <4>1. u[i + d].part = "head"
          BY <3>1, <1>1, <1>13, SMTT(20)
        <4> QED
          BY <4>1, <2>3, <2>6
      <3>2. CASE i + d > Len(b)
        BY <3>2, <2>3
      <3> QED
        BY <3>1, <3>2, <2>5, <1>1, <1>13
    <2>8. k < i + d
      BY <2>3, <2>5, <2>7, <1>1, <1>13
    <2>9. u[k] = Half(u[i + d].status, "head")
      BY <2>3, <2>5, <2>6, <2>8, <1>3 DEF Paired
    <2> QED
      BY <2>3, <2>6, <2>9 DEF Half
  <1>16. ProtocolTypes'
    <2>1. sample' \in [Joints -> Samples] /\ buffer' \in Seq(Halves) /\ Len(buffer') <= 1
      BY <1>2, <1>10, <1>12
    <2>2. seen' \in SUBSET Joints
      BY <1>2, <1>8 DEF SeenAfter
    <2>3. faults' \in SUBSET Joints
      BY <1>2, <1>8
    <2>4. frame' \in [ready : BOOLEAN, samples : [Joints -> Samples], faults : SUBSET Joints]
      <3>1. CASE Complete(joints)
        <4>1. frame' = [ready |-> TRUE, samples |-> taken, faults |-> bits]
          BY <3>1, <1>2
        <4>2. bits \in SUBSET Joints
          BY <1>8
        <4> QED
          BY <4>1, <4>2, <1>10
      <3>2. CASE ~Complete(joints)
        BY <3>2, <1>2 DEF ProtocolTypes
      <3> QED
        BY <3>1, <3>2
    <2> QED
      BY <2>1, <2>2, <2>3, <2>4 DEF ProtocolTypes
  <1>17. CASE Complete(joints)
    <2>1. joints = Joints /\ s = "Ok" /\ faults' = {} /\ seen' = {}
      BY <1>17, <1>2 DEF Complete, SeenAfter
    <2>2. due = {}
      BY <2>1, <1>11 DEF BusTypes
    <2>3. \A i \in 1 .. Len(rest) : FALSE
      <3> SUFFICES ASSUME NEW i \in 1 .. Len(rest) PROVE FALSE
        OBVIOUS
      <3>1. rest[i] \in Halves
        BY <1>12, ElementOfSeq
      <3> QED
        BY <3>1, <1>15, <2>1 DEF Halves, Statuses
    <2>4. rest = <<>>
      BY <2>3, <1>12, EmptySeq
    <2>5. LeftBehind(b) = <<>> /\ rx' = <<>>
      BY <2>4, <1>1, <1>12, ConcatEqualIffEmpty DEF rest
    <2>6. FrameInv'
      <3>1. frame' = [ready |-> TRUE, samples |-> taken, faults |-> bits]
        BY <1>17, <1>2
      <3>2. \A j \in Joints : taken[j].got /\ ~taken[j].old
        BY <1>9, <2>1
      <3>3. bits = {j \in Joints : taken[j].error}
        BY <1>8, <2>1
      <3> QED
        BY <3>1, <3>2, <3>3 DEF FrameInv
    <2>7. RoundInv'
      <3>1. buffer' \o rx' = rest
        BY <1>2 DEF rest
      <3>2. Paired(rest) /\ Fresh(rest, seen' \cup due')
        BY <2>1, <2>2, <2>4, <1>14 DEF Fresh
      <3>3. faults' = {j \in seen' : sample'[j].error} /\ \A j \in seen' : FALSE
        BY <2>1
      <3> QED
        BY <3>1, <3>2, <3>3, <2>1 DEF RoundInv
    <2> QED
      BY <1>2, <1>16, <2>1, <2>2, <2>5, <2>6, <2>7
  <1>18. CASE ~Complete(joints)
    <2>1. /\ s = "NotReady" /\ faults' = bits /\ seen' = joints /\ frame' = frame
          /\ buffer' \o rx' = rest /\ sample' = taken
      BY <1>18, <1>2 DEF SeenAfter, rest
    <2>2. FrameInv'
      BY <2>1 DEF FrameInv
    <2>3. Fresh(rest, joints \cup due)
      BY <1>14, <1>15 DEF Fresh
    <2>4. RoundInv'
      <3>1. Paired(rest) /\ Fresh(rest, joints \cup due) /\ joints \cap due = {}
        BY <1>14, <2>3, <1>11
      <3>2. \A j \in joints : taken[j].got /\ ~taken[j].old
        BY <1>9
      <3>3. bits = {j \in joints : taken[j].error}
        BY <1>8
      <3> QED
        BY <2>1, <3>1, <3>2, <3>3 DEF RoundInv
    <2> QED
      BY <1>16, <2>1, <2>2, <2>4
  <1> QED
    BY <1>17, <1>18

\* What is in hand does not depend on how it was put together.
LEMMA JoinHalves ==
    ASSUME NEW s \in Seq(Halves), NEW t \in Seq(Halves), NEW u \in Seq(Halves)
    PROVE  (s \o t) \o u = s \o (t \o u)
  BY ConcatAssociative

\* Two pieces of input, one behind the other.
LEMMA InputsJoined ==
    ASSUME NEW s \in Seq(Halves), NEW t \in Seq(Halves)
    PROVE  /\ s \o t \in Seq(Halves) /\ Len(s \o t) = Len(s) + Len(t)
           /\ \A i \in 1 .. Len(s) + Len(t) :
                (s \o t)[i] = IF i <= Len(s) THEN s[i] ELSE t[i - Len(s)]
  BY ConcatProperties

\* An answer arrives, whole or in part, of a servo that had not answered yet.
LEMMA AnswerArrives ==
    ASSUME NEW u \in Seq(Halves), NEW status \in Statuses, ~status.old,
           NEW parts \in {<<"head", "tail">>, <<"head">>, <<"tail">>, <<>>},
           NEW joints, status.joint \in joints, Paired(u), Fresh(u, joints)
    PROVE  LET a == [i \in DOMAIN parts |-> Half(status, parts[i])]
           IN  /\ a \in Seq(Halves) /\ u \o a \in Seq(Halves)
               /\ Paired(u \o a) /\ Fresh(u \o a, joints \ {status.joint})
  <1> DEFINE a == [i \in DOMAIN parts |-> Half(status, parts[i])]
  <1>1. /\ Len(parts) \in 0 .. 2 /\ DOMAIN parts = 1 .. Len(parts)
        /\ \A i \in 1 .. Len(parts) : parts[i] \in {"head", "tail"}
        /\ Len(parts) = 2 => parts[1] = "head" /\ parts[2] = "tail"
    OBVIOUS
  <1>2. \A i \in 1 .. Len(parts) : Half(status, parts[i]) \in Halves
    BY <1>1 DEF Half, Halves
  <1>3. /\ a \in Seq(Halves) /\ Len(a) = Len(parts)
        /\ \A i \in 1 .. Len(a) : a[i] = Half(status, parts[i])
    BY <1>1, <1>2
  <1> HIDE DEF a
  <1>4. /\ u \o a \in Seq(Halves) /\ Len(u \o a) = Len(u) + Len(a)
        /\ \A i \in 1 .. Len(u) + Len(a) : (u \o a)[i] = IF i <= Len(u) THEN u[i] ELSE a[i - Len(u)]
    <2>1. a \in Seq(Halves)
      BY <1>3
    <2> QED
      BY <2>1, InputsJoined
  <1>5. Len(u) \in Nat
    BY LenProperties
  <1>6. \A i \in 1 .. Len(u \o a) :
            \/ i \in 1 .. Len(u) /\ (u \o a)[i] = u[i]
            \/ i - Len(u) \in 1 .. Len(a) /\ (u \o a)[i] = Half(status, parts[i - Len(u)])
    BY <1>3, <1>4, <1>5
  <1>7. \A i \in 1 .. Len(u) : ~u[i].status.old /\ u[i].status.joint \notin joints
    BY DEF Fresh
  <1>8. \A p : Half(status, p).status = status /\ Half(status, p).part = p
    BY DEF Half
  <1>9. Fresh(u \o a, joints \ {status.joint})
    <2> SUFFICES ASSUME NEW i \in 1 .. Len(u \o a)
                 PROVE  /\ ~(u \o a)[i].status.old
                        /\ (u \o a)[i].status.joint \notin joints \ {status.joint}
      BY DEF Fresh
    <2> QED
      BY <1>6, <1>7, <1>8
  <1>10. Paired(u \o a)
    <2> DEFINE v == u \o a
    <2> SUFFICES ASSUME NEW i \in 1 .. Len(v), NEW k \in 1 .. Len(v), i < k,
                        v[i].status.joint = v[k].status.joint
                 PROVE  /\ k = i + 1
                        /\ v[i] = Half(v[k].status, "head") /\ v[k].part = "tail"
      BY DEF Paired
    <2>1. CASE k \in 1 .. Len(u)
      <3>1. i \in 1 .. Len(u) /\ v[i] = u[i] /\ v[k] = u[k]
        BY <2>1, <1>4, <1>5
      <3> QED
        BY <2>1, <3>1 DEF Paired
    <2>2. CASE k \notin 1 .. Len(u)
      <3>1. k - Len(u) \in 1 .. Len(a) /\ v[k] = Half(status, parts[k - Len(u)])
        BY <2>2, <1>6
      <3>2. i \notin 1 .. Len(u)
        <4> SUFFICES ASSUME i \in 1 .. Len(u) PROVE FALSE
          OBVIOUS
        <4>1. v[i] = u[i]
          BY <1>4, <1>5
        <4> QED
          BY <4>1, <3>1, <1>7, <1>8
      <3>3. i - Len(u) \in 1 .. Len(a) /\ v[i] = Half(status, parts[i - Len(u)])
        BY <3>2, <1>6
      <3> HIDE DEF v
      <3>4. i - Len(u) = 1 /\ k - Len(u) = 2 /\ Len(parts) = 2
        <4>1. Len(a) \in 0 .. 2 /\ Len(a) = Len(parts)
          BY <1>1, <1>3
        <4>2. i \in Nat /\ k \in Nat /\ i - Len(u) < k - Len(u)
          BY <3>1, <3>3, <1>5
        <4> DEFINE m == i - Len(u)
                   n == k - Len(u)
                   l == Len(a)
        <4>3. m \in 1 .. l /\ n \in 1 .. l /\ m < n /\ l \in 0 .. 2
          BY <3>1, <3>3, <4>1, <4>2
        <4> HIDE DEF m, n, l
        <4>4. m = 1 /\ n = 2 /\ l = 2
          BY <4>3
        <4> QED
          BY <4>1, <4>4 DEF m, n, l
      <3> QED
        BY <3>1, <3>3, <3>4, <1>1, <1>8
    <2> QED
      BY <2>1, <2>2
  <1> QED
    BY <1>3, <1>4, <1>9, <1>10 DEF a

\* A new request makes the old of what was in hand; of nothing it makes nothing.
LEMMA OlderHalves ==
    ASSUME NEW u \in Seq(Halves)
    PROVE  Older(u) \in Seq(Halves) /\ Len(Older(u)) = Len(u) /\ (u = <<>> => Older(u) = <<>>)
  <1> DEFINE o(i) == [u[i] EXCEPT !.status.old = TRUE]
  <1>1. Len(u) \in Nat /\ DOMAIN u = 1 .. Len(u) /\ \A i \in 1 .. Len(u) : u[i] \in Halves
    BY LenProperties, ElementOfSeq
  <1>2. \A i \in 1 .. Len(u) : o(i) \in Halves
    BY <1>1 DEF Halves, Statuses
  <1>3. Older(u) = [i \in 1 .. Len(u) |-> o(i)]
    BY <1>1 DEF Older
  <1> HIDE DEF o
  <1>4. Older(u) \in Seq(Halves) /\ Len(Older(u)) = Len(u)
    BY <1>1, <1>2, <1>3
  <1>5. u = <<>> => Older(u) = <<>>
    BY <1>4, EmptySeq
  <1> QED
    BY <1>4, <1>5

-----------------------------------------------------------------------------
(* The calls of the HAL. *)

\* Queued is a sequence of packets, and empty when no packet waits in it.
LEMMA QueuedTyped ==
    ASSUME LinkTypes
    PROVE  /\ Queued \in Seq(Packets)
           /\ (\A p \in Packets : ~Waits(Queued, p)) => Queued = <<>>
           /\ Queued = <<>> => wire = <<>> /\ tx = <<>>
           /\ OnlyStops(Queued) => \A p \in Packets : Waits(Queued, p) => p = "torqueOff"
  <1>1. Queued \in Seq(Packets)
    BY ConcatProperties DEF LinkTypes, Queued
  <1>2. ASSUME \A p \in Packets : ~Waits(Queued, p) PROVE Queued = <<>>
    <2> SUFFICES ASSUME Queued # <<>> PROVE FALSE
      OBVIOUS
    <2>1. Len(Queued) \in Nat \ {0}
      BY <1>1, EmptySeq
    <2>2. Queued[1] \in Packets
      BY <1>1, <2>1, ElementOfSeq
    <2> QED
      BY <1>2, <2>1, <2>2 DEF Waits
  <1>3. Queued = <<>> => wire = <<>> /\ tx = <<>>
    BY ConcatEqualIffEmpty DEF LinkTypes, Queued
  <1>4. OnlyStops(Queued) => \A p \in Packets : Waits(Queued, p) => p = "torqueOff"
    BY DEF OnlyStops, Waits
  <1> QED
    BY <1>1, <1>2, <1>3, <1>4

\* read: what waits stays, and a frame is made only when nothing is under way.
LEMMA ReadStep ==
    ASSUME IInv, NEW s, HalRead(s), UNCHANGED due
    PROVE  /\ open /\ open' /\ armed' = armed /\ linkOpen' = linkOpen
           /\ LinkTypes' /\ ProtocolTypes' /\ RoundInv' /\ FrameInv' /\ CollideInv'
           /\ Queued' = Queued
           /\ feedbackReady' \in BOOLEAN /\ (s # "Ok" => feedbackReady' = feedbackReady)
           /\ s = "Ok" => /\ rx # <<>> /\ due' = {} /\ rx' = <<>>
                          /\ buffer' = <<>> /\ seen' = {}
           /\ rx = <<>> => rx' = <<>> /\ UNCHANGED protocolVars
  <1>1. /\ LinkTypes /\ ProtocolTypes /\ BusTypes /\ FlagTypes
        /\ RoundInv /\ FrameInv /\ CollideInv
    BY DEF IInv, TypeOK
  <1>2. /\ open /\ open' = open /\ armed' = armed /\ feedbackReady' \in BOOLEAN
        /\ s # "Ok" => feedbackReady' = feedbackReady
    BY <1>1 DEF HalRead, FlagTypes
  <1>3. Len(rx) \in Nat
    BY <1>1, LenProperties DEF LinkTypes
  <1>4. ASSUME NEW size \in Nat, NEW st, LinkReceive(size, st)
        PROVE  /\ LinkTypes' /\ Queued' = Queued /\ CollideInv' /\ linkOpen' = linkOpen
               /\ rx' = SubSeq(rx, size + 1, Len(rx))
               /\ size = 0 => rx' = rx /\ st # "Ok"
    <2>1. /\ wire' \in Seq(Packets) /\ tx' \in Seq(Packets) /\ Len(tx') <= Len(tx)
          /\ Queued' = Queued /\ linkOpen' = linkOpen /\ (Pure(tx) => Pure(tx'))
          /\ rx' = SubSeq(rx, size + 1, Len(rx))
          /\ size = 0 => rx' = rx /\ st # "Ok"
      BY <1>1, <1>4, ReceiveKeeps DEF LinkTypes
    <2>2. rx' \in Seq(Halves)
      <3>1. \A i \in size + 1 .. Len(rx) : rx[i] \in Halves
        BY <1>1, <1>3, ElementOfSeq DEF LinkTypes
      <3> QED
        BY <3>1, <2>1, <1>3, SubSeqProperties
    <2>3. Len(tx) \in Nat /\ Len(tx') \in Nat
      BY <2>1, <1>1, LenProperties DEF LinkTypes
    <2>4. CollideInv'
      BY <2>1, <1>1 DEF CollideInv
    <2> QED
      BY <2>1, <2>2, <2>3, <2>4, <1>1 DEF LinkTypes
  <1>5. CASE \E size \in 1 .. Len(rx) :
                LinkReceive(size, "Ok") /\ DecodeFeedback(SubSeq(rx, 1, size), s)
    <2>1. PICK size \in 1 .. Len(rx) :
                LinkReceive(size, "Ok") /\ DecodeFeedback(SubSeq(rx, 1, size), s)
      BY <1>5
    <2>2. /\ LinkTypes' /\ Queued' = Queued /\ CollideInv' /\ linkOpen' = linkOpen
          /\ rx' = SubSeq(rx, size + 1, Len(rx))
      BY <2>1, <1>3, <1>4
    <2>3. /\ ProtocolTypes' /\ RoundInv' /\ FrameInv'
          /\ s = "Ok" => due = {} /\ rx' = <<>> /\ buffer' = <<>> /\ seen' = {}
      BY <1>1, <1>2, <2>1, <2>2, DecodeStep
    <2>4. rx # <<>>
      BY <1>3, EmptySeq
    <2> QED
      BY <1>2, <2>2, <2>3, <2>4
  <1>6. CASE LinkReceive(0, s) /\ UNCHANGED protocolVars
    <2>1. /\ LinkTypes' /\ Queued' = Queued /\ CollideInv' /\ linkOpen' = linkOpen
          /\ rx' = rx /\ s # "Ok"
      BY <1>4, <1>6
    <2>2. ProtocolTypes' /\ RoundInv' /\ FrameInv'
      BY <1>1, <1>2, <1>6, <2>1 DEF ProtocolTypes, RoundInv, FrameInv, protocolVars
    <2> QED
      BY <1>2, <1>6, <2>1, <2>2
  <1> QED
    BY <1>2, <1>5, <1>6 DEF HalRead

\* emergency_stop of an open HAL: a torque-off behind all that waits, or it is lost.
LEMMA EnterStep ==
    ASSUME IInv, open, EnterSafeState
    PROVE  /\ LinkTypes' /\ ProtocolTypes' /\ BusTypes' /\ RoundInv' /\ FrameInv' /\ CollideInv'
           /\ StopInv' /\ stopLost' \in BOOLEAN
           /\ linkOpen' = linkOpen /\ open' = open /\ armed' = FALSE /\ feedbackReady' = FALSE
           /\ rx' = rx /\ buffer' = buffer /\ seen' = seen
           /\ safeEntered' = TRUE /\ UNCHANGED <<got, disarm>>
           /\ \A p : p # "torqueOff" => (Waits(Queued', p) <=> Waits(Queued, p))
  <1>1. /\ LinkTypes /\ ProtocolTypes /\ BusTypes /\ FlagTypes
        /\ RoundInv /\ FrameInv /\ CollideInv
    BY DEF IInv, TypeOK
  <1>2. /\ armed' = FALSE /\ feedbackReady' = FALSE /\ open' = open /\ UNCHANGED protocolVars
        /\ safeEntered' = TRUE /\ UNCHANGED <<busVars, got, disarm>>
    BY DEF EnterSafeState, HalEmergencyStop
  <1>3. PICK s \in {"Ok", "NotReady", "IoError"} :
            /\ LinkTransmit(EncodeSafeStop, s)
            /\ stopLost' = (s # "Ok" /\ ~Contains(tx', "torqueOff"))
    BY DEF EnterSafeState, HalEmergencyStop
  <1>4. EncodeSafeStop \in Seq(Packets) /\ Len(EncodeSafeStop) <= 2 /\ Pure(EncodeSafeStop)
    BY Batches DEF Pure
  <1>5. /\ wire' \in Seq(Packets) /\ tx' \in Seq(Packets) /\ Len(tx') <= 2
        /\ linkOpen' = linkOpen /\ rx' = rx /\ (Pure(tx) => Pure(tx'))
        /\ \/ s = "NotReady" /\ Queued' = Queued /\ tx' = tx
           \/ s \in {"Ok", "IoError"} /\ Queued' = Queued \o EncodeSafeStop
    BY <1>1, <1>3, <1>4, TransmitQueues DEF LinkTypes
  <1>6. Queued \in Seq(Packets)
    BY <1>1, QueuedTyped
  <1>7. /\ LinkTypes' /\ ProtocolTypes' /\ BusTypes' /\ RoundInv' /\ FrameInv'
        /\ stopLost' \in BOOLEAN
    BY <1>1, <1>2, <1>3, <1>5
       DEF LinkTypes, ProtocolTypes, BusTypes, RoundInv, FrameInv, protocolVars, busVars
  <1>8. CASE s = "NotReady" /\ Queued' = Queued /\ tx' = tx
    <2>1. Contains(tx, "torqueOff") <=> Waits(tx, "torqueOff")
      BY DEF Contains, Waits
    <2>2. Waits(tx, "torqueOff") => ~EndsOn(Queued) /\ Waits(Queued, "torqueOff")
      BY <1>1, EndDropped DEF CollideInv, LinkTypes, Queued
    <2>3. CollideInv'
      BY <1>1, <1>2, <1>8 DEF CollideInv, busVars
    <2>4. StopInv'
      BY <1>2, <1>3, <1>8, <2>1, <2>2 DEF StopInv
    <2> QED
      BY <1>2, <1>5, <1>7, <1>8, <2>3, <2>4 DEF protocolVars
  <1>9. CASE Queued' = Queued \o EncodeSafeStop
    <2>1. /\ OnlyStopsBehind(Queued) => OnlyStopsBehind(Queued')
          /\ OnlyStops(Queued) => OnlyStops(Queued')
          /\ ~EndsOn(Queued') /\ Waits(Queued', "torqueOff")
          /\ \A p : p # "torqueOff" => (Waits(Queued', p) <=> Waits(Queued, p))
      BY <1>6, <1>9, StopAppended
    <2>2. CollideInv' /\ StopInv'
      BY <1>1, <1>2, <1>5, <2>1 DEF CollideInv, StopInv, busVars
    <2> QED
      BY <1>2, <1>5, <1>7, <2>1, <2>2 DEF protocolVars
  <1> QED
    BY <1>5, <1>8, <1>9

\* arm and write, when nothing is under way: the whole batch or nothing waits.
LEMMA SendStep ==
    ASSUME IInv, Silent, NEW batch \in {EncodeArm, Goal, EncodeSafeStop}, NEW s,
           LinkTransmit(batch, s),
           UNCHANGED <<protocolVars, open, due>>
    PROVE  /\ LinkTypes' /\ ProtocolTypes' /\ RoundInv' /\ FrameInv' /\ CollideInv'
           /\ TransactionInv' /\ linkOpen' = linkOpen /\ rx' = rx
  <1>1. LinkTypes /\ ProtocolTypes /\ RoundInv /\ FrameInv
    BY DEF IInv, TypeOK
  <1>2. /\ batch \in Seq(Packets) /\ Len(batch) <= 2 /\ OnlyStopsBehind(batch) /\ Pure(batch)
        /\ \/ Waits(batch, "bulkRead") /\ ~Waits(batch, "torqueOff")
           \/ \A p : Waits(batch, p) => p = "torqueOff"
    <2>1. CASE batch = EncodeArm
      BY <2>1, Batches DEF Pure
    <2>2. CASE batch = Goal
      BY <2>2, Batches DEF Pure
    <2>3. CASE batch = EncodeSafeStop
      BY <2>3, Batches DEF Pure, OnlyStopsBehind, Waits, EncodeSafeStop
    <2> QED
      BY <2>1, <2>2, <2>3
  <1>3. /\ wire' \in Seq(Packets) /\ tx' \in Seq(Packets) /\ Len(tx') <= 2
        /\ linkOpen' = linkOpen /\ rx' = rx /\ (Pure(tx) => Pure(tx'))
        /\ Queued' = Queued \/ Queued' = Queued \o batch
    BY <1>1, <1>2, TransmitQueues DEF LinkTypes
  <1>4. Queued' = <<>> \/ Queued' = batch
    BY <1>2, <1>3, ConcatEmptySeq DEF Silent
  <1>5. /\ OnlyStopsBehind(Queued')
        /\ \/ Waits(Queued', "bulkRead") /\ ~Waits(Queued', "torqueOff")
           \/ \A p : Waits(Queued', p) => p = "torqueOff"
    BY <1>2, <1>4, Batches
  <1>6. LinkTypes' /\ ProtocolTypes' /\ RoundInv' /\ FrameInv'
    BY <1>1, <1>3 DEF LinkTypes, ProtocolTypes, RoundInv, FrameInv, protocolVars
  <1>7. CollideInv'
    BY <1>3, <1>5 DEF IInv, CollideInv, Silent
  <1>8. TransactionInv'
    BY <1>3, <1>5 DEF TransactionInv, Unasked, Silent, protocolVars
  <1> QED
    BY <1>3, <1>6, <1>7, <1>8

\* A step that leaves link, protocol and bus alone.
LEMMA QuietStep ==
    ASSUME IInv, UNCHANGED <<linkVars, protocolVars, busVars, open>>
    PROVE  /\ LinkTypes' /\ ProtocolTypes' /\ BusTypes' /\ RoundInv' /\ FrameInv' /\ CollideInv'
           /\ Queued' = Queued
  <1>1. /\ LinkTypes /\ ProtocolTypes /\ BusTypes /\ RoundInv /\ FrameInv /\ CollideInv
    BY DEF IInv, TypeOK
  <1>2. Queued' = Queued
    BY DEF Queued, linkVars
  <1> QED
    BY <1>1, <1>2 DEF LinkTypes, ProtocolTypes, BusTypes, RoundInv, FrameInv, CollideInv,
                      linkVars, protocolVars, busVars

-----------------------------------------------------------------------------
(* The steps. *)

\* Steps of the flags alone.
LEMMA FlagsStep ==
    ASSUME IInv, RequestDisarm \/ CycleIdle \/ Stop \/ UNCHANGED vars
    PROVE  IInv'
  <1>1. UNCHANGED <<linkVars, protocolVars, busVars, open, feedbackReady, safeEntered, stopLost>>
    <2>1. CASE RequestDisarm
      BY <2>1 DEF RequestDisarm, halVars
    <2>2. CASE CycleIdle
      BY <2>2 DEF CycleIdle, halVars
    <2>3. CASE Stop
      BY <2>3 DEF Stop, halVars
    <2>4. CASE UNCHANGED vars
      BY <2>4 DEF vars, halVars, loopVars
    <2> QED
      BY <2>1, <2>2, <2>3, <2>4
  <1>2. /\ LinkTypes' /\ ProtocolTypes' /\ BusTypes' /\ RoundInv' /\ FrameInv' /\ CollideInv'
        /\ Queued' = Queued
    BY <1>1, QuietStep
  <1>3. FlagTypes /\ PhaseInv /\ TransactionInv /\ SilenceInv /\ StopInv
    BY DEF IInv, TypeOK
  <1>4. StopInv'
    BY <1>1, <1>2, <1>3 DEF StopInv, busVars
  <1>5. CASE RequestDisarm
    <2> USE <1>5 DEF RequestDisarm, loopVars, halVars, linkVars, protocolVars
    <2>1. FlagTypes' /\ PhaseInv'
      BY <1>3 DEF FlagTypes, PhaseInv
    <2>2. TransactionInv' /\ SilenceInv'
      BY <1>2, <1>3 DEF TransactionInv, Unasked, SilenceInv, MaySend
    <2> QED
      BY <1>2, <1>4, <2>1, <2>2 DEF IInv, TypeOK
  <1>6. CASE CycleIdle
    <2> USE <1>6 DEF CycleIdle, loopVars, halVars, linkVars, protocolVars, busVars
    <2>1. FlagTypes' /\ PhaseInv'
      BY <1>3 DEF FlagTypes, PhaseInv
    <2>2. TransactionInv'
      BY <1>2, <1>3 DEF TransactionInv, Unasked
    <2>3. SilenceInv'
      BY <1>2, <1>3 DEF SilenceInv, MaySend, Silent
    <2> QED
      BY <1>2, <1>4, <2>1, <2>2, <2>3 DEF IInv, TypeOK
  <1>7. CASE Stop
    <2> USE <1>7 DEF Stop, loopVars, halVars, linkVars, protocolVars, busVars
    <2>1. FlagTypes' /\ PhaseInv'
      BY <1>3 DEF FlagTypes, PhaseInv
    <2>2. TransactionInv' /\ SilenceInv'
      BY <1>2, <1>3 DEF TransactionInv, Unasked, SilenceInv, MaySend
    <2> QED
      BY <1>2, <1>4, <2>1, <2>2 DEF IInv, TypeOK
  <1>8. CASE UNCHANGED vars
    <2> USE <1>8 DEF vars, loopVars, halVars, linkVars, protocolVars, busVars
    <2>1. FlagTypes' /\ PhaseInv'
      BY <1>3 DEF FlagTypes, PhaseInv
    <2>2. TransactionInv'
      BY <1>2, <1>3 DEF TransactionInv, Unasked
    <2>3. SilenceInv'
      BY <1>2, <1>3 DEF SilenceInv, MaySend, Silent
    <2> QED
      BY <1>2, <1>4, <2>1, <2>2, <2>3 DEF IInv, TypeOK
  <1> QED
    BY <1>5, <1>6, <1>7, <1>8

\* A run starts: the startup request waits alone.
LEMMA StartStep ==
    ASSUME IInv, Start
    PROVE  IInv'
  <1>1. /\ LinkTypes /\ ProtocolTypes /\ BusTypes /\ FlagTypes /\ PhaseInv /\ StopInv /\ CollideInv
        /\ phase = "stopped" /\ ~open /\ safeEntered /\ wire = <<>> /\ tx = <<>> /\ due = {}
    BY DEF IInv, TypeOK, PhaseInv, Start
  <1>2. /\ engineArmed' = FALSE /\ safeEntered' = TRUE /\ fault' = FALSE /\ disarm' = FALSE
        /\ got' = FALSE /\ UNCHANGED <<torque, due, noise, stopLost>>
    BY DEF Start, busVars
  <1>3. Queued = <<>>
    BY <1>1, ConcatEmptySeq DEF Queued, LinkTypes
  <1>4. stopLost \/ torque = {}
    BY <1>1, <1>3, Batches DEF StopInv
  <1>5. /\ buffer' = <<>> /\ seen' = {} /\ faults' = {} /\ sample' = NoSamples /\ frame' = NoFrame
    BY DEF Start, HalOpenSafe, ProtocolReset
  <1>6. ProtocolTypes' /\ FrameInv' /\ BusTypes'
    <2>1. <<>> \in Seq(Halves) /\ Len(<<>>) <= 1
      BY EmptySeq
    <2>2. NoSamples \in [Joints -> Samples]
      BY DEF NoSamples, NoSample, Samples
    <2>3. /\ NoFrame \in [ready : BOOLEAN, samples : [Joints -> Samples], faults : SUBSET Joints]
          /\ NoFrame.ready = FALSE
      BY <2>2 DEF NoFrame
    <2> QED
      BY <1>1, <1>2, <1>5, <2>1, <2>2, <2>3 DEF ProtocolTypes, FrameInv, BusTypes
  <1>7. CASE HalOpenSafe("IoError") /\ phase' = "stopped"
    <2>1. UNCHANGED <<linkOpen, tx, wire, rx, open, armed, feedbackReady>>
      BY <1>7 DEF HalOpenSafe, linkVars, halVars
    <2>2. Queued' = Queued /\ LinkTypes'
      BY <2>1, <1>1 DEF Queued, LinkTypes
    <2>3. FlagTypes' /\ PhaseInv'
      BY <1>1, <1>2, <1>7, <2>1 DEF FlagTypes, PhaseInv
    <2>4. CollideInv'
      BY <1>1, <1>2, <2>1, <2>2 DEF CollideInv
    <2>5. TransactionInv' /\ RoundInv' /\ SilenceInv'
      BY <1>1, <1>7, <2>1 DEF TransactionInv, Unasked, RoundInv, SilenceInv, MaySend
    <2>6. StopInv'
      BY <1>1, <1>2, <2>2 DEF StopInv
    <2> QED
      BY <1>6, <2>2, <2>3, <2>4, <2>5, <2>6 DEF IInv, TypeOK
  <1>8. CASE HalOpenSafe("Ok") /\ phase' = "startup"
    <2>1. /\ linkOpen' = TRUE /\ open' = TRUE /\ armed' = FALSE /\ feedbackReady' = FALSE
          /\ rx' = <<>>
          /\ \E n \in 0 .. Len(EncodeStartup) : Sent(EncodeStartup, n)
      BY <1>8 DEF HalOpenSafe
    <2>2. PICK n \in 0 .. Len(EncodeStartup) : Sent(EncodeStartup, n)
      BY <2>1
    <2>3. EncodeStartup \in Seq(Packets) /\ Len(EncodeStartup) = 1
      BY Batches
    <2>4. /\ wire' \in Seq(Packets) /\ tx' \in Seq(Packets) /\ Len(tx') = 1 - n
          /\ Queued' = wire \o EncodeStartup /\ (Pure(EncodeStartup) => Pure(tx'))
      BY <1>1, <2>2, <2>3, SentKeeps DEF LinkTypes
    <2>5. Queued' = EncodeStartup
      BY <1>1, <2>3, <2>4, ConcatEmptySeq
    <2>6. LinkTypes'
      BY <2>1, <2>3, <2>4, EmptySeq DEF LinkTypes
    <2>7. FlagTypes' /\ PhaseInv'
      BY <1>1, <1>2, <1>8, <2>1 DEF FlagTypes, PhaseInv
    <2>8. CollideInv'
      BY <1>1, <1>2, <2>4, <2>5, Batches DEF CollideInv, Pure
    <2>9. TransactionInv' /\ SilenceInv'
      BY <1>5, <1>8, <2>1, <2>5, Batches DEF TransactionInv, Unasked, SilenceInv, MaySend
    <2>10. RoundInv'
      <3>1. buffer' \o rx' = <<>>
        BY <1>5, <2>1
      <3>2. Paired(<<>>) /\ Fresh(<<>>, {})
        BY DEF Paired, Fresh
      <3> QED
        BY <1>1, <1>2, <1>5, <3>1, <3>2 DEF RoundInv
    <2>11. StopInv'
      BY <1>2, <1>4, <2>5, Batches DEF StopInv
    <2> QED
      BY <1>6, <2>6, <2>7, <2>8, <2>9, <2>10, <2>11 DEF IInv, TypeOK
  <1> QED
    BY <1>7, <1>8 DEF Start

\* The loop waits for the startup sample.
LEMMA StartupStep ==
    ASSUME IInv, StartupPoll
    PROVE  IInv'
  <1>1. /\ FlagTypes /\ BusTypes /\ PhaseInv /\ TransactionInv /\ StopInv
        /\ phase = "startup"
    BY DEF IInv, TypeOK, StartupPoll
  <1>2. PICK s \in {"Ok", "NotReady", "IoError"} :
            /\ HalRead(s)
            /\ \/ s = "Ok" /\ phase' = "read" /\ UNCHANGED safeEntered
               \/ s = "NotReady" /\ UNCHANGED <<phase, safeEntered>>
               \/ phase' = "leave" /\ safeEntered' = FALSE
    BY DEF StartupPoll
  <1>3. UNCHANGED <<torque, due, noise, got, engineArmed, fault, disarm, stopLost>>
    BY DEF StartupPoll, busVars
  <1>4. /\ open /\ open' /\ armed' = armed /\ linkOpen' = linkOpen
        /\ LinkTypes' /\ ProtocolTypes' /\ RoundInv' /\ FrameInv' /\ CollideInv'
        /\ Queued' = Queued /\ feedbackReady' \in BOOLEAN
        /\ s = "Ok" => /\ rx # <<>> /\ due' = {} /\ rx' = <<>>
                       /\ buffer' = <<>> /\ seen' = {}
        /\ rx = <<>> => rx' = <<>> /\ UNCHANGED protocolVars
    BY <1>2, <1>3, ReadStep
  <1>5. FlagTypes' /\ BusTypes'
    BY <1>1, <1>2, <1>3, <1>4 DEF FlagTypes, BusTypes
  <1>6. PhaseInv'
    BY <1>1, <1>2, <1>3, <1>4 DEF PhaseInv
  <1>7. TransactionInv'
    BY <1>1, <1>2, <1>3, <1>4 DEF TransactionInv, Unasked, protocolVars
  <1>8. StopInv'
    BY <1>1, <1>2, <1>3, <1>4 DEF StopInv
  <1>9. SilenceInv'
    <2> SUFFICES ASSUME MaySend' PROVE Silent'
      BY DEF SilenceInv
    <2>1. s = "Ok" /\ ~fault /\ ~disarm
      BY <1>1, <1>2, <1>3 DEF MaySend
    <2>2. \A p \in Packets : ~Waits(Queued, p)
      BY <2>1, <1>1, <1>4 DEF TransactionInv, Unasked, Packets
    <2>3. Queued = <<>>
      BY <2>2, QueuedTyped DEF IInv, TypeOK
    <2> QED
      BY <2>1, <2>3, <1>4 DEF Silent
  <1> QED
    BY <1>4, <1>5, <1>6, <1>7, <1>8, <1>9 DEF IInv, TypeOK

\* The read of a cycle.
LEMMA ReadingStep ==
    ASSUME IInv, CycleRead
    PROVE  IInv'
  <1>1. /\ FlagTypes /\ BusTypes /\ PhaseInv /\ TransactionInv /\ StopInv /\ SilenceInv
        /\ phase = "read"
    BY DEF IInv, TypeOK, CycleRead
  <1>2. PICK s \in {"Ok", "NotReady", "IoError"} :
            /\ HalRead(s)
            /\ \/ /\ s = "Ok"
                  /\ phase' = "act" /\ got' = TRUE /\ UNCHANGED <<fault, engineArmed>>
               \/ /\ s = "NotReady"
                  /\ phase' = (IF engineArmed \/ disarm THEN "read" ELSE "act") /\ got' = FALSE
                  /\ UNCHANGED <<fault, engineArmed>>
               \/ phase' = "act" /\ got' = FALSE /\ fault' = TRUE /\ engineArmed' = FALSE
    BY DEF CycleRead
  <1>3. UNCHANGED <<torque, due, noise, safeEntered, disarm, stopLost>>
    BY DEF CycleRead, busVars
  <1>4. /\ open /\ open' /\ armed' = armed /\ linkOpen' = linkOpen
        /\ LinkTypes' /\ ProtocolTypes' /\ RoundInv' /\ FrameInv' /\ CollideInv'
        /\ Queued' = Queued /\ feedbackReady' \in BOOLEAN
        /\ s # "Ok" => feedbackReady' = feedbackReady
        /\ s = "Ok" => /\ rx # <<>> /\ due' = {} /\ rx' = <<>>
                       /\ buffer' = <<>> /\ seen' = {}
        /\ rx = <<>> => rx' = <<>> /\ UNCHANGED protocolVars
    BY <1>2, <1>3, ReadStep
  <1>5. FlagTypes' /\ BusTypes'
    BY <1>1, <1>2, <1>3, <1>4 DEF FlagTypes, BusTypes
  <1>6. PhaseInv'
    BY <1>1, <1>2, <1>3, <1>4 DEF PhaseInv
  <1>7. TransactionInv'
    BY <1>1, <1>2, <1>3, <1>4 DEF TransactionInv, Unasked, protocolVars
  <1>8. StopInv'
    BY <1>1, <1>2, <1>3, <1>4 DEF StopInv
  <1>9. SilenceInv'
    <2> SUFFICES ASSUME MaySend' PROVE Silent'
      BY DEF SilenceInv
    <2>1. ~fault' /\ ~disarm' /\ fault' = fault /\ engineArmed' = engineArmed
      BY <1>2 DEF MaySend
    <2>2. CASE s = "Ok"
      <3>1. \A p \in Packets : ~Waits(Queued, p)
        BY <2>1, <2>2, <1>1, <1>3, <1>4 DEF TransactionInv, Unasked, Packets
      <3>2. Queued = <<>>
        BY <3>1, QueuedTyped DEF IInv, TypeOK
      <3> QED
        BY <2>2, <3>2, <1>4 DEF Silent
    <2>3. CASE s # "Ok"
      <3>1. ~engineArmed /\ feedbackReady
        BY <2>1, <2>3, <1>2, <1>3, <1>4 DEF MaySend
      <3>2. Silent
        BY <3>1, <2>1, <1>1, <1>3 DEF SilenceInv, MaySend
      <3> QED
        BY <3>2, <1>3, <1>4 DEF Silent, protocolVars
    <2> QED
      BY <2>2, <2>3
  <1> QED
    BY <1>4, <1>5, <1>6, <1>7, <1>8, <1>9 DEF IInv, TypeOK

\* The stops of the loop: no step behind one sends before a new frame.
LEMMA StopStep ==
    ASSUME IInv, open, EnterSafeState, phase' \in {"read", "leave"},
           engineArmed' \in BOOLEAN, fault' \in BOOLEAN, fault' = TRUE \/ fault' = fault,
           fault' \/ disarm \/ phase' = "leave",
           engineArmed' => phase' = "leave"
    PROVE  IInv'
  <1>1. FlagTypes /\ PhaseInv /\ TransactionInv
    BY DEF IInv, TypeOK
  <1>2. /\ LinkTypes' /\ ProtocolTypes' /\ BusTypes' /\ RoundInv' /\ FrameInv' /\ CollideInv'
        /\ StopInv' /\ stopLost' \in BOOLEAN
        /\ linkOpen' = linkOpen /\ open' = open /\ armed' = FALSE /\ feedbackReady' = FALSE
        /\ rx' = rx /\ buffer' = buffer /\ seen' = seen
        /\ safeEntered' = TRUE /\ UNCHANGED <<got, disarm>>
        /\ \A p : p # "torqueOff" => (Waits(Queued', p) <=> Waits(Queued, p))
    BY EnterStep
  <1>3. FlagTypes'
    BY <1>1, <1>2 DEF FlagTypes
  <1>4. PhaseInv'
    BY <1>1, <1>2 DEF PhaseInv
  <1>5. TransactionInv'
    BY <1>1, <1>2 DEF TransactionInv, Unasked
  <1>6. SilenceInv'
    BY <1>2 DEF SilenceInv, MaySend
  <1> QED
    BY <1>2, <1>3, <1>4, <1>5, <1>6 DEF IInv, TypeOK

\* The stop of a disarm, of a fault and of the end of the loop.
LEMMA StoppingStep ==
    ASSUME IInv, DisarmStop \/ CycleFault \/ LeaveStop
    PROVE  IInv'
  <1>1. FlagTypes /\ PhaseInv /\ TransactionInv /\ StopInv
    BY DEF IInv, TypeOK
  <1>2. CASE DisarmStop
    BY <1>1, <1>2, StopStep DEF DisarmStop, PhaseInv, FlagTypes
  <1>3. CASE LeaveStop
    BY <1>1, <1>3, StopStep DEF LeaveStop, PhaseInv, FlagTypes
  <1>4. CASE CycleFault /\ ~safeEntered
    BY <1>1, <1>4, StopStep DEF CycleFault, PhaseInv, FlagTypes
  <1>5. CASE CycleFault /\ safeEntered
    <2>1. /\ UNCHANGED <<linkVars, protocolVars, busVars, open, armed, feedbackReady, got,
                         disarm, safeEntered, stopLost>>
          /\ phase = "act" /\ phase' = "read" /\ fault' = TRUE /\ engineArmed' = FALSE
      BY <1>5 DEF CycleFault, halVars
    <2>2. /\ LinkTypes' /\ ProtocolTypes' /\ BusTypes' /\ RoundInv' /\ FrameInv' /\ CollideInv'
          /\ Queued' = Queued
      BY <2>1, QuietStep
    <2>3. FlagTypes' /\ PhaseInv'
      BY <1>1, <2>1 DEF FlagTypes, PhaseInv, linkVars
    <2>4. TransactionInv' /\ SilenceInv'
      BY <1>1, <2>1, <2>2 DEF TransactionInv, Unasked, SilenceInv, MaySend, linkVars, protocolVars
    <2>5. StopInv'
      BY <1>1, <2>1, <2>2 DEF StopInv, busVars
    <2> QED
      BY <2>2, <2>3, <2>4, <2>5 DEF IInv, TypeOK
  <1> QED
    BY <1>2, <1>3, <1>4, <1>5

\* The loop arms or writes.
LEMMA SendingStep ==
    ASSUME IInv, CycleArm \/ CycleWrite
    PROVE  IInv'
  <1>1. FlagTypes /\ BusTypes /\ PhaseInv /\ TransactionInv /\ StopInv /\ SilenceInv
    BY DEF IInv, TypeOK
  <1>2. /\ phase = "act" /\ ~fault /\ ~disarm
        /\ UNCHANGED <<torque, due, noise, got, disarm, stopLost, open, feedbackReady, protocolVars>>
        /\ armed' \in BOOLEAN
    <2>1. CASE CycleArm
      BY <2>1, <1>1 DEF CycleArm, HalArm, busVars, FlagTypes
    <2>2. CASE CycleWrite
      BY <2>2, <1>1 DEF CycleWrite, HalWrite, busVars, halVars, FlagTypes
    <2> QED
      BY <2>1, <2>2
  <1>3. /\ safeEntered' = FALSE /\ engineArmed' \in BOOLEAN /\ fault' \in BOOLEAN
        /\ \/ phase' = "read" /\ engineArmed'
           \/ phase' = "act" /\ fault'
    <2>1. CASE CycleArm
      BY <2>1, <1>1 DEF CycleArm, FlagTypes
    <2>2. CASE CycleWrite
      BY <2>2, <1>1 DEF CycleWrite, FlagTypes, PhaseInv
    <2> QED
      BY <2>1, <2>2
  <1>4. \/ UNCHANGED linkVars
        \/ \E batch \in {EncodeArm, Goal, EncodeSafeStop}, s \in {"Ok", "NotReady", "IoError"} :
                Silent /\ LinkTransmit(batch, s)
    <2>1. CASE CycleArm
      <3>1. PICK s \in {"Ok", "NotReady", "IoError"} : HalArm(s)
        BY <2>1 DEF CycleArm
      <3>2. feedbackReady => Silent
        BY <2>1, <1>1 DEF CycleArm, SilenceInv, MaySend
      <3> QED
        BY <3>1, <3>2 DEF HalArm
    <2>2. CASE CycleWrite
      <3>1. PICK c \in Commands, s \in {"Ok", "NotReady", "IoError"} : HalWrite(c, s)
        BY <2>2 DEF CycleWrite
      <3>2. Silent
        BY <2>2, <1>1 DEF CycleWrite, SilenceInv, MaySend
      <3> QED
        BY <3>1, <3>2, CommandBatches DEF HalWrite
    <2> QED
      BY <2>1, <2>2
  <1>5. /\ LinkTypes' /\ ProtocolTypes' /\ RoundInv' /\ FrameInv' /\ CollideInv'
        /\ TransactionInv' /\ linkOpen' = linkOpen
    <2>1. CASE UNCHANGED linkVars
      <3>1. /\ LinkTypes' /\ ProtocolTypes' /\ RoundInv' /\ FrameInv' /\ CollideInv'
            /\ Queued' = Queued
        BY <2>1, <1>2, QuietStep DEF busVars
      <3>2. TransactionInv'
        BY <2>1, <3>1, <1>1, <1>2 DEF TransactionInv, Unasked, linkVars, protocolVars
      <3> QED
        BY <2>1, <3>1, <3>2 DEF linkVars
    <2>2. ASSUME NEW batch \in {EncodeArm, Goal, EncodeSafeStop}, NEW s, Silent,
                 LinkTransmit(batch, s)
          PROVE  /\ LinkTypes' /\ ProtocolTypes' /\ RoundInv' /\ FrameInv' /\ CollideInv'
                 /\ TransactionInv' /\ linkOpen' = linkOpen
      BY <2>2, <1>2, SendStep
    <2> QED
      BY <2>1, <2>2, <1>4
  <1>6. FlagTypes' /\ BusTypes'
    BY <1>1, <1>2, <1>3, <1>5 DEF FlagTypes, BusTypes
  <1>7. PhaseInv'
    BY <1>1, <1>2, <1>3, <1>5 DEF PhaseInv
  <1>8. StopInv' /\ SilenceInv'
    BY <1>3 DEF StopInv, SilenceInv, MaySend
  <1> QED
    BY <1>5, <1>6, <1>7, <1>8 DEF IInv, TypeOK

\* The run ends: what was not handed to the kernel is gone.
LEMMA CloseStep ==
    ASSUME IInv, LeaveClose
    PROVE  IInv'
  <1>1. /\ LinkTypes /\ ProtocolTypes /\ FlagTypes /\ BusTypes /\ PhaseInv /\ StopInv /\ FrameInv
        /\ CollideInv /\ phase = "leave" /\ safeEntered /\ open
    BY DEF IInv, TypeOK, LeaveClose, PhaseInv
  <1>2. /\ open' = FALSE /\ armed' = FALSE /\ feedbackReady' = FALSE
        /\ linkOpen' = FALSE /\ tx' = <<>> /\ rx' = <<>> /\ wire' = wire
    BY <1>1 DEF LeaveClose, HalClose, LinkClose
  <1>3. /\ phase' = "stopped" /\ engineArmed' = FALSE
        /\ stopLost' = (stopLost \/ Contains(tx, "torqueOff"))
        /\ UNCHANGED <<protocolVars, torque, due, noise, got, safeEntered, fault, disarm>>
    BY DEF LeaveClose, busVars
  <1>4. Queued' = wire
    BY <1>1, <1>2, ConcatEmptySeq DEF Queued, LinkTypes
  <1>5. /\ OnlyStopsBehind(Queued) => OnlyStopsBehind(wire)
        /\ OnlyStops(Queued) => OnlyStops(wire)
        /\ ~EndsOn(Queued) /\ ~Waits(tx, "torqueOff") => ~EndsOn(wire)
        /\ Waits(Queued, "torqueOff") <=> Waits(wire, "torqueOff") \/ Waits(tx, "torqueOff")
    BY <1>1, EndDropped DEF Queued, LinkTypes
  <1>6. Contains(tx, "torqueOff") <=> Waits(tx, "torqueOff")
    BY DEF Contains, Waits
  <1>7. LinkTypes' /\ ProtocolTypes' /\ BusTypes'
    BY <1>1, <1>2, <1>3, EmptySeq DEF LinkTypes, ProtocolTypes, BusTypes, protocolVars
  <1>8. FlagTypes' /\ PhaseInv'
    BY <1>1, <1>2, <1>3 DEF FlagTypes, PhaseInv, Contains
  <1>9. CollideInv'
    BY <1>1, <1>2, <1>3, <1>4, <1>5, Batches DEF CollideInv, Pure
  <1>10. TransactionInv' /\ RoundInv' /\ FrameInv' /\ SilenceInv'
    BY <1>1, <1>2, <1>3
       DEF TransactionInv, Unasked, RoundInv, FrameInv, SilenceInv, MaySend, protocolVars
  <1>11. StopInv'
    BY <1>1, <1>3, <1>4, <1>5, <1>6 DEF StopInv
  <1> QED
    BY <1>7, <1>8, <1>9, <1>10, <1>11 DEF IInv, TypeOK

\* The bus carries the first packet, or loses it.
LEMMA DeliverStep ==
    ASSUME IInv, BusDeliver
    PROVE  IInv'
  <1>1. /\ LinkTypes /\ ProtocolTypes /\ FlagTypes /\ BusTypes /\ PhaseInv /\ StopInv /\ FrameInv
        /\ CollideInv /\ TransactionInv /\ RoundInv /\ SilenceInv /\ wire # <<>>
    BY DEF IInv, TypeOK, BusDeliver
  <1>2. /\ wire' = Tail(wire)
        /\ UNCHANGED <<linkOpen, tx, seen, faults, frame, halVars, loopVars>>
    BY DEF BusDeliver
  <1>3. PICK arrives \in BOOLEAN :
        /\ noise' = IF arrives \/ due # {} THEN noise ELSE noise + 1
        /\ noise' <= MaxNoise
        /\ stopLost' = (\/ stopLost
                        \/ /\ ~arrives /\ Head(wire) = "torqueOff"
                           /\ ~Contains(Tail(wire) \o tx, "torqueOff"))
        /\ torque' = CASE arrives /\ Head(wire) = "torqueOn" -> Joints
                       [] arrives /\ Head(wire) = "torqueOff" -> {}
                       [] OTHER -> torque
        /\ IF arrives /\ Head(wire) = "bulkRead"
           THEN /\ due' = Joints
                /\ rx' = Older(rx) /\ buffer' = Older(buffer)
                /\ sample' = [j \in Joints |-> [sample[j] EXCEPT !.old = TRUE]]
           ELSE UNCHANGED <<due, rx, buffer, sample>>
    BY Zenon DEF BusDeliver
  <1>4. Queued \in Seq(Packets) /\ Queued # <<>>
    BY <1>1, QueuedTyped
  <1>5. Queued' = Tail(Queued) /\ Head(Queued) = Head(wire)
    <2>1. /\ Queued' = Tail(wire) \o tx /\ Len(wire) \in Nat \ {0} /\ Len(tx) \in Nat
          /\ Tail(wire) \in Seq(Packets) /\ Len(Tail(wire)) = Len(wire) - 1
          /\ \A i \in 1 .. Len(Tail(wire)) : Tail(wire)[i] = wire[i + 1]
      BY <1>1, <1>2, EmptySeq, LenProperties, HeadTailProperties DEF LinkTypes, Queued
    <2>2. /\ Len(Queued) = Len(wire) + Len(tx)
          /\ \A i \in 1 .. Len(wire) + Len(tx) :
                Queued[i] = IF i <= Len(wire) THEN wire[i] ELSE tx[i - Len(wire)]
      BY <1>1, ConcatProperties DEF LinkTypes, Queued
    <2>3. /\ Len(Queued') = Len(Tail(wire)) + Len(tx) /\ Queued' \in Seq(Packets)
          /\ \A i \in 1 .. Len(Tail(wire)) + Len(tx) :
                Queued'[i] = IF i <= Len(Tail(wire)) THEN Tail(wire)[i]
                             ELSE tx[i - Len(Tail(wire))]
      BY <1>1, <2>1, ConcatProperties DEF LinkTypes
    <2>4. /\ Tail(Queued) \in Seq(Packets) /\ Len(Tail(Queued)) = Len(Queued) - 1
          /\ \A i \in 1 .. Len(Tail(Queued)) : Tail(Queued)[i] = Queued[i + 1]
      BY <1>4, HeadTailProperties
    <2>5. Head(Queued) = Head(wire)
      BY <1>4, <2>1, <2>2
    <2>6. Len(Queued') = Len(Tail(Queued))
      BY <2>1, <2>2, <2>3, <2>4
    <2>7. \A i \in 1 .. Len(Queued') : Queued'[i] = Tail(Queued)[i]
      <3> SUFFICES ASSUME NEW i \in 1 .. Len(Queued') PROVE Queued'[i] = Tail(Queued)[i]
        OBVIOUS
      <3>1. Tail(Queued)[i] = Queued[i + 1] /\ i + 1 \in 1 .. Len(wire) + Len(tx)
        BY <2>1, <2>2, <2>4, <2>6
      <3>2. CASE i <= Len(Tail(wire))
        BY <3>1, <3>2, <2>1, <2>2, <2>3
      <3>3. CASE ~(i <= Len(Tail(wire)))
        <4>1. Queued'[i] = tx[i - Len(Tail(wire))]
          BY <3>3, <2>1, <2>3
        <4>2. Queued[i + 1] = tx[(i + 1) - Len(wire)]
          BY <3>1, <3>3, <2>1, <2>2
        <4>3. i - Len(Tail(wire)) = (i + 1) - Len(wire)
          BY <2>1
        <4> QED
          BY <3>1, <4>1, <4>2, <4>3
      <3> QED
        BY <3>2, <3>3
    <2>8. Queued' = Tail(Queued)
      BY <2>3, <2>4, <2>6, <2>7, SeqEqual
    <2> QED
      BY <2>5, <2>8
  <1>6. /\ OnlyStopsBehind(Queued')
        /\ Head(wire) = "bulkRead" => OnlyStops(Queued')
        /\ OnlyStops(Queued) => OnlyStops(Queued') /\ Head(wire) = "torqueOff"
        /\ ~EndsOn(Queued) => ~EndsOn(Queued')
        /\ ~EndsOn(Queued) /\ Head(wire) = "torqueOn" => Waits(Queued', "torqueOff")
        /\ \A p : Waits(Queued, p) <=> Head(wire) = p \/ Waits(Queued', p)
    BY <1>1, <1>4, <1>5, HeadDelivered DEF CollideInv
  <1>7. /\ wire' \in Seq(Packets) /\ Queued' \in Seq(Packets)
    BY <1>1, <1>2, <1>4, <1>5, HeadTailProperties DEF LinkTypes
  <1>8. BusTypes' /\ FlagTypes'
    <2>1. FlagTypes'
      BY <1>1, <1>2, <1>3 DEF FlagTypes, halVars, loopVars
    <2>2. noise' \in 0 .. MaxNoise
      BY <1>1, <1>3, StackAssumption DEF BusTypes
    <2>3. torque' \in SUBSET Joints /\ due' \in SUBSET Joints
      BY <1>1, <1>3 DEF BusTypes
    <2> QED
      BY <2>1, <2>2, <2>3 DEF BusTypes
  <1>9. FrameInv' /\ SilenceInv'
    <2>1. ~MaySend
      BY <1>1, <1>4 DEF SilenceInv, Silent
    <2>2. ~MaySend'
      BY <2>1, <1>2 DEF MaySend, halVars, loopVars
    <2> QED
      BY <2>2, <1>1, <1>2 DEF FrameInv, SilenceInv
  <1>10. StopInv'
    <2> SUFFICES ASSUME safeEntered', ~stopLost'
                 PROVE  ~EndsOn(Queued') /\ (torque' # {} => Waits(Queued', "torqueOff"))
      BY DEF StopInv
    <2>1. ~EndsOn(Queued) /\ (torque # {} => Waits(Queued, "torqueOff"))
      BY <1>1, <1>2, <1>3 DEF StopInv, loopVars
    <2>2. arrives \/ Head(wire) # "torqueOff" \/ Waits(Queued', "torqueOff")
      BY <1>2, <1>3 DEF Contains, Waits, Queued
    <2>3. ASSUME torque' # {} PROVE Waits(Queued', "torqueOff")
      <3>1. CASE Head(wire) = "torqueOn"
        BY <3>1, <2>1, <1>6
      <3>2. CASE Head(wire) = "torqueOff"
        BY <3>2, <2>2, <2>3, <1>3
      <3>3. CASE Head(wire) # "torqueOn" /\ Head(wire) # "torqueOff"
        BY <3>3, <2>1, <2>3, <1>3, <1>6
      <3> QED
        BY <3>1, <3>2, <3>3
    <2> QED
      BY <2>1, <2>3, <1>6
  <1>11. CASE arrives /\ Head(wire) = "bulkRead"
    <2>1. /\ due' = Joints /\ rx' = Older(rx) /\ buffer' = Older(buffer)
          /\ sample' = [j \in Joints |-> [sample[j] EXCEPT !.old = TRUE]]
      BY <1>3, <1>11
    <2>2. /\ rx' \in Seq(Halves) /\ Len(rx') = Len(rx) /\ (rx = <<>> => rx' = <<>>)
          /\ buffer' \in Seq(Halves) /\ Len(buffer') = Len(buffer) /\ (buffer = <<>> => buffer' = <<>>)
      BY <1>1, <2>1, OlderHalves DEF LinkTypes, ProtocolTypes
    <2>3. sample' \in [Joints -> Samples]
      BY <1>1, <2>1 DEF ProtocolTypes, Samples
    <2>4. LinkTypes' /\ ProtocolTypes'
      BY <1>1, <1>2, <1>7, <2>2, <2>3 DEF LinkTypes, ProtocolTypes
    <2>5. CollideInv'
      BY <1>1, <1>2, <1>6, <1>11 DEF CollideInv
    <2>6. open => rx = <<>> /\ buffer = <<>> /\ seen = {}
      BY <1>1, <1>6, <1>11 DEF TransactionInv, Unasked
    <2>7. TransactionInv'
      BY <1>1, <1>2, <1>6, <2>2, <2>6, <1>11
         DEF TransactionInv, Unasked, halVars, loopVars, OnlyStops, Waits
    <2>8. RoundInv'
      <3> SUFFICES ASSUME open
                   PROVE  /\ Paired(buffer' \o rx') /\ Fresh(buffer' \o rx', seen' \cup due')
                          /\ seen' \cap due' = {}
                          /\ \A j \in seen' : sample'[j].got /\ ~sample'[j].old
                          /\ faults' = {j \in seen' : sample'[j].error}
        BY <1>2 DEF RoundInv, halVars
      <3>1. buffer' \o rx' = <<>> /\ seen' = {} /\ faults' = {}
        BY <1>1, <1>2, <2>2, <2>6 DEF RoundInv
      <3> QED
        BY <3>1 DEF Paired, Fresh
    <2>9. PhaseInv'
      BY <1>1, <1>2, <2>2 DEF PhaseInv, halVars, loopVars
    <2> QED
      BY <1>8, <1>9, <1>10, <2>4, <2>5, <2>7, <2>8, <2>9 DEF IInv, TypeOK
  <1>12. CASE ~(arrives /\ Head(wire) = "bulkRead")
    <2>1. UNCHANGED <<due, rx, buffer, sample>>
      BY <1>3, <1>12
    <2>2. LinkTypes' /\ ProtocolTypes' /\ PhaseInv'
      BY <1>1, <1>2, <1>7, <2>1 DEF LinkTypes, ProtocolTypes, PhaseInv, halVars, loopVars
    <2>3. CollideInv'
      BY <1>1, <1>2, <1>6, <2>1 DEF CollideInv
    <2>4. RoundInv'
      BY <1>1, <1>2, <2>1 DEF RoundInv, halVars
    <2>5. TransactionInv'
      <3>1. Head(wire) = "bulkRead" => ~Waits(Queued', "torqueOn") /\ ~Waits(Queued', "goal")
        BY <1>6 DEF OnlyStops, Waits
      <3> QED
        BY <3>1, <1>1, <1>2, <1>6, <2>1 DEF TransactionInv, Unasked, halVars, loopVars
    <2> QED
      BY <1>8, <1>9, <1>10, <2>2, <2>3, <2>4, <2>5 DEF IInv, TypeOK
  <1> QED
    BY <1>11, <1>12

\* A servo answers.
LEMMA ReplyStep ==
    ASSUME IInv, BusReply
    PROVE  IInv'
  <1>1. /\ LinkTypes /\ ProtocolTypes /\ FlagTypes /\ BusTypes /\ PhaseInv /\ StopInv /\ FrameInv
        /\ CollideInv /\ TransactionInv /\ RoundInv /\ SilenceInv /\ due # {}
    BY DEF IInv, TypeOK, BusReply
  <1>2. PICK j \in due, error \in BOOLEAN,
             parts \in {<<"head", "tail">>, <<"head">>, <<"tail">>, <<>>} :
        /\ due' = due \ {j}
        /\ noise' = IF Len(parts) = 2 \/ wire # <<>> THEN noise ELSE noise + 1
        /\ noise' <= MaxNoise
        /\ rx' = IF linkOpen
                 THEN rx \o [i \in DOMAIN parts |->
                                Half([joint |-> j, error |-> error, old |-> FALSE], parts[i])]
                 ELSE rx
    BY Zenon DEF BusReply
  <1>3. UNCHANGED <<linkOpen, tx, wire, protocolVars, halVars, torque, loopVars, stopLost>>
    BY DEF BusReply
  <1> DEFINE status == [joint |-> j, error |-> error, old |-> FALSE]
             a == [i \in DOMAIN parts |-> Half(status, parts[i])]
  <1>4. status \in Statuses /\ ~status.old /\ status.joint = j
    BY <1>1 DEF Statuses, BusTypes
  <1>5. Queued' = Queued
    BY <1>3 DEF Queued
  <1>6. BusTypes' /\ FlagTypes'
    <2>1. noise' \in 0 .. MaxNoise
      BY <1>1, <1>2, StackAssumption DEF BusTypes
    <2>2. FlagTypes'
      BY <1>1, <1>3 DEF FlagTypes, halVars, loopVars
    <2> QED
      BY <1>1, <1>2, <1>3, <2>1, <2>2 DEF BusTypes
  <1>7. ProtocolTypes' /\ FrameInv' /\ StopInv' /\ CollideInv'
    BY <1>1, <1>2, <1>3, <1>5
       DEF ProtocolTypes, FrameInv, StopInv, CollideInv, protocolVars, loopVars
  <1>8. SilenceInv'
    <2>1. ~MaySend
      BY <1>1 DEF SilenceInv, Silent
    <2>2. ~MaySend'
      BY <2>1, <1>3 DEF MaySend, halVars, loopVars
    <2> QED
      BY <2>2 DEF SilenceInv
  <1>9. TransactionInv'
    <2>1. ~Waits(Queued, "bulkRead")
      BY <1>1 DEF CollideInv, OnlyStops, Waits
    <2> QED
      BY <2>1, <1>1, <1>3, <1>5 DEF TransactionInv, Unasked, halVars, loopVars
  <1>10. PhaseInv'
    BY <1>1, <1>2, <1>3 DEF PhaseInv, halVars, loopVars
  <1>11. CASE ~open
    <2>1. rx' = rx
      BY <1>1, <1>2, <1>11 DEF PhaseInv
    <2>2. LinkTypes' /\ RoundInv'
      BY <1>1, <1>3, <1>11, <2>1 DEF LinkTypes, RoundInv, halVars
    <2> QED
      BY <1>6, <1>7, <1>8, <1>9, <1>10, <2>2 DEF IInv, TypeOK
  <1>12. CASE open
    <2>1. rx' = rx \o a
      BY <1>1, <1>2, <1>12 DEF PhaseInv
    <2> DEFINE u == buffer \o rx
    <2>2. rx \in Seq(Halves) /\ buffer \in Seq(Halves) /\ u \in Seq(Halves)
      BY <1>1, InputsJoined DEF LinkTypes, ProtocolTypes
    <2>3. Paired(u) /\ Fresh(u, seen \cup due) /\ seen \cap due = {}
      BY <1>1, <1>12 DEF RoundInv
    <2> HIDE DEF status, u
    <2>4. /\ a \in Seq(Halves) /\ u \o a \in Seq(Halves)
          /\ Paired(u \o a) /\ Fresh(u \o a, (seen \cup due) \ {status.joint})
      <3>1. status.joint \in seen \cup due /\ status \in Statuses /\ ~status.old
        BY <1>4
      <3> DEFINE joints == seen \cup due
      <3>2. u \in Seq(Halves) /\ Paired(u) /\ Fresh(u, joints) /\ status.joint \in joints
        BY <2>2, <2>3, <3>1
      <3> HIDE DEF joints
      <3>3. /\ a \in Seq(Halves) /\ u \o a \in Seq(Halves)
            /\ Paired(u \o a) /\ Fresh(u \o a, joints \ {status.joint})
        BY <3>1, <3>2, AnswerArrives
      <3> QED
        BY <3>3 DEF joints
    <2> HIDE DEF a
    <2>5. buffer' \o rx' = u \o a
      BY <1>3, <2>1, <2>2, <2>4, JoinHalves DEF u, protocolVars
    <2>6. LinkTypes'
      BY <1>1, <1>3, <2>1, <2>2, <2>4, InputsJoined DEF LinkTypes
    <2>7. seen' \cup due' = (seen \cup due) \ {status.joint} /\ seen' \cap due' = {}
      BY <1>2, <1>3, <1>4, <2>3 DEF protocolVars
    <2>8. RoundInv'
      BY <1>1, <1>3, <1>12, <2>4, <2>5, <2>7 DEF RoundInv, protocolVars
    <2> QED
      BY <1>6, <1>7, <1>8, <1>9, <1>10, <2>6, <2>8 DEF IInv, TypeOK
  <1> QED
    BY <1>11, <1>12

-----------------------------------------------------------------------------
(* The theorems. *)

\* Before the first run.
LEMMA InitInv == Init => IInv
  <1> SUFFICES ASSUME Init PROVE IInv
    OBVIOUS
  <1> USE DEF Init, LinkInit, ProtocolInit
  <1>1. Queued = <<>>
    BY DEF Queued
  <1>2. LinkTypes /\ FlagTypes /\ BusTypes
    <2>1. LinkTypes
      BY EmptySeq DEF LinkTypes
    <2>2. FlagTypes
      BY DEF FlagTypes
    <2>3. BusTypes
      BY StackAssumption DEF BusTypes
    <2> QED
      BY <2>1, <2>2, <2>3
  <1>3. ProtocolTypes /\ FrameInv
    <2>1. NoSamples \in [Joints -> Samples]
      BY DEF NoSamples, NoSample, Samples
    <2>2. /\ NoFrame \in [ready : BOOLEAN, samples : [Joints -> Samples], faults : SUBSET Joints]
          /\ NoFrame.ready = FALSE
      BY <2>1 DEF NoFrame
    <2> QED
      BY <2>1, <2>2, EmptySeq DEF ProtocolTypes, FrameInv
  <1>4. PhaseInv /\ TransactionInv /\ RoundInv /\ SilenceInv
    BY DEF PhaseInv, TransactionInv, Unasked, RoundInv, SilenceInv, MaySend
  <1>5. CollideInv /\ StopInv
    BY <1>1, Batches DEF CollideInv, StopInv, Pure
  <1> QED
    BY <1>2, <1>3, <1>4, <1>5 DEF IInv, TypeOK

\* Every step keeps the invariant.
LEMMA NextInv == IInv /\ [Next]_vars => IInv'
  <1> SUFFICES ASSUME IInv, [Next]_vars PROVE IInv'
    OBVIOUS
  <1>1. CASE Start
    BY <1>1, StartStep
  <1>2. CASE RequestDisarm
    BY <1>2, FlagsStep
  <1>3. CASE CycleIdle
    BY <1>3, FlagsStep
  <1>4. CASE Stop
    BY <1>4, FlagsStep
  <1>5. CASE UNCHANGED vars
    BY <1>5, FlagsStep
  <1>6. CASE StartupPoll
    BY <1>6, StartupStep
  <1>7. CASE CycleRead
    BY <1>7, ReadingStep
  <1>8. CASE DisarmStop
    BY <1>8, StoppingStep
  <1>9. CASE CycleFault
    BY <1>9, StoppingStep
  <1>10. CASE LeaveStop
    BY <1>10, StoppingStep
  <1>11. CASE CycleArm
    BY <1>11, SendingStep
  <1>12. CASE CycleWrite
    BY <1>12, SendingStep
  <1>13. CASE LeaveClose
    BY <1>13, CloseStep
  <1>14. CASE BusDeliver
    BY <1>14, DeliverStep
  <1>15. CASE BusReply
    BY <1>15, ReplyStep
  <1> QED
    BY <1>1, <1>2, <1>3, <1>4, <1>5, <1>6, <1>7, <1>8, <1>9, <1>10, <1>11, <1>12, <1>13, <1>14,
       <1>15 DEF Next, Loop

\* The inductive invariant: what the link, the parser and the loop know of each other.
THEOREM Invariance == Spec => []IInv
  <1> QED
    BY InitInv, NextInv, PTL DEF Spec

\* Half duplex: nobody talks into a Bulk Read that is on its way or being
\* answered, except for the torque-off of an emergency stop; that of a safe-stop
\* command waits for the answers.
THEOREM HalfDuplex == Spec => []CommandsDoNotCollide
  <1>1. IInv => CommandsDoNotCollide
    <2> SUFFICES ASSUME IInv PROVE CommandsDoNotCollide
      OBVIOUS
    <2>1. Queued \in Seq(Packets) /\ DOMAIN Queued = 1 .. Len(Queued)
      BY QueuedTyped, LenProperties DEF IInv, TypeOK
    <2>2. \A p : Contains(Queued, p) <=> Waits(Queued, p)
      BY DEF Contains, Waits
    <2>3. Waits(Queued, "torqueOff") /\ (due # {} \/ Waits(Queued, "bulkRead")) =>
            fault \/ disarm \/ phase \in {"leave", "stopped"}
      BY DEF IInv, PhaseInv, TransactionInv, Unasked
    <2> QED
      BY <2>1, <2>2, <2>3
         DEF IInv, CollideInv, OnlyStops, OnlyStopsBehind, CommandsDoNotCollide, ToSet
  <1> QED
    BY Invariance, <1>1, PTL

\* Types, and every frame the engine gets is of one round of answers and has the
\* errors of all of them.
THEOREM FramesAreOneRound == Spec => []FramesAreTrue
  <1>1. IInv => FramesAreTrue
    <2> SUFFICES ASSUME IInv PROVE FramesAreTrue
      OBVIOUS
    <2>1. \A j \in Joints : frame.samples[j].old \in BOOLEAN
      BY DEF IInv, TypeOK, ProtocolTypes, Samples
    <2> QED
      BY <2>1 DEF IInv, FramesAreTrue, FrameInv, FrameIsOneRound, FrameTellsFaults
  <1> QED
    BY Invariance, <1>1, PTL

\* Once the loop has entered the safe state nothing that waits ends in an
\* energized servo, unless no torque-off was taken or retained, or the last was lost.
THEOREM StopIsLast == Spec => []StopStands
  <1>1. IInv => StopStands
    <2> SUFFICES ASSUME IInv PROVE StopStands
      OBVIOUS
    <2>1. Queued \in Seq(Packets) /\ DOMAIN Queued = 1 .. Len(Queued)
      BY QueuedTyped, LenProperties DEF IInv, TypeOK
    <2> QED
      BY <2>1 DEF IInv, StopInv, EndsOn, Waits, StopStands, EndsEnergized, Contains
  <1> QED
    BY Invariance, <1>1, PTL
====
