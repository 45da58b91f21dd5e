---- MODULE SpscRingProofs ----
(***************************************************************************)
(* For every set of messages and every capacity that is a power of two: the *)
(* ring is type correct, its two sides never copy the same slot at the same *)
(* time, and it implements the bounded FIFO queue.                          *)
(***************************************************************************)
EXTENDS SpscRing, Integers, SequenceTheorems, TLAPS

-----------------------------------------------------------------------------
(* Slots. *)

\* A ring has at least two slots.
LEMMA CapacityIsPositive == Capacity \in Nat /\ Capacity > 0 /\ Zero \in Value
  BY RingAssumption

\* A counter addresses a slot of the ring.
LEMMA SlotInRing ==
  ASSUME NEW c \in Nat
  PROVE  Slot(c) \in 0..Capacity-1
  BY CapacityIsPositive, RingAssumption DEF Slot

\* Two counters that are less than Capacity apart address different slots.
LEMMA SlotsDiffer ==
  ASSUME NEW a \in Nat, NEW b \in Nat, a < b, b - a < Capacity
  PROVE  Slot(a) # Slot(b)
  <1> DEFINE C == Capacity
  <1>0. C \in Nat /\ C > 0 BY RingAssumption
  <1>1. a = C * (a \div C) + (a % C) /\ b = C * (b \div C) + (b % C)
    BY <1>0
  <1>2. SUFFICES ASSUME a % C = b % C PROVE FALSE
    BY DEF Slot
  <1> DEFINE p == a \div C
             q == b \div C
  <1>3. p \in Int /\ q \in Int BY <1>0
  <1>4. b - a = C * (q - p)
    BY <1>0, <1>1, <1>2, <1>3
  <1>5. CASE q - p <= 0
    BY <1>0, <1>3, <1>4, <1>5
  <1>6. CASE q - p >= 1
    BY <1>0, <1>3, <1>4, <1>6
  <1> QED BY <1>3, <1>5, <1>6

-----------------------------------------------------------------------------
(* The inductive invariant. *)

\* Counters: what the other side loaded last never runs ahead, and the
\* producer never overtakes the consumer by more than the ring.
CountersInv ==
    /\ pTail <= tail /\ tail <= cHead /\ cHead <= head
    /\ head - pTail <= Capacity

\* The producer has a free slot while it copies, and its value is in the slot
\* before the head is published.
ProducerInv ==
    /\ pPc \in {"write", "publish"} => head - pTail < Capacity
    /\ pPc = "publish" => storage[Slot(head)] = pValue

\* The consumer reads only published slots, and has what it read.
ConsumerInv ==
    /\ cPc # "idle" => count < available
    /\ cPc \in {"read", "advance"} => tail < cHead
    /\ cPc = "advance" => candidate = storage[Slot(tail)]

\* What is left of a batch of several pops is already published.
BatchInv == cPc # "idle" /\ available > 1 => available - count <= cHead - tail

IInv == TypeOK /\ CountersInv /\ ProducerInv /\ ConsumerInv /\ BatchInv

LEMMA InitInv == Init => IInv
  BY CapacityIsPositive DEF Init, IInv, TypeOK, CountersInv, ProducerInv, ConsumerInv, BatchInv

\* Each step of the ring keeps the invariant.
LEMMA StepInv == IInv /\ [Next]_vars => IInv'
  <1> SUFFICES ASSUME IInv, [Next]_vars PROVE IInv'
    OBVIOUS
  <1> USE CapacityIsPositive
  <1>1. CASE PushRejected
    BY <1>1 DEF PushRejected, Full, consumerVars, IInv, TypeOK, CountersInv, ProducerInv,
                ConsumerInv, BatchInv
  <1>2. ASSUME NEW v \in Value, PushAdmitted(v) PROVE IInv'
    BY <1>2 DEF PushAdmitted, Full, consumerVars, IInv, TypeOK, CountersInv, ProducerInv,
                ConsumerInv, BatchInv
  <1>3. CASE WriteSlot
    <2>1. Slot(head) \in 0..Capacity-1 /\ Slot(tail) \in 0..Capacity-1
      BY SlotInRing DEF IInv, TypeOK
    <2>2. cPc = "advance" => Slot(tail) # Slot(head)
      BY <1>3, SlotsDiffer DEF WriteSlot, IInv, TypeOK, CountersInv, ProducerInv, ConsumerInv
    <2> QED
      BY <1>3, <2>1, <2>2 DEF WriteSlot, consumerVars, IInv, TypeOK, CountersInv, ProducerInv,
                              ConsumerInv, BatchInv
  <1>4. CASE PublishHead
    BY <1>4 DEF PublishHead, consumerVars, IInv, TypeOK, CountersInv, ProducerInv, ConsumerInv,
                BatchInv
  <1>5. CASE PopCall
    BY <1>5 DEF PopCall, producerVars, IInv, TypeOK, CountersInv, ProducerInv, ConsumerInv, BatchInv
  <1>6. CASE DrainCall
    <2>1. PICK h \in cHead..head : cHead' = h /\ available' = SizeApprox(h, tail)
      BY <1>6 DEF DrainCall
    <2>2. SizeApprox(h, tail) = h - tail
      BY <2>1 DEF SizeApprox, IInv, TypeOK, CountersInv
    <2> QED
      BY <1>6, <2>1, <2>2 DEF DrainCall, producerVars, IInv, TypeOK, CountersInv, ProducerInv,
                              ConsumerInv, BatchInv
  <1>7. CASE PopEmpty
    BY <1>7 DEF PopEmpty, producerVars, IInv, TypeOK, CountersInv, ProducerInv, ConsumerInv, BatchInv
  <1>8. CASE PopAdmitted
    BY <1>8 DEF PopAdmitted, producerVars, IInv, TypeOK, CountersInv, ProducerInv, ConsumerInv,
                BatchInv
  <1>9. CASE ReadSlot
    BY <1>9, SlotInRing DEF ReadSlot, producerVars, IInv, TypeOK, CountersInv, ProducerInv,
                            ConsumerInv, BatchInv
  <1>10. CASE AdvanceTail
    BY <1>10 DEF AdvanceTail, producerVars, IInv, TypeOK, CountersInv, ProducerInv, ConsumerInv,
                 BatchInv
  <1>11. CASE UNCHANGED vars
    BY <1>11 DEF vars, producerVars, consumerVars, IInv, TypeOK, CountersInv, ProducerInv,
                 ConsumerInv, BatchInv
  <1> QED
    BY <1>1, <1>2, <1>3, <1>4, <1>5, <1>6, <1>7, <1>8, <1>9, <1>10, <1>11
    DEF Next, Producer, Consumer

LEMMA Invariance == Spec => []IInv
  BY InitInv, StepInv, PTL DEF Spec

\* Every variable of the ring keeps its type.
THEOREM TypeCorrect == Spec => []TypeOK
  <1>1. IInv => TypeOK
    BY DEF IInv
  <1> QED
    BY <1>1, Invariance, PTL

\* The copies of the two sides never meet in one slot.
THEOREM RaceFree == Spec => []NoSlotRace
  <1>1. IInv => NoSlotRace
    <2> SUFFICES ASSUME IInv, pPc = "write", cPc = "read" PROVE Slot(head) # Slot(tail)
      BY DEF NoSlotRace
    <2>1. tail \in Nat /\ head \in Nat /\ tail < head /\ head - tail < Capacity
      BY CapacityIsPositive DEF IInv, TypeOK, CountersInv, ProducerInv, ConsumerInv
    <2> QED
      BY <2>1, SlotsDiffer
  <1> QED
    BY <1>1, Invariance, PTL

\* A drain ends only when it has taken its whole batch.
THEOREM DrainComplete == Spec => DrainTakesItsBatch
  <1> DEFINE Ends == cPc # "idle" /\ cPc' = "idle" /\ available > 1 => count' = available
  <1>1. IInv /\ [Next]_vars => [Ends]_vars
    <2> SUFFICES ASSUME IInv, Next, cPc # "idle", cPc' = "idle", available > 1
                 PROVE  count' = available
      OBVIOUS
    <2>1. ~PopEmpty
      BY DEF PopEmpty, IInv, TypeOK, CountersInv, ConsumerInv, BatchInv
    <2>2. CASE AdvanceTail
      BY <2>2 DEF AdvanceTail, IInv, TypeOK, ConsumerInv
    <2>3. CASE Producer
      BY <2>3 DEF Producer, PushRejected, PushAdmitted, WriteSlot, PublishHead, consumerVars
    <2> QED
      BY <2>1, <2>2, <2>3 DEF Next, Consumer, PopCall, DrainCall, PopAdmitted, ReadSlot
  <1> QED
    BY <1>1, Invariance, PTL DEF Spec, DrainTakesItsBatch

-----------------------------------------------------------------------------
(* The ring implements BoundedQueue. *)

\* What a ring with head h, tail t and slots s holds, oldest value first.
QueueOf(h, t, s) == [i \in 1..(h - t) |-> s[Slot(t + i - 1)]]

LEMMA ContentsIsQueueOf ==
  /\ Contents = QueueOf(head, tail, storage)
  /\ Contents' = QueueOf(head', tail', storage')
  BY DEF Contents, QueueOf

\* It is a sequence of as many values as lie between the counters.
LEMMA QueueOfIsSeq ==
  ASSUME NEW h \in Nat, NEW t \in Nat, t <= h, NEW s \in [0..Capacity-1 -> Value]
  PROVE  /\ QueueOf(h, t, s) \in Seq(Value)
         /\ Len(QueueOf(h, t, s)) = h - t
         /\ \A i \in 1..(h - t) : QueueOf(h, t, s)[i] = s[Slot(t + i - 1)]
  <1>1. h - t \in Nat
    OBVIOUS
  <1>2. \A i \in 1..(h - t) : s[Slot(t + i - 1)] \in Value
    BY <1>1, SlotInRing
  <1> QED
    BY <1>1, <1>2 DEF QueueOf

\* One more published value is appended.
LEMMA QueueOfAppend ==
  ASSUME NEW h \in Nat, NEW n \in Nat, n = h + 1, NEW t \in Nat, t <= h,
         NEW s \in [0..Capacity-1 -> Value]
  PROVE  QueueOf(n, t, s) = Append(QueueOf(h, t, s), s[Slot(h)])
  <1> DEFINE q == QueueOf(h, t, s)
             r == QueueOf(n, t, s)
             v == s[Slot(h)]
  <1>1. /\ q \in Seq(Value) /\ Len(q) = h - t
        /\ \A i \in 1..(h - t) : q[i] = s[Slot(t + i - 1)]
    BY QueueOfIsSeq
  <1>2. t <= n
    OBVIOUS
  <1>3. /\ r \in Seq(Value) /\ Len(r) = n - t
        /\ \A i \in 1..(n - t) : r[i] = s[Slot(t + i - 1)]
    BY <1>2, QueueOfIsSeq
  <1>4. v \in Value
    BY SlotInRing
  <1> HIDE DEF q, r, v
  <1>5. /\ Append(q, v) \in Seq(Value) /\ Len(Append(q, v)) = n - t
        /\ \A i \in 1..(h - t) : Append(q, v)[i] = q[i]
        /\ Append(q, v)[n - t] = v
    BY <1>1, <1>4, AppendProperties
  <1>6. ASSUME NEW i \in 1..(n - t)
        PROVE  r[i] = Append(q, v)[i]
    <2>1. CASE i = n - t
      <3>1. t + i - 1 = h
        BY <2>1
      <3> QED
        BY <1>3, <1>5, <2>1, <3>1 DEF v
    <2>2. CASE i \in 1..(h - t)
      BY <1>1, <1>3, <1>5, <2>2
    <2>3. i = n - t \/ i \in 1..(h - t)
      OBVIOUS
    <2> QED
      BY <2>1, <2>2, <2>3
  <1>7. r = Append(q, v)
    BY <1>3, <1>5, <1>6, SeqEqual
  <1> QED
    BY <1>7 DEF q, r, v

\* Without the value that is taken first, the rest remains.
LEMMA QueueOfTail ==
  ASSUME NEW h \in Nat, NEW t \in Nat, t < h, NEW s \in [0..Capacity-1 -> Value]
  PROVE  /\ QueueOf(h, t, s) # << >>
         /\ Head(QueueOf(h, t, s)) = s[Slot(t)]
         /\ Tail(QueueOf(h, t, s)) = QueueOf(h, t + 1, s)
  <1> DEFINE q == QueueOf(h, t, s)
             r == QueueOf(h, t + 1, s)
  <1>1. /\ q \in Seq(Value) /\ Len(q) = h - t
        /\ \A i \in 1..(h - t) : q[i] = s[Slot(t + i - 1)]
    <2>1. t <= h
      OBVIOUS
    <2> QED
      BY <2>1, QueueOfIsSeq
  <1>2. /\ r \in Seq(Value) /\ Len(r) = h - (t + 1)
        /\ \A i \in 1..(h - (t + 1)) : r[i] = s[Slot(t + 1 + i - 1)]
    <2>1. t + 1 \in Nat /\ t + 1 <= h
      OBVIOUS
    <2> HIDE DEF r
    <2>2. /\ QueueOf(h, t + 1, s) \in Seq(Value) /\ Len(QueueOf(h, t + 1, s)) = h - (t + 1)
          /\ \A i \in 1..(h - (t + 1)) : QueueOf(h, t + 1, s)[i] = s[Slot(t + 1 + i - 1)]
      BY <2>1, QueueOfIsSeq
    <2> QED
      BY <2>2 DEF r
  <1> HIDE DEF q, r
  <1>3. q # << >> /\ Head(q) = q[1] /\ 1 \in 1..(h - t)
    BY <1>1, HeadTailProperties
  <1>4. Head(q) = s[Slot(t)]
    <2>1. t + 1 - 1 = t
      OBVIOUS
    <2> QED
      BY <1>1, <1>3, <2>1
  <1>5. /\ Tail(q) \in Seq(Value) /\ Len(Tail(q)) = Len(r)
        /\ \A i \in 1..Len(Tail(q)) : Tail(q)[i] = q[i + 1]
    BY <1>1, <1>2, <1>3, HeadTailProperties
  <1>6. ASSUME NEW i \in 1..Len(r)
        PROVE  Tail(q)[i] = r[i]
    <2>1. i + 1 \in 1..(h - t) /\ i \in 1..(h - (t + 1)) /\ t + (i + 1) - 1 = t + 1 + i - 1
      BY <1>2
    <2>2. q[i + 1] = s[Slot(t + (i + 1) - 1)]
      BY <1>1, <2>1
    <2>3. r[i] = s[Slot(t + 1 + i - 1)]
      BY <1>2, <2>1
    <2> QED
      BY <1>5, <2>1, <2>2, <2>3
  <1>7. Tail(q) = r
    BY <1>2, <1>5, <1>6, SeqEqual
  <1> QED
    BY <1>3, <1>4, <1>7 DEF q, r

LEMMA InitRefines == Init => Queue!Init
  BY DEF Init, Queue!Init, Contents

\* Publishing the head appends the producer's value.
LEMMA PublishIsPush ==
  ASSUME IInv, PublishHead
  PROVE  Queue!Push(pValue)
  <1>1. /\ head \in Nat /\ tail \in Nat /\ tail <= head /\ head - tail < Capacity
        /\ storage \in [0..Capacity-1 -> Value] /\ storage[Slot(head)] = pValue
    BY CapacityIsPositive DEF PublishHead, IInv, TypeOK, CountersInv, ProducerInv
  <1>2. Len(Contents) < Capacity
    BY <1>1, ContentsIsQueueOf, QueueOfIsSeq
  <1>3. Contents' = Append(Contents, pValue)
    <2>1. head' \in Nat /\ head' = head + 1 /\ tail' = tail /\ storage' = storage
      BY <1>1 DEF PublishHead
    <2>2. QueueOf(head', tail, storage) = Append(QueueOf(head, tail, storage), storage[Slot(head)])
      BY <1>1, <2>1, QueueOfAppend
    <2> QED
      BY <1>1, <2>1, <2>2, ContentsIsQueueOf
  <1> QED
    BY <1>2, <1>3 DEF Queue!Push, PublishHead, consumerVars

\* Advancing the tail delivers and removes the oldest value.
LEMMA AdvanceIsPop ==
  ASSUME IInv, AdvanceTail
  PROVE  Queue!Pop
  <1>1. /\ head \in Nat /\ tail \in Nat /\ tail < head
        /\ storage \in [0..Capacity-1 -> Value] /\ candidate = storage[Slot(tail)]
    BY DEF AdvanceTail, IInv, TypeOK, CountersInv, ConsumerInv
  <1> QED
    BY <1>1, ContentsIsQueueOf, QueueOfTail DEF AdvanceTail, Queue!Pop

\* A step that moves neither counter nor delivers leaves the queue alone.
LEMMA OtherStepsStutter ==
  ASSUME IInv, [Next]_vars, ~PublishHead, ~AdvanceTail
  PROVE  UNCHANGED <<Contents, delivered>>
  <1>1. UNCHANGED <<head, tail, delivered>>
    BY DEF Next, Producer, Consumer, vars, producerVars, consumerVars, PushRejected, PushAdmitted,
           WriteSlot, PopCall, DrainCall, PopEmpty, PopAdmitted, ReadSlot
  <1>2. \A i \in 1..(head - tail) : storage'[Slot(tail + i - 1)] = storage[Slot(tail + i - 1)]
    <2>1. CASE WriteSlot
      <3> TAKE i \in 1..(head - tail)
      <3>1. tail + i - 1 \in Nat /\ tail + i - 1 < head /\ head - (tail + i - 1) < Capacity
        BY <2>1, CapacityIsPositive DEF WriteSlot, IInv, TypeOK, CountersInv, ProducerInv
      <3>2. Slot(tail + i - 1) # Slot(head) /\ Slot(tail + i - 1) \in 0..Capacity-1
        BY <3>1, SlotsDiffer, SlotInRing DEF IInv, TypeOK
      <3> QED
        BY <2>1, <3>2 DEF WriteSlot, IInv, TypeOK
    <2>2. CASE UNCHANGED storage
      BY <2>2
    <2> QED
      BY <2>1, <2>2 DEF Next, Producer, Consumer, vars, producerVars, consumerVars, PushRejected,
                        PushAdmitted, PopCall, DrainCall, PopEmpty, PopAdmitted, ReadSlot
  <1> QED
    BY <1>1, <1>2 DEF Contents

\* Every behaviour of the ring is, seen through its contents, a behaviour of the queue.
THEOREM RingImplementsQueue == Spec => ImplementsQueue
  <1>1. IInv /\ [Next]_vars => [Queue!Next]_<<Contents, delivered>>
    <2> SUFFICES ASSUME IInv, [Next]_vars PROVE [Queue!Next]_<<Contents, delivered>>
      OBVIOUS
    <2>1. CASE PublishHead
      BY <2>1, PublishIsPush DEF Queue!Next, IInv, TypeOK
    <2>2. CASE AdvanceTail
      BY <2>2, AdvanceIsPop DEF Queue!Next
    <2> QED
      BY <2>1, <2>2, OtherStepsStutter
  <1> QED
    BY <1>1, InitRefines, Invariance, PTL DEF Spec, ImplementsQueue, Queue!Spec

====
