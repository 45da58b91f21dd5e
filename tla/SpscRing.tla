---- MODULE SpscRing ----
(***************************************************************************)
(* rtctrl::ipc::SpscRing (modules/ipc), the wait-free ring between exactly  *)
(* one producer and one consumer.  Every atomic load and store and every    *)
(* copy of a slot is a step of its own.                                     *)
(*                                                                          *)
(* Memory order: head_ and tail_ are stored with release and the other      *)
(* side's counter is loaded with acquire.  Such a load need not return the  *)
(* newest value: it returns any value of the counter that is not older than *)
(* the one this thread loaded before (coherence).  The loads below choose   *)
(* in that range.  A thread's own counter is always up to date.             *)
(*                                                                          *)
(* The 64-bit counters are natural numbers: 2^64 pushes are out of reach.   *)
(***************************************************************************)
EXTENDS Naturals, Sequences

CONSTANTS
    Value,      \* the messages
    Zero,       \* the value-initialised message T{}
    Capacity,   \* number of slots
    MaxPushes   \* bound of the model: number of accepted pushes

ASSUME RingAssumption ==
    /\ Zero \in Value
    /\ Capacity \in Nat
    /\ \E k \in 1..Capacity : Capacity = 2^k
    /\ MaxPushes \in Nat

VARIABLES
    head,       \* head_: number of values published by the producer
    tail,       \* tail_: number of values taken by the consumer
    storage,    \* storage_: the slots
    pPc,        \* producer: "idle", "write" (copying into a slot), "publish"
    pValue,     \* producer: the argument of try_push
    pTail,      \* producer: the value of tail_ it loaded last
    cPc,        \* consumer: "idle", "loop" (before try_pop), "read", "advance"
    cHead,      \* consumer: the value of head_ it loaded last
    candidate,  \* consumer: the value copied out of a slot
    available,  \* consumer: the number of pops its call may make
    count,      \* consumer: the number of pops its call has made
    delivered   \* the last value the consumer received

producerVars == <<pPc, pValue, pTail>>
consumerVars == <<cPc, cHead, candidate, available, count, delivered>>
vars == <<head, tail, storage, producerVars, consumerVars>>

\* counter & (Capacity - 1), for a Capacity that is a power of two.
Slot(counter) == counter % Capacity

\* Mutant of SizeApprox: one slot too many.
SizeApproxOffByOne(h, t) ==
    IF h < t THEN 0 ELSE IF h - t >= Capacity THEN Capacity ELSE h - t + 1

\* size_approx() of the loaded counters.
SizeApprox(h, t) ==
    IF h < t THEN 0 ELSE IF h - t > Capacity THEN Capacity ELSE h - t

Init ==
    /\ head = 0 /\ tail = 0
    /\ storage = [s \in 0..Capacity-1 |-> Zero]
    /\ pPc = "idle" /\ pValue = Zero /\ pTail = 0
    /\ cPc = "idle" /\ cHead = 0 /\ candidate = Zero
    /\ available = 0 /\ count = 0 /\ delivered = Zero

-----------------------------------------------------------------------------
(* The producer: try_push. *)

\* Mutant of Full: one value too many is let in.
FullLate(h, t) == h - t > Capacity

Full(h, t) == h - t = Capacity

PushRejected ==
    /\ pPc = "idle"
    /\ \E t \in pTail..tail : Full(head, t) /\ pTail' = t
    /\ UNCHANGED <<head, tail, storage, pPc, pValue, consumerVars>>

\* Mutant of PushAdmitted: the head is published before the slot is written.
PushAdmittedEarly(v) ==
    /\ pPc = "idle"
    /\ head < MaxPushes
    /\ \E t \in pTail..tail : ~Full(head, t) /\ pTail' = t
    /\ pValue' = v
    /\ pPc' = "write"
    /\ head' = head + 1
    /\ UNCHANGED <<tail, storage, consumerVars>>

PushAdmitted(v) ==
    /\ pPc = "idle"
    /\ head < MaxPushes
    /\ \E t \in pTail..tail : ~Full(head, t) /\ pTail' = t
    /\ pValue' = v
    /\ pPc' = "write"
    /\ UNCHANGED <<head, tail, storage, consumerVars>>

WriteSlot ==
    /\ pPc = "write"
    /\ storage' = [storage EXCEPT ![Slot(head)] = pValue]
    /\ pPc' = "publish"
    /\ UNCHANGED <<head, tail, pValue, pTail, consumerVars>>

PublishHead ==
    /\ pPc = "publish"
    /\ head' = head + 1
    /\ pPc' = "idle"
    /\ UNCHANGED <<tail, storage, pValue, pTail, consumerVars>>

Producer == PushRejected \/ WriteSlot \/ PublishHead \/ \E v \in Value : PushAdmitted(v)

-----------------------------------------------------------------------------
(* The consumer: try_pop on its own is a call of one iteration, and         *)
(* drain_latest is a call of at most size_approx() iterations of try_pop.   *)

PopCall ==
    /\ cPc = "idle"
    /\ available' = 1 /\ count' = 0
    /\ cPc' = "loop"
    /\ UNCHANGED <<head, tail, storage, producerVars, cHead, candidate, delivered>>

DrainCall ==
    /\ cPc = "idle"
    /\ \E h \in cHead..head :
          /\ cHead' = h
          /\ available' = SizeApprox(h, tail)
    /\ count' = 0
    /\ cPc' = IF available' = 0 THEN "idle" ELSE "loop"
    /\ UNCHANGED <<head, tail, storage, producerVars, candidate, delivered>>

\* try_pop finds the ring empty and ends the call.
PopEmpty ==
    /\ cPc = "loop"
    /\ \E h \in cHead..head : h = tail /\ cHead' = h
    /\ cPc' = "idle"
    /\ UNCHANGED <<head, tail, storage, producerVars, candidate, available, count, delivered>>

PopAdmitted ==
    /\ cPc = "loop"
    /\ \E h \in cHead..head : h # tail /\ cHead' = h
    /\ cPc' = "read"
    /\ UNCHANGED <<head, tail, storage, producerVars, candidate, available, count, delivered>>

ReadSlot ==
    /\ cPc = "read"
    /\ candidate' = storage[Slot(tail)]
    /\ cPc' = "advance"
    /\ UNCHANGED <<head, tail, storage, producerVars, cHead, available, count, delivered>>

AdvanceTail ==
    /\ cPc = "advance"
    /\ tail' = tail + 1
    /\ delivered' = candidate
    /\ count' = count + 1
    /\ cPc' = IF count' < available THEN "loop" ELSE "idle"
    /\ UNCHANGED <<head, storage, producerVars, cHead, candidate, available>>

Consumer == PopCall \/ DrainCall \/ PopEmpty \/ PopAdmitted \/ ReadSlot \/ AdvanceTail

Next == Producer \/ Consumer

Spec == Init /\ [][Next]_vars

-----------------------------------------------------------------------------
(* Properties. *)

\* Every variable stays in its range, and never more than Capacity slots are in use.
TypeOK ==
    /\ head \in Nat /\ tail \in Nat
    /\ storage \in [0..Capacity-1 -> Value]
    /\ pPc \in {"idle", "write", "publish"} /\ pValue \in Value /\ pTail \in Nat
    /\ cPc \in {"idle", "loop", "read", "advance"} /\ cHead \in Nat
    /\ candidate \in Value /\ delivered \in Value
    /\ available \in 0..Capacity /\ count \in 0..Capacity

\* The plain (non-atomic) copies never touch one slot at the same time: while
\* try_push copies into a slot, try_pop is not copying out of that slot,
\* however stale the counters the two sides loaded.
NoSlotRace ==
    ~ (pPc = "write" /\ cPc = "read" /\ Slot(head) = Slot(tail))

\* drain_latest takes exactly the values that were published when it looked:
\* a call of several pops never ends because a pop found the ring empty, and
\* it does not go on to values published meanwhile.
DrainTakesItsBatch ==
    [][cPc # "idle" /\ cPc' = "idle" /\ available > 1 => count' = available]_vars

\* The values between the counters, oldest first: the queue the ring represents.
Contents == [i \in 1..(head - tail) |-> storage[Slot(tail + i - 1)]]

Queue == INSTANCE BoundedQueue WITH queue <- Contents, delivered <- delivered

\* The ring implements the bounded FIFO queue: no value is lost, repeated,
\* reordered or torn, and at most Capacity are held.
ImplementsQueue == Queue!Spec

====
