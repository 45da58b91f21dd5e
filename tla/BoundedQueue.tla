---- MODULE BoundedQueue ----
(***************************************************************************)
(* What rtctrl::ipc::SpscRing promises its two users: a FIFO queue of at    *)
(* most Capacity values.  A push appends or has no effect, a pop delivers   *)
(* the oldest value exactly once.  SpscRing.tla implements it.              *)
(***************************************************************************)
EXTENDS Naturals, Sequences

CONSTANTS
    Value,      \* the messages (trivially copyable frames)
    Zero,       \* the value-initialised message T{}
    Capacity    \* number of slots of the ring

VARIABLES
    queue,      \* values accepted and not yet delivered, oldest first
    delivered   \* the last value handed to the consumer

Init ==
    /\ queue = << >>
    /\ delivered = Zero

Push(v) ==
    /\ Len(queue) < Capacity
    /\ queue' = Append(queue, v)
    /\ UNCHANGED delivered

Pop ==
    /\ queue # << >>
    /\ delivered' = Head(queue)
    /\ queue' = Tail(queue)

Next == Pop \/ \E v \in Value : Push(v)

Spec == Init /\ [][Next]_<<queue, delivered>>

====
