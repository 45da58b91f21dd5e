---- MODULE CommandBridgeProofs ----
(***************************************************************************)
(* Proofs about CommandBridge.tla, for any number of sources, any binding,  *)
(* any frames the links deliver, any leases and capacities.  The properties *)
(* are not inductive: what the ingress holds is ordered only because the    *)
(* arbiter's entries only move forward, and the winner is the best source   *)
(* only because a poll judges every slot at one reading of the clock.       *)
(***************************************************************************)
EXTENDS CommandBridge, SequenceTheorems, TLAPS

\* The locals of the two polls at each point of the loop.
LoopInv ==
    /\ pollNow <= now
    /\ pc \in {"receive", "parse", "judge"} => slot \in Slots
    /\ pc = "publish" => slot = SlotCount
    /\ pc \in {"idle", "observe"} => slot = 0 /\ winner = NoSlot
    /\ pc \notin {"parse", "judge"} => got = NoTarget
    /\ got.seq > 0 => got.slot = slot /\ got.created = pollNow /\ got.until <= pollNow + MaxLease

\* An entry holds a target of its own source.
SlotInv == \A s \in Slots : entry[s].seq > 0 => entry[s].slot = s

\* The winner lives and has a better claim than every live source judged so far.
Beats(w, s) == priority[s] < priority[w] \/ (priority[s] = priority[w] /\ w < s)

WinnerInv ==
    /\ winner # NoSlot => winner < slot /\ Live(entry[winner])
    /\ \A s \in Slots : s < slot /\ s # winner /\ Live(entry[s]) =>
           winner # NoSlot /\ Beats(winner, s)

\* What was published last is the last item of the ring, or was taken from it.
DeliveryInv ==
    /\ lastOut <= outSeq
    /\ ingress = << >> => (published[1] # NoSlot => heard[published[1]].seq = published[2])
    /\ ingress # << >> =>
           LET last == ingress[Len(ingress)] IN
           last.out = outSeq /\ last.out > lastOut
             /\ published = <<last.target.slot, last.target.seq>>

\* Along entry, ring and controller, the targets of a source only get older.
Newer(t, u) == t.seq > u.seq \/ t = u

OrderInv ==
    /\ \A s \in Slots : Newer(entry[s], heard[s])
    /\ \A i \in 1..Len(ingress) :
           LET t == ingress[i].target IN Newer(entry[t.slot], t) /\ Newer(t, heard[t.slot])

\* A poll without a disarm runs behind a Clear observation that was recent.
VisionInv ==
    /\ tripped = disarm
    /\ latest.seq > 0 => latest.scene = "Clear"
    /\ pc \in {"receive", "parse", "judge", "publish"} /\ ~disarm =>
           latest.seq > 0 /\ Recent(latest, pollNow)

BridgeInv ==
    /\ TypeOK /\ LoopInv /\ LeasesAreBounded /\ SlotInv
    /\ WinnerInv /\ DeliveryInv /\ OrderInv /\ VisionInv

-----------------------------------------------------------------------------
(* Facts about the operators. *)

LEMMA SlotFacts == 0 \in Slots /\ NoSlot \notin Slots /\ Slots \subseteq Nat /\ NoTarget \in Targets
  BY BridgeAssumption DEF Slots, NoSlot, NoTarget, Targets

LEMMA LeastFacts ==
  ASSUME NEW a \in Nat, NEW b \in Nat
  PROVE  Least(a, b) \in Nat /\ Least(a, b) <= a /\ Least(a, b) <= b
  BY DEF Least

\* The last item of a nonempty sequence.
LEMMA LastItem ==
  ASSUME NEW S, NEW q \in Seq(S), q # << >>
  PROVE  Len(q) \in 1..Len(q) /\ q[Len(q)] \in S
  OBVIOUS

LEMMA EmptyBuffer ==
  ASSUME NEW S
  PROVE  << >> \in Seq(S) /\ Len(<< >>) = 0
  OBVIOUS

\* What the arbiter keeps is the old target or the new one with a lease that
\* ends no later than the new one's and than the local lease.
LEMMA StoredFacts ==
  ASSUME NEW old \in Targets, NEW t \in Targets
  PROVE  /\ Stored(old, t) \in Targets
         /\ \/ Stored(old, t) = old
            \/ /\ t.seq > old.seq /\ Stored(old, t).seq = t.seq /\ Stored(old, t).slot = t.slot
               /\ Stored(old, t).created = t.created
               /\ Stored(old, t).until <= t.until
               /\ Stored(old, t).until <= t.created + ArbiterLease
  <1>1. CASE Stored(old, t) = old
    BY <1>1
  <1>2. CASE Stored(old, t) # old
    <2> DEFINE d == Least(t.until, t.created + ArbiterLease)
    <2>1. t.seq > old.seq /\ Stored(old, t) = [t EXCEPT !.until = d]
      BY <1>2 DEF Stored
    <2>2. t.until \in Nat /\ t.created + ArbiterLease \in Nat
      BY BridgeAssumption DEF Targets
    <2>3. d \in Nat /\ d <= t.until /\ d <= t.created + ArbiterLease
      BY <2>2, LeastFacts
    <2> HIDE DEF d
    <2> QED
      BY <2>1, <2>3 DEF Targets
  <1> QED
    BY <1>1, <1>2

LEMMA RoomType ==
  ASSUME NEW s \in Slots, NEW buffer \in Seq(Items(s)), Len(buffer) <= RxCapacity
  PROVE  Room(buffer) \in Seq(Items(s)) /\ Len(Room(buffer)) <= RxCapacity
  <1>1. CASE Len(buffer) = RxCapacity
    <2> DEFINE rest == SubSeq(buffer, 2, Len(buffer))
    <2>1. Len(buffer) \in Nat \ {0}
      BY <1>1, BridgeAssumption
    <2>2. \A i \in 2..Len(buffer) : buffer[i] \in Items(s)
      BY <2>1, ElementOfSeq
    <2>3. rest \in Seq(Items(s)) /\ Len(rest) = IF 2 <= Len(buffer) THEN Len(buffer) - 1 ELSE 0
      BY <2>1, <2>2, SubSeqProperties
    <2>4. <<Junk>> \in Seq(Items(s)) /\ Len(<<Junk>>) = 1
      BY DEF Items
    <2> HIDE DEF rest
    <2>5. <<Junk>> \o rest \in Seq(Items(s)) /\ Len(<<Junk>> \o rest) = 1 + Len(rest)
      BY <2>3, <2>4, ConcatProperties
    <2>6. Room(buffer) = <<Junk>> \o rest
      BY <1>1 DEF Room, rest
    <2> QED
      BY <1>1, <2>1, <2>3, <2>5, <2>6
  <1>2. CASE Len(buffer) # RxCapacity
    BY <1>2 DEF Room
  <1> QED
    BY <1>1, <1>2

LEMMA ReceivedType ==
  ASSUME NEW s \in Slots, NEW buffer \in Seq(Items(s)), Len(buffer) <= RxCapacity,
         NEW b \in Received(s, buffer)
  PROVE  b \in Seq(Items(s)) /\ Len(b) <= RxCapacity
  <1> DEFINE tail == Len(buffer)
             whole == [kind |-> "frame", frame |-> buffer[tail].frame]
             torn == tail > 0 /\ buffer[tail].kind = "part"
             resumed == IF torn THEN {[buffer EXCEPT ![tail] = i] : i \in {Junk, whole}}
                                ELSE {buffer}
  <1>1. ASSUME NEW r \in resumed
        PROVE  r \in Seq(Items(s)) /\ Len(r) <= RxCapacity
    <2>1. CASE torn
      <3>1. PICK i \in {Junk, whole} : r = [buffer EXCEPT ![tail] = i]
        BY <1>1, <2>1
      <3>2. tail \in 1..Len(buffer) /\ buffer[tail] \in Items(s)
        BY <2>1, ElementOfSeq
      <3>3. Junk \in Items(s) /\ whole \in Items(s)
        BY <2>1, <3>2 DEF Items, Junk
      <3> HIDE DEF tail, whole
      <3> QED
        BY <3>1, <3>2, <3>3, ExceptSeq
    <2>2. CASE ~torn
      BY <1>1, <2>2
    <2> QED
      BY <2>1, <2>2
  <1>2. \/ b = buffer
        \/ b \in resumed
        \/ \E r \in resumed, i \in Items(s) : Len(r) < RxCapacity /\ b = Append(r, i)
    BY DEF Received
  <1> HIDE DEF resumed
  <1>3. ASSUME NEW r \in resumed, NEW i \in Items(s), Len(r) < RxCapacity, b = Append(r, i)
        PROVE  b \in Seq(Items(s)) /\ Len(b) <= RxCapacity
    <2>1. r \in Seq(Items(s))
      BY <1>1
    <2>2. b \in Seq(Items(s)) /\ Len(b) = Len(r) + 1
      BY <1>3, <2>1, AppendProperties
    <2> QED
      BY <1>3, <2>1, <2>2, LenProperties, BridgeAssumption
  <1> QED
    BY <1>1, <1>2, <1>3

-----------------------------------------------------------------------------
(* Types. *)

LEMMA InitTypes == Init => TypeOK
  <1> SUFFICES ASSUME Init PROVE TypeOK
    OBVIOUS
  <1>1. VisionTypes
    BY DEF Init, VisionInit, VisionTypes
  <1>2. LoopTypes
    BY SlotFacts, BridgeAssumption DEF Init, LoopTypes, NoSlot
  <1>3. SourceTypes
    BY EmptyBuffer, BridgeAssumption DEF Init, SourceTypes
  <1>4. ArbiterTypes /\ EngineTypes
    BY SlotFacts, EmptyBuffer, BridgeAssumption DEF Init, ArbiterTypes, EngineTypes, NoSlot
  <1> QED
    BY <1>1, <1>2, <1>3, <1>4 DEF TypeOK

\* Only the vision checks change what vision knows.
LEMMA VisionStep == VisionTypes /\ [Next]_vars => VisionTypes'
  <1> SUFFICES ASSUME VisionTypes, [Next]_vars PROVE VisionTypes'
    OBVIOUS
  <1> USE DEF VisionTypes, visionVars
  <1>1. CASE Observe
    BY <1>1 DEF Observe, Update, Trip
  <1>2. CASE CheckVision
    BY <1>2 DEF CheckVision, Check, Trip
  <1>3. CASE UNCHANGED visionVars
    BY <1>3
  <1> QED
    BY <1>1, <1>2, <1>3
    DEF Next, vars, Tick, LoopBegin, Drain, OpenOrClose, Poll, Receive, ParseJunk, ParseFrame,
        ParseEnd, Judge, PublishNothing, PublishRefused, Publish

LEMMA SourceStep == SourceTypes /\ LoopInv /\ [Next]_vars => SourceTypes'
  <1> SUFFICES ASSUME SourceTypes, LoopInv, [Next]_vars PROVE SourceTypes'
    OBVIOUS
  <1> USE DEF SourceTypes, sourceVars
  <1>1. CASE Receive
    <2>1. slot \in Slots
      BY <1>1 DEF Receive, LoopInv
    <2>2. \A b \in Received(slot, Room(rx[slot])) : b \in Seq(Items(slot)) /\ Len(b) <= RxCapacity
      BY <2>1, RoomType, ReceivedType
    <2> QED
      BY <1>1, <2>1, <2>2 DEF Receive
  <1>2. CASE ParseJunk \/ ParseFrame
    <2>1. slot \in Slots /\ rx[slot] \in Seq(Items(slot)) /\ rx[slot] # << >>
      BY <1>2 DEF ParseJunk, ParseFrame, LoopInv, HeadKind
    <2>2. Tail(rx[slot]) \in Seq(Items(slot)) /\ Len(Tail(rx[slot])) = Len(rx[slot]) - 1
      BY <2>1, HeadTailProperties
    <2>3. Len(rx[slot]) \in Nat
      BY <2>1, LenProperties
    <2>4. rx' = [rx EXCEPT ![slot] = Tail(rx[slot])]
      BY <1>2 DEF ParseJunk, ParseFrame
    <2>5. \A s \in Slots : rx'[s] \in Seq(Items(s)) /\ Len(rx'[s]) <= RxCapacity
      BY <2>1, <2>2, <2>3, <2>4, BridgeAssumption
    <2>6. CASE ParseJunk
      BY <2>4, <2>5, <2>6 DEF ParseJunk
    <2>7. CASE ParseFrame
      <3>1. rx[slot][1] \in Items(slot) /\ rx[slot][1].kind = "frame"
        BY <2>1, <2>7, ElementOfSeq, LenProperties DEF ParseFrame, HeadKind
      <3>2. rx[slot][1].frame \in Frames[slot]
        BY <3>1 DEF Items, Junk
      <3>3. rx[slot][1].frame.session \in Nat /\ rx[slot][1].frame.seq \in Nat
              /\ rx[slot][1].frame.time \in Nat
        BY <2>1, <3>2, BridgeAssumption
      <3> QED
        BY <2>1, <2>4, <2>5, <2>7, <3>3 DEF ParseFrame
    <2> QED
      BY <1>2, <2>6, <2>7
  <1>3. CASE \E s \in Reopened : OpenOrClose(s)
    BY <1>3, EmptyBuffer, BridgeAssumption DEF OpenOrClose, ResetLinkSession
  <1>4. CASE UNCHANGED sourceVars
    BY <1>4
  <1> QED
    BY <1>1, <1>2, <1>3, <1>4
    DEF Next, vars, Tick, LoopBegin, Observe, CheckVision, Drain, Poll, ParseEnd, Judge,
        PublishNothing, PublishRefused, Publish

LEMMA LoopStep == TypeOK /\ LoopInv /\ [Next]_vars => LoopTypes'
  <1> SUFFICES ASSUME TypeOK, LoopInv, [Next]_vars PROVE LoopTypes'
    OBVIOUS
  <1> USE SlotFacts, BridgeAssumption DEF TypeOK, LoopTypes, localVars
  <1>1. CASE UNCHANGED vars \/ Tick \/ LoopBegin \/ Observe \/ Drain
    BY <1>1 DEF vars, Tick, LoopBegin, Observe, Drain
  <1>2. CASE CheckVision \/ PublishNothing \/ PublishRefused \/ Publish
    BY <1>2 DEF CheckVision, PublishNothing, PublishRefused, Publish, PollEnd, NoSlot
  <1>3. CASE \E s \in Reopened : OpenOrClose(s)
    BY <1>3 DEF OpenOrClose
  <1>4. CASE Receive \/ ParseJunk \/ ParseEnd
    BY <1>4 DEF Receive, ParseJunk, ParseEnd
  <1>5. CASE ParseFrame
    <2>1. slot \in Slots /\ rx[slot] \in Seq(Items(slot)) /\ rx[slot] # << >>
      BY <1>5 DEF ParseFrame, LoopInv, HeadKind, SourceTypes
    <2>2. rx[slot][1] \in Items(slot) /\ rx[slot][1].kind = "frame"
      BY <1>5, <2>1, ElementOfSeq, LenProperties DEF ParseFrame, HeadKind
    <2>3. rx[slot][1].frame \in Frames[slot]
      BY <2>2 DEF Items, Junk
    <2> DEFINE f == rx[slot][1].frame
               t == [slot |-> slot, session |-> f.session, seq |-> f.seq, created |-> pollNow,
                     until |-> pollNow + Least(f.lease, MaxLease)]
    <2>4. f.session \in Nat /\ f.seq \in Nat /\ f.lease \in Nat
      BY <2>1, <2>3
    <2>5. Least(f.lease, MaxLease) \in Nat
      BY <2>4, LeastFacts
    <2>6. pollNow + Least(f.lease, MaxLease) \in Nat
      BY <2>5
    <2> HIDE DEF f
    <2>7. t \in Targets
      BY <2>1, <2>4, <2>6 DEF Targets
    <2> HIDE DEF t
    <2>8. got' \in {t, got}
      BY <1>5 DEF ParseFrame, t, f
    <2> QED
      BY <1>5, <2>7, <2>8 DEF ParseFrame
  <1>6. CASE Judge
    BY <1>6 DEF Judge, LoopInv, Slots
  <1> QED
    BY <1>1, <1>2, <1>3, <1>4, <1>5, <1>6 DEF Next, Poll

LEMMA ArbiterStep == TypeOK /\ LoopInv /\ [Next]_vars => ArbiterTypes' /\ EngineTypes'
  <1> SUFFICES ASSUME TypeOK, LoopInv, [Next]_vars PROVE ArbiterTypes' /\ EngineTypes'
    OBVIOUS
  <1> USE DEF ArbiterTypes, EngineTypes, arbiterVars, engineVars
  <1>1. CASE Judge
    <2>1. slot \in Slots /\ Stored(entry[slot], got) \in Targets
      BY <1>1, StoredFacts DEF Judge, LoopInv, TypeOK, LoopTypes
    <2> QED
      BY <1>1, <2>1 DEF Judge, TypeOK
  <1>2. CASE Publish
    <2> DEFINE item == [out |-> outSeq + 1, target |-> entry[winner]]
    <2>1. winner \in Slots
      BY <1>2, BridgeAssumption DEF Publish, Candidate, TypeOK, LoopTypes, Slots, NoSlot
    <2>2. item \in [out : Nat, target : Targets]
      BY <2>1 DEF TypeOK
    <2>3. ingress' = Append(ingress, item) /\ Len(ingress) < IngressSlots
      BY <1>2 DEF Publish, IngressTakes
    <2> HIDE DEF item
    <2>4. ingress' \in Seq([out : Nat, target : Targets]) /\ Len(ingress') = Len(ingress) + 1
      BY <2>2, <2>3, AppendProperties DEF TypeOK
    <2>5. Len(ingress') <= IngressSlots
      BY <2>3, <2>4, LenProperties, BridgeAssumption DEF TypeOK
    <2>6. published' = <<winner, entry[winner].seq>> /\ entry[winner].seq \in Nat
      BY <1>2, <2>1 DEF Publish, Candidate, Targets, TypeOK, Slots, NoSlot
    <2>7. winner \in 0..SlotCount
      BY DEF TypeOK, LoopTypes
    <2>8. published' \in (0..SlotCount) \X Nat
      BY <2>6, <2>7
    <2>9. outSeq' \in Nat
      BY <1>2 DEF Publish, TypeOK
    <2>10. UNCHANGED <<priority, entry, lastOut, heard>>
      BY <1>2 DEF Publish
    <2> QED
      BY <2>4, <2>5, <2>8, <2>9, <2>10 DEF TypeOK
  <1>3. CASE Drain
    <2>1. ingress[Len(ingress)] \in [out : Nat, target : Targets]
      BY <1>3, LastItem DEF Drain, TypeOK
    <2>2. ingress[Len(ingress)].target.slot \in Slots
      BY <2>1 DEF Targets
    <2>3. ingress' \in Seq([out : Nat, target : Targets]) /\ Len(ingress') <= IngressSlots
      BY <1>3, EmptyBuffer, BridgeAssumption DEF Drain
    <2> QED
      BY <1>3, <2>1, <2>2, <2>3 DEF Drain, TypeOK
  <1>4. CASE UNCHANGED <<priority, arbiterVars, engineVars>>
    BY <1>4 DEF TypeOK
  <1> QED
    BY <1>1, <1>2, <1>3, <1>4
    DEF Next, vars, Tick, LoopBegin, Observe, CheckVision, OpenOrClose, Poll, Receive, ParseJunk,
        ParseFrame, ParseEnd, PublishNothing, PublishRefused

LEMMA LoopInvStep == TypeOK /\ LoopInv /\ [Next]_vars => LoopInv'
  <1> SUFFICES ASSUME TypeOK, LoopInv, [Next]_vars PROVE LoopInv'
    OBVIOUS
  <1> USE SlotFacts, BridgeAssumption DEF TypeOK, LoopTypes, LoopInv, localVars, NoTarget
  <1>1. CASE UNCHANGED vars \/ Tick \/ LoopBegin \/ Observe \/ Drain
    BY <1>1 DEF vars, Tick, LoopBegin, Observe, Drain
  <1>2. CASE CheckVision \/ PublishNothing \/ PublishRefused \/ Publish
    BY <1>2 DEF CheckVision, PublishNothing, PublishRefused, Publish, PollEnd
  <1>3. CASE \E s \in Reopened : OpenOrClose(s)
    BY <1>3 DEF OpenOrClose
  <1>4. CASE Receive \/ ParseJunk \/ ParseEnd
    BY <1>4 DEF Receive, ParseJunk, ParseEnd
  <1>5. CASE ParseFrame
    <2> DEFINE f == rx[slot][1].frame
    <2>1. slot \in Slots /\ rx[slot] \in Seq(Items(slot)) /\ rx[slot] # << >>
      BY <1>5 DEF ParseFrame, HeadKind, SourceTypes
    <2>2. rx[slot][1] \in Items(slot) /\ rx[slot][1].kind = "frame"
      BY <1>5, <2>1, ElementOfSeq, LenProperties DEF ParseFrame, HeadKind
    <2>3. f \in Frames[slot]
      BY <2>2 DEF Items, Junk
    <2>4. f.lease \in Nat
      BY <2>1, <2>3
    <2>5. Least(f.lease, MaxLease) \in Nat /\ Least(f.lease, MaxLease) <= MaxLease
      BY <2>4, LeastFacts
    <2>6. pollNow + Least(f.lease, MaxLease) <= pollNow + MaxLease
      BY <2>5
    <2> HIDE DEF f
    <2>7. \/ got' = got
          \/ /\ got'.slot = slot /\ got'.created = pollNow
             /\ got'.until = pollNow + Least(f.lease, MaxLease)
      BY <1>5 DEF ParseFrame, f
    <2> QED
      BY <1>5, <2>1, <2>6, <2>7 DEF ParseFrame
  <1>6. CASE Judge
    BY <1>6 DEF Judge, Slots
  <1> QED
    BY <1>1, <1>2, <1>3, <1>4, <1>5, <1>6 DEF Next, Poll

LEMMA TypeStep == TypeOK /\ LoopInv /\ [Next]_vars => TypeOK' /\ LoopInv'
  BY LoopStep, SourceStep, ArbiterStep, VisionStep, LoopInvStep DEF TypeOK

\* Every variable keeps its type; receive buffers and the engine's target ring
\* stay within their capacities.
THEOREM TypeCorrect == Spec => []TypeOK
  <1>1. Init => TypeOK /\ LoopInv
    BY InitTypes, SlotFacts DEF Init, LoopInv, NoTarget
  <1> QED
    BY <1>1, TypeStep, PTL DEF Spec

-----------------------------------------------------------------------------
(* What a step does to the entries, the ring and the controller's targets. *)

\* What a poll answered is stored under the slot it was asked of.
LEMMA JudgeFacts ==
  ASSUME TypeOK, LoopInv, Judge
  PROVE  /\ slot \in Slots /\ Stored(entry[slot], got) \in Targets
         /\ entry' = [entry EXCEPT ![slot] = Stored(entry[slot], got)]
         /\ UNCHANGED <<now, pollNow, priority, published, engineVars, visionVars>>
  BY StoredFacts DEF Judge, LoopInv, TypeOK, LoopTypes, ArbiterTypes

LEMMA PublishFacts ==
  ASSUME TypeOK, Publish
  PROVE  /\ pc = "publish" /\ winner \in Slots /\ IngressTakes
         /\ Len(ingress) \in Nat /\ Len(ingress') = Len(ingress) + 1
         /\ \A i \in 1..Len(ingress) : ingress'[i] = ingress[i]
         /\ ingress'[Len(ingress')] = [out |-> outSeq + 1, target |-> entry[winner]]
         /\ published' = <<winner, entry[winner].seq>> /\ outSeq' = outSeq + 1
         /\ UNCHANGED <<now, priority, entry, lastOut, heard, visionVars>>
  <1> DEFINE item == [out |-> outSeq + 1, target |-> entry[winner]]
  <1>1. pc = "publish" /\ winner \in Slots /\ winner # NoSlot
    BY BridgeAssumption DEF Publish, Candidate, TypeOK, LoopTypes, Slots, NoSlot
  <1>2. item \in [out : Nat, target : Targets]
    BY <1>1 DEF TypeOK, ArbiterTypes
  <1>3. ingress' = Append(ingress, item)
    BY DEF Publish
  <1> HIDE DEF item
  <1>4. /\ Len(ingress) \in Nat /\ Len(ingress') = Len(ingress) + 1
        /\ \A i \in 1..Len(ingress) : ingress'[i] = ingress[i]
        /\ ingress'[Len(ingress) + 1] = item
    BY <1>2, <1>3, AppendProperties, LenProperties DEF TypeOK, EngineTypes
  <1> QED
    BY <1>1, <1>4 DEF Publish, Candidate, item

LEMMA DrainFacts ==
  ASSUME TypeOK, Drain
  PROVE  /\ Len(ingress) \in 1..Len(ingress) /\ ingress' = << >>
         /\ ingress[Len(ingress)] \in [out : Nat, target : Targets]
         /\ LET last == ingress[Len(ingress)] IN
              \/ /\ last.out > lastOut /\ lastOut' = last.out
                 /\ heard' = [heard EXCEPT ![last.target.slot] = last.target]
              \/ ~(last.out > lastOut) /\ UNCHANGED <<lastOut, heard>>
         /\ UNCHANGED <<now, priority, arbiterVars, visionVars>>
  BY LastItem DEF Drain, TypeOK, EngineTypes

LEMMA RingItems ==
  ASSUME TypeOK, NEW i \in 1..Len(ingress)
  PROVE  ingress[i].target \in Targets
  <1> DEFINE Item == [out : Nat, target : Targets]
  <1>1. ingress \in Seq(Item)
    BY DEF TypeOK, EngineTypes
  <1> HIDE DEF Item
  <1>2. ingress[i] \in Item
    BY <1>1, ElementOfSeq
  <1> QED
    BY <1>2 DEF Item

\* All other steps leave entries, ring and controller alone.
Elsewhere == UNCHANGED <<entry, published, outSeq, engineVars>>

LEMMA Steps ==
  ASSUME [Next]_vars
  PROVE  Judge \/ Publish \/ Drain \/ Elsewhere
  BY DEF Next, vars, Tick, LoopBegin, Observe, CheckVision, OpenOrClose, Poll, Receive, ParseJunk,
         ParseFrame, ParseEnd, PublishNothing, PublishRefused, arbiterVars, Elsewhere

LEMMA GrowsByPublish ==
  ASSUME TypeOK, [Next]_vars, Len(ingress') > Len(ingress)
  PROVE  Publish
  <1>1. Len(ingress) \in Nat
    BY LenProperties DEF TypeOK, EngineTypes
  <1>2. ~Drain
    BY <1>1, DrainFacts, EmptyBuffer
  <1>3. ingress' # ingress
    BY <1>1
  <1> QED
    BY <1>2, <1>3, Steps DEF Judge, Elsewhere, engineVars

LEMMA ClockGoesOn ==
  ASSUME TypeOK, [Next]_vars
  PROVE  now' \in Nat /\ now' >= now /\ UNCHANGED priority
  BY DEF TypeOK, LoopTypes, Next, vars, Tick, LoopBegin, Observe, CheckVision, Drain, OpenOrClose,
         Poll, Receive, ParseJunk, ParseFrame, ParseEnd, Judge, PublishNothing, PublishRefused,
         Publish

-----------------------------------------------------------------------------
(* Every step preserves each part of the invariant. *)

LEMMA LeaseStep ==
  TypeOK /\ LoopInv /\ LeasesAreBounded /\ [Next]_vars => LeasesAreBounded'
  <1> SUFFICES ASSUME TypeOK, LoopInv, LeasesAreBounded, [Next]_vars PROVE LeasesAreBounded'
    OBVIOUS
  <1>1. now' \in Nat /\ now' >= now /\ now \in Nat /\ MaxLease \in Nat /\ ArbiterLease \in Nat
    BY ClockGoesOn, BridgeAssumption DEF TypeOK, LoopTypes
  <1> DEFINE Within(t) ==
        t.seq > 0 => t.created <= now' /\ t.until <= t.created + Least(MaxLease, ArbiterLease)
  <1>2. \A t \in Targets : Bounded(t) => Within(t)
    BY <1>1 DEF Bounded, Targets
  <1>3. /\ \A s \in Slots : Within(entry[s]) /\ Within(heard[s])
        /\ \A i \in 1..Len(ingress) : Within(ingress[i].target)
    <2>1. \A s \in Slots : entry[s] \in Targets /\ heard[s] \in Targets
      BY DEF TypeOK, ArbiterTypes, EngineTypes
    <2>2. \A i \in 1..Len(ingress) : ingress[i].target \in Targets
      BY RingItems
    <2> HIDE DEF Within
    <2> QED
      BY <1>2, <2>1, <2>2 DEF LeasesAreBounded
  <1>4. SUFFICES /\ \A s \in Slots : Within(entry'[s]) /\ Within(heard'[s])
                 /\ \A i \in 1..Len(ingress') : Within(ingress'[i].target)
    BY DEF LeasesAreBounded, Bounded
  <1>5. CASE Judge
    <2> DEFINE t == Stored(entry[slot], got)
    <2>1. CASE t = entry[slot]
      BY <1>3, <1>5, <2>1, JudgeFacts DEF engineVars, TypeOK, ArbiterTypes
    <2>2. CASE t # entry[slot]
      <3>1. slot \in Slots /\ entry[slot] \in Targets /\ got \in Targets
        BY <1>5, JudgeFacts DEF TypeOK, LoopTypes, ArbiterTypes
      <3>2. /\ got.seq > entry[slot].seq /\ t.created = got.created
            /\ t.until <= got.until /\ t.until <= got.created + ArbiterLease
        BY <2>2, <3>1, StoredFacts
      <3>3. got.seq > 0
        BY <3>1, <3>2 DEF Targets
      <3>4. got.created <= now' /\ got.until <= got.created + MaxLease
        BY <1>1, <3>1, <3>3 DEF LoopInv, Targets, TypeOK, LoopTypes
      <3>5. t.until \in Nat /\ got.until \in Nat /\ got.created \in Nat
        BY <1>5, <3>1, JudgeFacts DEF Targets
      <3>6. t.until <= got.created + Least(MaxLease, ArbiterLease)
        BY <1>1, <3>2, <3>4, <3>5 DEF Least
      <3>7. Within(t)
        BY <3>2, <3>4, <3>6
      <3> HIDE DEF t, Within
      <3>8. entry' = [entry EXCEPT ![slot] = t] /\ UNCHANGED <<heard, ingress>>
        BY <1>5, JudgeFacts DEF engineVars, t
      <3> QED
        BY <1>3, <3>7, <3>8 DEF TypeOK, ArbiterTypes
    <2> QED
      BY <2>1, <2>2
  <1>6. CASE Publish
    <2>1. ingress'[Len(ingress')].target = entry[winner] /\ winner \in Slots
      BY <1>6, PublishFacts
    <2> HIDE DEF Within
    <2>2. \A i \in 1..Len(ingress') : Within(ingress'[i].target)
      BY <1>3, <1>6, <2>1, PublishFacts
    <2> QED
      BY <1>3, <1>6, <2>2, PublishFacts
  <1>7. CASE Drain
    <2> DEFINE last == ingress[Len(ingress)]
    <2> HIDE DEF Within
    <2>1. Within(last.target) /\ last.target.slot \in Slots
      BY <1>3, <1>7, DrainFacts DEF Targets
    <2>2. heard' = heard \/ heard' = [heard EXCEPT ![last.target.slot] = last.target]
      BY <1>7, DrainFacts
    <2> HIDE DEF last
    <2>3. \A s \in Slots : Within(heard'[s])
      BY <1>3, <2>1, <2>2 DEF TypeOK, EngineTypes
    <2>4. Len(ingress') = 0 /\ entry' = entry
      BY <1>7, DrainFacts, EmptyBuffer DEF arbiterVars
    <2> QED
      BY <1>3, <2>3, <2>4
  <1>8. CASE Elsewhere
    BY <1>3, <1>8 DEF Elsewhere, engineVars
  <1> QED
    BY <1>5, <1>6, <1>7, <1>8, Steps

LEMMA SlotStep == TypeOK /\ LoopInv /\ SlotInv /\ [Next]_vars => SlotInv'
  <1> SUFFICES ASSUME TypeOK, LoopInv, SlotInv, [Next]_vars PROVE SlotInv'
    OBVIOUS
  <1>1. CASE Judge
    <2> DEFINE t == Stored(entry[slot], got)
    <2>1. slot \in Slots /\ entry[slot] \in Targets /\ got \in Targets
      BY <1>1, JudgeFacts DEF TypeOK, LoopTypes, ArbiterTypes
    <2>2. t = entry[slot] \/ (got.seq > entry[slot].seq /\ t.slot = got.slot)
      BY <2>1, StoredFacts
    <2>3. entry[slot].seq \in Nat /\ got.seq \in Nat
      BY <2>1 DEF Targets
    <2>4. t.seq > 0 => t.slot = slot
      BY <2>1, <2>2, <2>3 DEF LoopInv, SlotInv
    <2> HIDE DEF t
    <2>5. entry' = [entry EXCEPT ![slot] = t]
      BY <1>1, JudgeFacts DEF t
    <2> QED
      BY <2>4, <2>5 DEF SlotInv, TypeOK, ArbiterTypes
  <1>2. CASE Publish \/ Drain \/ Elsewhere
    BY <1>2, PublishFacts, DrainFacts DEF SlotInv, Elsewhere, arbiterVars
  <1> QED
    BY <1>1, <1>2, Steps

LEMMA DeliveryStep ==
  TypeOK /\ LoopInv /\ SlotInv /\ WinnerInv /\ DeliveryInv /\ [Next]_vars => DeliveryInv'
  <1> SUFFICES ASSUME TypeOK, LoopInv, SlotInv, WinnerInv, DeliveryInv, [Next]_vars
               PROVE  DeliveryInv'
    OBVIOUS
  <1>1. CASE Judge \/ Elsewhere
    BY <1>1 DEF DeliveryInv, Elsewhere, engineVars, Judge
  <1>2. CASE Publish
    <2>1. entry[winner].slot = winner
      BY <1>2, PublishFacts DEF Publish, Candidate, WinnerInv, SlotInv, Live
    <2>2. ingress' # << >> /\ lastOut' = lastOut /\ outSeq' = outSeq + 1
      BY <1>2, PublishFacts, EmptyBuffer
    <2>3. lastOut <= outSeq /\ lastOut \in Nat /\ outSeq \in Nat
      BY DEF DeliveryInv, TypeOK, EngineTypes, ArbiterTypes
    <2> QED
      BY <1>2, <2>1, <2>2, <2>3, PublishFacts DEF DeliveryInv
  <1>3. CASE Drain
    <2> DEFINE last == ingress[Len(ingress)]
    <2>1. ingress # << >> /\ ingress' = << >> /\ last \in [out : Nat, target : Targets]
      BY <1>3, DrainFacts DEF Drain
    <2>2. last.out = outSeq /\ last.out > lastOut /\ published = <<last.target.slot, last.target.seq>>
      BY <2>1 DEF DeliveryInv
    <2>3. /\ lastOut' = outSeq /\ outSeq' = outSeq /\ published' = published
          /\ heard' = [heard EXCEPT ![last.target.slot] = last.target]
      BY <1>3, <2>2, DrainFacts DEF arbiterVars
    <2>4. outSeq \in Nat /\ last.target.slot \in Slots /\ heard \in [Slots -> Targets]
      BY <2>1 DEF TypeOK, ArbiterTypes, EngineTypes, Targets
    <2> HIDE DEF last
    <2>5. heard'[published'[1]].seq = published'[2]
      BY <2>2, <2>3, <2>4
    <2> QED
      BY <2>1, <2>3, <2>4, <2>5 DEF DeliveryInv
  <1> QED
    BY <1>1, <1>2, <1>3, Steps

\* Newer is an order on targets.
LEMMA NewerFacts ==
  ASSUME NEW t \in Targets, NEW u \in Targets, NEW v \in Targets
  PROVE  Newer(t, t) /\ (Newer(t, u) /\ Newer(u, v) => Newer(t, v))
  BY DEF Newer, Targets

LEMMA OrderStep ==
  TypeOK /\ LoopInv /\ SlotInv /\ WinnerInv /\ OrderInv /\ [Next]_vars => OrderInv'
  <1> SUFFICES ASSUME TypeOK, LoopInv, SlotInv, WinnerInv, OrderInv, [Next]_vars
               PROVE  OrderInv'
    OBVIOUS
  <1>1. /\ \A s \in Slots : entry[s] \in Targets /\ heard[s] \in Targets
        /\ \A i \in 1..Len(ingress) :
               ingress[i].target \in Targets /\ ingress[i].target.slot \in Slots
    BY RingItems DEF TypeOK, ArbiterTypes, EngineTypes, Targets
  <1>2. CASE Judge
    <2> DEFINE t == Stored(entry[slot], got)
    <2>1. slot \in Slots /\ t \in Targets /\ got \in Targets
      BY <1>2, JudgeFacts DEF TypeOK, LoopTypes
    <2>2. Newer(t, entry[slot])
      BY <1>1, <2>1, StoredFacts DEF Newer
    <2> HIDE DEF t
    <2>3. entry' = [entry EXCEPT ![slot] = t] /\ UNCHANGED <<heard, ingress>>
      BY <1>2, JudgeFacts DEF t, engineVars
    <2>4. \A s \in Slots : entry'[s] = entry[s] \/ (s = slot /\ entry'[s] = t)
      BY <2>3 DEF TypeOK, ArbiterTypes
    <2>5. \A s \in Slots : \A u \in Targets : Newer(entry[s], u) => Newer(entry'[s], u)
      BY <1>1, <2>1, <2>2, <2>4, NewerFacts
    <2> QED
      BY <1>1, <2>3, <2>5 DEF OrderInv
  <1>3. CASE Publish
    <2>1. winner \in Slots /\ entry[winner].slot = winner
      BY <1>3, PublishFacts DEF Publish, Candidate, WinnerInv, SlotInv, Live
    <2>2. \A i \in 1..Len(ingress') :
              ingress'[i].target = entry[winner] \/
              (i \in 1..Len(ingress) /\ ingress'[i].target = ingress[i].target)
      BY <1>3, PublishFacts
    <2>3. Newer(entry[winner], entry[winner]) /\ Newer(entry[winner], heard[winner])
      BY <1>1, <2>1, NewerFacts DEF OrderInv
    <2>4. UNCHANGED <<entry, heard>>
      BY <1>3, PublishFacts
    <2> QED
      BY <2>1, <2>2, <2>3, <2>4 DEF OrderInv
  <1>4. CASE Drain
    <2> DEFINE t == ingress[Len(ingress)].target
    <2>1. Len(ingress) \in 1..Len(ingress) /\ t.slot \in Slots
      BY <1>1, <1>4, DrainFacts
    <2>2. Newer(entry[t.slot], t)
      BY <2>1 DEF OrderInv
    <2>3. heard' = heard \/ heard' = [heard EXCEPT ![t.slot] = t]
      BY <1>4, DrainFacts
    <2>4. entry' = entry /\ Len(ingress') = 0
      BY <1>4, DrainFacts, EmptyBuffer DEF arbiterVars
    <2> HIDE DEF t
    <2>5. \A s \in Slots : Newer(entry'[s], heard'[s])
      BY <2>1, <2>2, <2>3, <2>4 DEF OrderInv, TypeOK, EngineTypes
    <2> QED
      BY <2>4, <2>5 DEF OrderInv
  <1>5. CASE Elsewhere
    BY <1>5 DEF Elsewhere, engineVars, OrderInv
  <1> QED
    BY <1>2, <1>3, <1>4, <1>5, Steps

\* The winner and the claims are only compared within one poll.
LEMMA WinnerStep ==
  TypeOK /\ LoopInv /\ WinnerInv /\ [Next]_vars => WinnerInv'
  <1> SUFFICES ASSUME TypeOK, LoopInv, WinnerInv, [Next]_vars PROVE WinnerInv'
    OBVIOUS
  <1>1. CASE slot' = 0 /\ winner' = NoSlot
    BY <1>1 DEF WinnerInv, Slots
  <1>2. CASE UNCHANGED <<pollNow, slot, winner, entry, priority>>
    BY <1>2 DEF WinnerInv, Live, Beats
  <1>3. CASE Judge
    <2> DEFINE t == Stored(entry[slot], got)
    <2>1. slot \in Slots /\ slot \in Nat /\ entry' = [entry EXCEPT ![slot] = t]
      BY <1>3, JudgeFacts, SlotFacts
    <2> HIDE DEF t
    <2>2. \A s \in Slots : entry'[s] = IF s = slot THEN t ELSE entry[s]
      BY <2>1 DEF TypeOK, ArbiterTypes
    <2>3. /\ slot' = slot + 1 /\ UNCHANGED <<pollNow, priority>>
          /\ winner' = IF Live(t) /\ (winner = NoSlot \/ priority[slot] > priority[winner])
                       THEN slot ELSE winner
      BY <1>3 DEF Judge, t
    <2>4. /\ \A s \in Slots : priority[s] \in Nat /\ s \in Nat
          /\ winner # NoSlot => winner \in Slots /\ winner < slot
      BY SlotFacts, BridgeAssumption
      DEF TypeOK, ArbiterTypes, LoopTypes, WinnerInv, Slots, NoSlot
    <2>5. winner' # NoSlot => winner' < slot' /\ Live(entry'[winner'])
      <3>1. CASE winner' = slot
        <4>1. Live(t) \/ winner = slot
          BY <2>3, <3>1
        <4>2. winner # slot
          BY <2>1, <2>4, SlotFacts
        <4>3. entry'[slot] = t
          BY <2>1, <2>2
        <4>4. slot' = slot + 1 /\ slot < slot + 1
          BY <2>1, <2>3
        <4> QED
          BY <3>1, <4>1, <4>2, <4>3, <4>4
      <3>2. CASE winner' = winner /\ winner # NoSlot
        <4>1. winner \in Slots /\ winner < slot /\ winner \in Nat
          BY <2>4, <3>2, SlotFacts
        <4>2. entry'[winner] = entry[winner]
          BY <2>1, <2>2, <4>1
        <4>3. winner < slot + 1
          BY <2>1, <4>1
        <4> QED
          BY <2>3, <3>2, <4>2, <4>3 DEF WinnerInv, Live
      <3> QED
        BY <2>3, <3>1, <3>2
    <2>6. ASSUME NEW s \in Slots, s < slot', s # winner', Live(entry'[s])
          PROVE  winner' # NoSlot /\ Beats(winner', s)
      <3>1. CASE s = slot
        <4>1. Live(t)
          BY <2>2, <2>3, <2>6, <3>1 DEF Live
        <4>2. winner' = winner /\ winner # NoSlot /\ ~(priority[slot] > priority[winner])
          BY <2>3, <2>6, <3>1, <4>1
        <4> QED
          BY <2>3, <2>4, <3>1, <4>2 DEF Beats
      <3>2. CASE s # slot
        <4>1. s < slot /\ Live(entry[s])
          BY <2>1, <2>2, <2>3, <2>4, <2>6, <3>2 DEF Live
        <4>2. CASE s = winner
          <5>1. winner' = slot /\ winner # NoSlot /\ priority[slot] > priority[winner]
            BY <2>3, <2>4, <2>6, <4>1, <4>2, SlotFacts
          <5> QED
            BY <2>1, <2>3, <2>4, <4>2, <5>1, SlotFacts DEF Beats
        <4>3. CASE s # winner
          <5>1. winner # NoSlot /\ Beats(winner, s)
            BY <4>1, <4>3 DEF WinnerInv
          <5>2. CASE winner' = winner
            BY <2>3, <5>1, <5>2 DEF Beats
          <5>3. CASE winner' = slot /\ priority[slot] > priority[winner]
            <6>1. priority[winner] \in Nat /\ priority[slot] \in Nat /\ priority[s] \in Nat
              BY <2>1, <2>4, <5>1
            <6>2. priority[s] < priority[slot]
              BY <5>1, <5>3, <6>1 DEF Beats
            <6> QED
              BY <2>1, <5>3, <6>2, SlotFacts DEF Beats
          <5> QED
            BY <2>3, <5>1, <5>2, <5>3
        <4> QED
          BY <4>2, <4>3
      <3> QED
        BY <3>1, <3>2
    <2> QED
      BY <2>3, <2>5, <2>6 DEF WinnerInv, Live, Beats
  <1>4. (slot = 0 /\ winner = NoSlot) \/ pc \notin {"idle", "observe"}
    BY DEF LoopInv
  <1> QED
    BY <1>1, <1>2, <1>3, <1>4
    DEF Next, vars, localVars, arbiterVars, Tick, LoopBegin, Observe, CheckVision, Drain, OpenOrClose,
        Poll, Receive, ParseJunk, ParseFrame, ParseEnd, PublishNothing, PublishRefused, Publish,
        PollEnd

LEMMA VisionInvStep == TypeOK /\ VisionInv /\ [Next]_vars => VisionInv'
  <1> SUFFICES ASSUME TypeOK, VisionInv, [Next]_vars PROVE VisionInv'
    OBVIOUS
  <1> USE DEF VisionInv, visionVars
  <1>1. CASE Observe
    BY <1>1 DEF Observe, Update, Trip, TypeOK, VisionTypes
  <1>2. CASE CheckVision
    <2>1. pollNow' = pollNow \/ pc' = "idle"
      BY <1>2 DEF CheckVision, PollEnd
    <2>2. CASE tripped /\ UNCHANGED visionVars
      BY <2>1, <2>2 DEF Recent
    <2>3. CASE latest.seq > 0 /\ Recent(latest, pollNow) /\ UNCHANGED visionVars
      BY <2>1, <2>3 DEF Recent
    <2>4. CASE Trip
      BY <2>4 DEF Trip
    <2> QED
      BY <1>2, <2>2, <2>3, <2>4 DEF CheckVision, Check
  <1>3. CASE UNCHANGED visionVars /\ pc' \in {"idle", "observe"}
    BY <1>3
  <1>4. CASE UNCHANGED <<visionVars, pollNow>> /\ pc \notin {"idle", "observe"}
    BY <1>4 DEF Recent, TypeOK, LoopTypes
  <1>5. CASE UNCHANGED <<visionVars, pollNow, pc>>
    BY <1>5 DEF Recent
  <1> QED
    BY <1>1, <1>2, <1>3, <1>4, <1>5
    DEF Next, vars, localVars, Tick, LoopBegin, Drain, OpenOrClose, Poll, Receive, ParseJunk,
        ParseFrame, ParseEnd, Judge, PublishNothing, PublishRefused, Publish, PollEnd

-----------------------------------------------------------------------------
(* The theorems. *)

LEMMA InitInv == Init => BridgeInv
  <1> SUFFICES ASSUME Init PROVE BridgeInv
    OBVIOUS
  <1>1. \A s \in Slots : entry[s] = NoTarget /\ heard[s] = NoTarget
    BY DEF Init
  <1>2. Len(ingress) = 0
    BY EmptyBuffer DEF Init
  <1>3. LoopInv /\ LeasesAreBounded /\ SlotInv /\ OrderInv
    BY <1>1, <1>2, SlotFacts
    DEF Init, LoopInv, LeasesAreBounded, Bounded, SlotInv, OrderInv, Newer, NoTarget
  <1>4. WinnerInv /\ DeliveryInv /\ VisionInv
    BY <1>1, SlotFacts
    DEF Init, VisionInit, NoObservation, WinnerInv, DeliveryInv, VisionInv, Live, NoTarget
  <1> QED
    BY <1>3, <1>4, InitTypes DEF BridgeInv

LEMMA StepInv == BridgeInv /\ [Next]_vars => BridgeInv'
  BY TypeStep, LeaseStep, SlotStep, WinnerStep, DeliveryStep, OrderStep, VisionInvStep DEF BridgeInv

LEMMA InvHolds == Spec => []BridgeInv
  BY InitInv, StepInv, PTL DEF Spec

\* TargetArbiter and FramedCommandSource: no target, kept, queued or taken by
\* the control loop, lives longer than the shorter of both leases from the poll
\* that decoded it.
THEOREM LeasesHold == Spec => []LeasesAreBounded
  BY InvHolds, PTL DEF BridgeInv

\* TargetArbiter::poll: what counts as published is in the engine's ring or was
\* taken from it by the control loop.
THEOREM NothingIsForgotten == Spec => []PublishedIsDelivered
  <1>1. BridgeInv => PublishedIsDelivered
    <2> SUFFICES ASSUME BridgeInv, published[1] # NoSlot PROVE PublishedIsDelivered
      BY DEF PublishedIsDelivered
    <2>1. CASE ingress = << >>
      BY <2>1 DEF BridgeInv, DeliveryInv, PublishedIsDelivered
    <2>2. CASE ingress # << >>
      <3>1. Len(ingress) \in 1..Len(ingress)
        BY <2>2, LastItem DEF BridgeInv, TypeOK, EngineTypes
      <3> QED
        BY <2>2, <3>1 DEF BridgeInv, DeliveryInv, PublishedIsDelivered
    <2> QED
      BY <2>1, <2>2
  <1> QED
    BY <1>1, InvHolds, PTL

\* The control loop never goes back to an older target of a source, whatever
\* the links repeat or reorder and however often they are opened again.
THEOREM NeverBack == Spec => SourceNeverGoesBack
  <1> DEFINE Onward == \A s \in Slots : heard'[s].seq > heard[s].seq \/ heard'[s] = heard[s]
  <1>1. BridgeInv /\ [Next]_vars => Onward
    <2> SUFFICES ASSUME BridgeInv, [Next]_vars PROVE Onward
      OBVIOUS
    <2>1. CASE Drain
      <3> DEFINE t == ingress[Len(ingress)].target
      <3>1. Len(ingress) \in 1..Len(ingress)
        BY <2>1, DrainFacts DEF BridgeInv
      <3>2. Newer(t, heard[t.slot])
        BY <3>1 DEF BridgeInv, OrderInv
      <3>3. heard' = heard \/ heard' = [heard EXCEPT ![t.slot] = t]
        BY <2>1, DrainFacts DEF BridgeInv
      <3> HIDE DEF t
      <3> QED
        BY <3>2, <3>3 DEF Newer, BridgeInv, TypeOK, EngineTypes
    <2>2. CASE heard' = heard
      BY <2>2
    <2> QED
      BY <2>1, <2>2, Steps, PublishFacts DEF BridgeInv, Judge, Elsewhere, engineVars
  <1>2. BridgeInv /\ [Next]_vars => [Onward]_vars
    BY <1>1
  <1> QED
    BY <1>2, InvHolds, PTL DEF Spec, SourceNeverGoesBack

\* TargetArbiter::poll: a target enters the ring only while it lives and no
\* live source has a larger priority, or the same one and a lower slot.
THEOREM BestOnly == Spec => BestSourceWins
  <1> DEFINE Best ==
        Len(ingress') > Len(ingress) =>
          LET w == ingress'[Len(ingress')].target.slot IN
          /\ Live(entry[w])
          /\ \A s \in Slots \ {w} : Live(entry[s]) =>
                 priority[s] < priority[w] \/ (priority[s] = priority[w] /\ w < s)
  <1>1. BridgeInv /\ [Next]_vars => Best
    <2> SUFFICES ASSUME BridgeInv, [Next]_vars, Len(ingress') > Len(ingress) PROVE Best
      OBVIOUS
    <2>1. Publish
      BY Steps, GrowsByPublish DEF BridgeInv
    <2>2. /\ pc = "publish" /\ winner \in Slots /\ winner # NoSlot
          /\ ingress'[Len(ingress')].target = entry[winner]
      BY <2>1, PublishFacts, SlotFacts DEF BridgeInv
    <2>3. Live(entry[winner]) /\ entry[winner].slot = winner
      BY <2>2 DEF BridgeInv, WinnerInv, SlotInv, Live
    <2>4. \A s \in Slots : s < slot
      BY <2>2, BridgeAssumption DEF BridgeInv, LoopInv, Slots
    <2>5. \A s \in Slots \ {winner} : Live(entry[s]) => Beats(winner, s)
      BY <2>4 DEF BridgeInv, WinnerInv
    <2> QED
      BY <2>2, <2>3, <2>5 DEF Beats
  <1>2. BridgeInv /\ [Next]_vars => [Best]_vars
    BY <1>1
  <1> QED
    BY <1>2, InvHolds, PTL DEF Spec, BestSourceWins

\* VisionInterlock before TargetArbiter: targets enter the ring only in an
\* iteration whose check found a fresh Clear observation.
THEOREM ClearOnly == Spec => ClearBehindTargets
  <1> DEFINE Clear ==
        Len(ingress') > Len(ingress) =>
          /\ ~disarm /\ latest.scene = "Clear"
          /\ pollNow < latest.until /\ pollNow < latest.capture + MaxAge
  <1>1. BridgeInv /\ [Next]_vars => Clear
    <2> SUFFICES ASSUME BridgeInv, [Next]_vars, Len(ingress') > Len(ingress) PROVE Clear
      OBVIOUS
    <2>1. pc = "publish" /\ ~disarm
      BY Steps, GrowsByPublish, PublishFacts DEF BridgeInv, IngressTakes
    <2>2. latest.seq > 0 /\ latest.scene = "Clear" /\ Recent(latest, pollNow)
      BY <2>1 DEF BridgeInv, VisionInv
    <2>3. latest.capture \in Nat /\ pollNow \in Nat /\ MaxAge \in Nat
      BY VisionAssumption
      DEF BridgeInv, TypeOK, VisionTypes, LoopTypes, NoObservation
    <2> QED
      BY <2>1, <2>2, <2>3 DEF Recent
  <1>2. BridgeInv /\ [Next]_vars => [Clear]_vars
    BY <1>1
  <1> QED
    BY <1>2, InvHolds, PTL DEF Spec, ClearBehindTargets
====
