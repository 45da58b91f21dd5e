---- MODULE CommandBridge ----
(***************************************************************************)
(* The management loop of rtctrl_vision_control_replay.cpp over             *)
(* FramedCommandSource (framed_command_source.cpp) and TargetArbiter        *)
(* (target_arbiter.cpp): frames of several senders, each on a link that     *)
(* loses, repeats, reorders and tears them, are arbitrated into the one     *)
(* ingress of the engine, while VisionInterlock may close it.               *)
(*                                                                          *)
(* A link delivers any frame its sender may ever have made, at any time and *)
(* any number of times.  A buffer is a sequence of items: a frame the codec *)
(* accepts, the part of one that has arrived, or bytes the codec discards.  *)
(* A poll uses one reading of the clock and touches the ingress once, at    *)
(* its end, so that ticks and drains happen between polls.  The program     *)
(* binds one loopback source and reports an observation before its loop;    *)
(* here the sources are framed, as in rtctrl_frame_demo.cpp, and vision     *)
(* may also be silent from the start.  Binding has happened in Init.        *)
(***************************************************************************)
EXTENDS VisionInterlock, Sequences

CONSTANTS
    SlotCount,      \* bound sources
    Bindings,       \* the priorities bind() may be given: functions of the slots
    Frames,         \* what the codec may decode of each source's link: [session, seq, time, lease]
    Reopened,       \* the sources whose link the supervisor closes and opens
    MaxLease,       \* FramedSourcePolicy::max_lease_us
    ArbiterLease,   \* lease_ns
    FramesPerPoll,  \* max_frames_per_poll
    RxCapacity,     \* items the receive buffer holds
    IngressSlots,   \* target_ring_capacity
    MaxTime         \* the clock stops here

Slots == 0..(SlotCount - 1)
NoSlot == SlotCount

ASSUME BridgeAssumption ==
    /\ SlotCount \in Nat \ {0}
    /\ Bindings \subseteq [Slots -> Nat]
    /\ Frames \in [Slots -> SUBSET [session : Nat \ {0}, seq : Nat \ {0}, time : Nat,
                                   lease : Nat \ {0}]]
    /\ Reopened \subseteq Slots
    /\ MaxLease \in Nat \ {0} /\ ArbiterLease \in Nat \ {0}
    /\ FramesPerPoll \in Nat \ {0} /\ RxCapacity \in Nat \ {0}
    /\ IngressSlots \in Nat \ {0} /\ MaxTime \in Nat

Junk == [kind |-> "junk"]
Items(s) == {Junk} \cup [kind : {"frame", "part"}, frame : Frames[s]]

\* A ControlTarget, with the source frame it was made from.
Targets == [slot : Slots, session : Nat, seq : Nat, created : Nat, until : Nat]
NoTarget == [slot |-> 0, session |-> 0, seq |-> 0, created |-> 0, until |-> 0]

Least(a, b) == IF a <= b THEN a ELSE b

VARIABLES
    now,            \* the monotonic clock
    pc,             \* where the loop is
    pollNow,        \* now_ns of this iteration
    slot,           \* i of TargetArbiter::poll
    seen,           \* frames_seen of the source's poll
    got,            \* latest of the source's poll; number 0: none
    winner,         \* winner of TargetArbiter::poll
    open,           \* open_ of each source
    rx,             \* rx_ of each source
    session,        \* session_id_ of each source
    lastSeq,        \* last_sequence_ of each source
    lastTime,       \* last_sender_time_ns_ of each source
    priority,       \* priority of each source
    entry,          \* latest, sequence and valid of each source in the arbiter
    published,      \* published_slot_ and published_sequence_
    outSeq,         \* output_sequence_
    ingress,        \* the engine's target ring: [out, target]
    lastOut,        \* last_target_sequence of the control loop
    heard           \* history: the last target of each slot the control loop took

sourceVars == <<open, rx, session, lastSeq, lastTime>>
arbiterVars == <<entry, published, outSeq>>
engineVars == <<ingress, lastOut, heard>>
localVars == <<pollNow, slot, seen, got, winner>>
vars == <<now, pc, localVars, sourceVars, priority, arbiterVars, engineVars, visionVars>>

\* The sources are open and bound; nothing has been polled.
Init ==
    /\ VisionInit
    /\ now = 0 /\ pc = "idle"
    /\ pollNow = 0 /\ slot = 0 /\ seen = 0 /\ got = NoTarget /\ winner = NoSlot
    /\ open = [s \in Slots |-> TRUE] /\ rx = [s \in Slots |-> << >>]
    /\ session = [s \in Slots |-> 0]
    /\ lastSeq = [s \in Slots |-> 0] /\ lastTime = [s \in Slots |-> 0]
    /\ priority \in Bindings
    /\ entry = [s \in Slots |-> NoTarget] /\ published = <<NoSlot, 0>> /\ outSeq = 0
    /\ ingress = << >> /\ lastOut = 0 /\ heard = [s \in Slots |-> NoTarget]

-----------------------------------------------------------------------------
(* The loop and the environment between two polls. *)

Tick ==
    /\ pc \in {"idle", "observe"} /\ now < MaxTime
    /\ now' = now + 1
    /\ UNCHANGED <<pc, localVars, sourceVars, priority, arbiterVars, engineVars, visionVars>>

LoopBegin ==
    /\ pc = "idle"
    /\ pc' = "observe" /\ pollNow' = now
    /\ UNCHANGED <<now, slot, seen, got, winner, sourceVars, priority, arbiterVars, engineVars,
                   visionVars>>

\* publish(next++): an observation captured by now is due.
Observe ==
    /\ pc = "observe"
    /\ \E o \in Observations : o.capture <= pollNow /\ Update(o, now)
    /\ UNCHANGED <<now, pc, localVars, sourceVars, priority, arbiterVars, engineVars>>

\* The locals go out of scope.
PollEnd == pc' = "idle" /\ pollNow' = 0 /\ slot' = 0 /\ winner' = NoSlot

\* check(now); the arbiter is polled in the iterations where its time has come.
CheckVision ==
    /\ pc = "observe"
    /\ Check(pollNow)
    /\ \/ pc' = "receive" /\ UNCHANGED <<pollNow, slot, winner>>
       \/ PollEnd
    /\ UNCHANGED <<now, seen, got, sourceVars, priority, arbiterVars, engineVars>>

\* reset_link_session().
ResetLinkSession(s) ==
    /\ rx' = [rx EXCEPT ![s] = << >>]
    /\ session' = [session EXCEPT ![s] = 0]
    /\ lastSeq' = [lastSeq EXCEPT ![s] = 0]
    /\ lastTime' = [lastTime EXCEPT ![s] = 0]

\* The supervisor closes a link, or opens it, which may fail.
OpenOrClose(s) ==
    /\ pc = "idle"
    /\ \E success \in BOOLEAN : open' = [open EXCEPT ![s] = ~open[s] /\ success]
    /\ ResetLinkSession(s)
    /\ UNCHANGED <<now, pc, localVars, priority, arbiterVars, engineVars, visionVars>>

\* The control loop drains its targets and takes the last if it is newer.
Drain ==
    /\ pc = "idle" /\ ingress # << >>
    /\ LET last == ingress[Len(ingress)] IN
         IF last.out > lastOut
         THEN lastOut' = last.out /\ heard' = [heard EXCEPT ![last.target.slot] = last.target]
         ELSE UNCHANGED <<lastOut, heard>>
    /\ ingress' = << >>
    /\ UNCHANGED <<now, pc, localVars, sourceVars, priority, arbiterVars, visionVars>>

-----------------------------------------------------------------------------
(* FramedCommandSource::poll of the source in slot. *)

\* One byte of a full buffer is dropped: what it belonged to is lost.
Room(buffer) ==
    IF Len(buffer) = RxCapacity THEN <<Junk>> \o SubSeq(buffer, 2, Len(buffer)) ELSE buffer

\* try_receive appends what the link has: the rest of a frame that has begun,
\* or junk if the rest was lost, and a further item; an error or an idle link
\* appends nothing.
Received(s, buffer) ==
    LET tail == Len(buffer)
        torn == tail > 0 /\ buffer[tail].kind = "part"
        resumed == IF torn
                   THEN {[buffer EXCEPT ![tail] = i] :
                             i \in {Junk, [kind |-> "frame", frame |-> buffer[tail].frame]}}
                   ELSE {buffer}
    IN  {buffer} \cup resumed
          \cup {Append(b, i) : b \in {r \in resumed : Len(r) < RxCapacity}, i \in Items(s)}

Receive ==
    /\ pc = "receive"
    /\ got' = NoTarget /\ seen' = 0
    /\ IF open[slot]
       THEN /\ \E b \in Received(slot, Room(rx[slot])) : rx' = [rx EXCEPT ![slot] = b]
            /\ pc' = "parse"
       ELSE pc' = "judge" /\ UNCHANGED rx
    /\ UNCHANGED <<now, pollNow, slot, winner, open, session, lastSeq, lastTime, priority,
                   arbiterVars, engineVars, visionVars>>

HeadKind(buffer) == IF buffer = << >> THEN "none" ELSE buffer[1].kind

\* The decoder discards what is no frame and looks for the next one.
ParseJunk ==
    /\ pc = "parse" /\ HeadKind(rx[slot]) = "junk" /\ seen < FramesPerPoll
    /\ rx' = [rx EXCEPT ![slot] = Tail(@)]
    /\ UNCHANGED <<now, pc, localVars, open, session, lastSeq, lastTime, priority, arbiterVars,
                   engineVars, visionVars>>

\* The first frame fixes the session; frames of other sessions, replays and
\* frames with an older sender time are skipped.
Accepts(s, f) ==
    /\ session[s] \in {0, f.session}
    /\ f.seq > lastSeq[s]
    /\ lastTime[s] = 0 \/ f.time >= lastTime[s]

ParseFrame ==
    /\ pc = "parse" /\ HeadKind(rx[slot]) = "frame" /\ seen < FramesPerPoll
    /\ rx' = [rx EXCEPT ![slot] = Tail(@)]
    /\ seen' = seen + 1
    /\ LET f == rx[slot][1].frame IN
         /\ session' = [session EXCEPT ![slot] = IF @ = 0 THEN f.session ELSE @]
         /\ IF Accepts(slot, f)
            THEN /\ got' = [slot |-> slot, session |-> f.session, seq |-> f.seq,
                            created |-> pollNow, until |-> pollNow + Least(f.lease, MaxLease)]
                 /\ lastSeq' = [lastSeq EXCEPT ![slot] = f.seq]
                 /\ lastTime' = [lastTime EXCEPT ![slot] = f.time]
            ELSE UNCHANGED <<got, lastSeq, lastTime>>
    /\ UNCHANGED <<now, pc, pollNow, slot, winner, open, priority, arbiterVars, engineVars,
                   visionVars>>

ParseEnd ==
    /\ pc = "parse"
    /\ HeadKind(rx[slot]) \in {"none", "part"} \/ seen = FramesPerPoll
    /\ pc' = "judge"
    /\ UNCHANGED <<now, localVars, sourceVars, priority, arbiterVars, engineVars, visionVars>>

-----------------------------------------------------------------------------
(* TargetArbiter::poll. *)

Live(t) == t.seq > 0 /\ t.until > pollNow

\* Mutant of Stored: the sequence of the source is not compared.
StoredAgain(old, t) ==
    IF t.created <= pollNow /\ pollNow - t.created < ArbiterLease /\ Live(t)
    THEN [t EXCEPT !.until = Least(t.until, t.created + ArbiterLease)]
    ELSE old

\* Mutant of Stored: the target keeps the lease of its source.
StoredSourceLease(old, t) ==
    IF /\ t.seq > old.seq
       /\ t.created <= pollNow /\ pollNow - t.created < ArbiterLease /\ Live(t)
    THEN t
    ELSE old

\* What the arbiter stores of the source's answer: nothing of a replay, an
\* expired or a future target; the lease ends with the local one.
Stored(old, t) ==
    IF /\ t.seq > old.seq
       /\ t.created <= pollNow /\ pollNow - t.created < ArbiterLease /\ Live(t)
    THEN [t EXCEPT !.until = Least(t.until, t.created + ArbiterLease)]
    ELSE old

\* Mutant of Judge: the last live source wins.
JudgeLast ==
    /\ pc = "judge"
    /\ LET stored == Stored(entry[slot], got) IN
         /\ entry' = [entry EXCEPT ![slot] = stored]
         /\ winner' = IF Live(stored) THEN slot ELSE winner
    /\ slot' = slot + 1
    /\ pc' = IF slot + 1 = SlotCount THEN "publish" ELSE "receive"
    /\ got' = NoTarget /\ seen' = 0
    /\ UNCHANGED <<now, pollNow, sourceVars, priority, published, outSeq, engineVars, visionVars>>

\* The source's turn is over: a larger priority wins, ties the lower slot.
Judge ==
    /\ pc = "judge"
    /\ LET stored == Stored(entry[slot], got) IN
         /\ entry' = [entry EXCEPT ![slot] = stored]
         /\ winner' = IF Live(stored) /\ (winner = NoSlot \/ priority[slot] > priority[winner])
                      THEN slot ELSE winner
    /\ slot' = slot + 1
    /\ pc' = IF slot + 1 = SlotCount THEN "publish" ELSE "receive"
    /\ got' = NoTarget /\ seen' = 0
    /\ UNCHANGED <<now, pollNow, sourceVars, priority, published, outSeq, engineVars, visionVars>>

Candidate == IF winner = NoSlot THEN << >> ELSE <<winner, entry[winner].seq>>

\* try_submit of the engine: refused after a disarm request or when full.
IngressTakes == ~disarm /\ Len(ingress) < IngressSlots

\* Nothing lives, or the winner's target is the one published last.
PublishNothing ==
    /\ pc = "publish"
    /\ Candidate \in {<< >>, published}
    /\ PollEnd
    /\ UNCHANGED <<now, seen, got, sourceVars, priority, arbiterVars, engineVars,
                   visionVars>>

\* Mutant of PublishRefused: the candidate counts as published.
PublishRefusedForgets ==
    /\ pc = "publish"
    /\ Candidate \notin {<< >>, published} /\ ~IngressTakes
    /\ published' = Candidate
    /\ PollEnd
    /\ UNCHANGED <<now, seen, got, sourceVars, priority, entry, outSeq, engineVars,
                   visionVars>>

\* The ingress refuses: the candidate is kept for the next poll.
PublishRefused ==
    /\ pc = "publish"
    /\ Candidate \notin {<< >>, published} /\ ~IngressTakes
    /\ PollEnd
    /\ UNCHANGED <<now, seen, got, sourceVars, priority, arbiterVars, engineVars,
                   visionVars>>

Publish ==
    /\ pc = "publish"
    /\ Candidate \notin {<< >>, published} /\ IngressTakes
    /\ ingress' = Append(ingress, [out |-> outSeq + 1, target |-> entry[winner]])
    /\ outSeq' = outSeq + 1 /\ published' = Candidate
    /\ PollEnd
    /\ UNCHANGED <<now, seen, got, sourceVars, priority, entry, lastOut, heard,
                   visionVars>>

Poll == Receive \/ ParseJunk \/ ParseFrame \/ ParseEnd \/ Judge
          \/ PublishNothing \/ PublishRefused \/ Publish

Next ==
    \/ Tick \/ LoopBegin \/ Observe \/ CheckVision \/ Poll \/ Drain
    \/ \E s \in Reopened : OpenOrClose(s)

Spec == Init /\ [][Next]_vars

-----------------------------------------------------------------------------
(* Properties. *)

LoopTypes ==
    /\ now \in 0..MaxTime /\ pollNow \in 0..MaxTime
    /\ pc \in {"idle", "observe", "receive", "parse", "judge", "publish"}
    /\ slot \in 0..SlotCount /\ seen \in 0..FramesPerPoll
    /\ got \in Targets /\ winner \in 0..SlotCount

SourceTypes ==
    /\ open \in [Slots -> BOOLEAN]
    /\ DOMAIN rx = Slots
    /\ \A s \in Slots : rx[s] \in Seq(Items(s)) /\ Len(rx[s]) <= RxCapacity
    /\ session \in [Slots -> Nat]
    /\ lastSeq \in [Slots -> Nat] /\ lastTime \in [Slots -> Nat]

ArbiterTypes ==
    /\ priority \in Bindings
    /\ entry \in [Slots -> Targets] /\ published \in (0..SlotCount) \X Nat /\ outSeq \in Nat

EngineTypes ==
    /\ ingress \in Seq([out : Nat, target : Targets]) /\ Len(ingress) <= IngressSlots
    /\ lastOut \in Nat /\ heard \in [Slots -> Targets]

VisionTypes ==
    tripped \in BOOLEAN /\ disarm \in BOOLEAN /\ latest \in Observations \cup {NoObservation}

\* Every variable keeps its type; buffers and ring stay within their capacity.
TypeOK == LoopTypes /\ SourceTypes /\ ArbiterTypes /\ EngineTypes /\ VisionTypes

\* No target outlives the policy of its source or the local lease, counted
\* from the poll that decoded it, however often it is kept, refused or
\* published again (control-link-v1.md:42, architecture.md:105).
Bounded(t) == t.seq > 0 => t.created <= now /\ t.until <= t.created + Least(MaxLease, ArbiterLease)

LeasesAreBounded ==
    /\ \A s \in Slots : Bounded(entry[s]) /\ Bounded(heard[s])
    /\ \A i \in 1..Len(ingress) : Bounded(ingress[i].target)

\* A target the arbiter counts as published was taken by the ingress: what was
\* refused under backpressure is offered again.
PublishedIsDelivered ==
    published[1] # NoSlot =>
        \/ heard[published[1]].seq = published[2]
        \/ \E i \in 1..Len(ingress) :
               published = <<ingress[i].target.slot, ingress[i].target.seq>>

\* Loss, repetition, reordering and reopened links never take the controller
\* back to an older target of a source, and never renew the lease of one.
SourceNeverGoesBack ==
    [][\A s \in Slots : heard'[s].seq > heard[s].seq \/ heard'[s] = heard[s]]_vars

\* What enters the ingress is live and no source with a better claim is.
BestSourceWins ==
    [][Len(ingress') > Len(ingress) =>
         LET w == ingress'[Len(ingress')].target.slot IN
         /\ Live(entry[w])
         /\ \A s \in Slots \ {w} :
                Live(entry[s]) =>
                    priority[s] < priority[w] \/ (priority[s] = priority[w] /\ w < s)]_vars

\* Targets enter the engine only behind a Clear observation that is fresh in
\* the same iteration, and none enters after a disarm.
ClearBehindTargets ==
    [][Len(ingress') > Len(ingress) =>
         /\ ~disarm /\ latest.scene = "Clear"
         /\ pollNow < latest.until /\ pollNow < latest.capture + MaxAge]_vars
====
