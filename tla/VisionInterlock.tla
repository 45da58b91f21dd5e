---- MODULE VisionInterlock ----
(***************************************************************************)
(* VisionInterlock (vision_interlock.hpp): fresh Clear observations keep    *)
(* the authorization, anything else requests the terminal disarm.  The      *)
(* object is used by one management thread.                                 *)
(***************************************************************************)
EXTENDS Integers

CONSTANTS
    MaxAge,         \* max_age_ns
    Observations    \* what vision may report: [ours, seq, capture, until, scene]

ASSUME VisionAssumption ==
    /\ MaxAge \in Nat \ {0}
    /\ Observations \subseteq [ours : BOOLEAN, seq : Nat, capture : Nat, until : Nat,
                               scene : {"Unknown", "Clear", "Active", "Fault"}]

VARIABLES
    tripped,        \* tripped_
    latest,         \* latest_ and has_observation_: none has the number 0
    disarm          \* disarm_requested_ of the engine

visionVars == <<tripped, latest, disarm>>

NoObservation == [ours |-> TRUE, seq |-> 0, capture |-> 0, until |-> 0, scene |-> "Unknown"]

VisionInit == tripped = FALSE /\ latest = NoObservation /\ disarm = FALSE

\* Mutant of Recent: only the observation's own validity counts.
RecentByTtl(o, t) == o.capture <= t /\ t < o.until

\* At time t the observation is neither too old nor past its validity.
Recent(o, t) == o.capture <= t /\ t - o.capture < MaxAge /\ t < o.until

Trip == tripped' = TRUE /\ disarm' = TRUE /\ UNCHANGED latest

\* Schema and session are "ours"; the number grows.
Update(o, t) ==
    \/ tripped /\ UNCHANGED visionVars
    \/ /\ ~tripped
       /\ IF o.ours /\ o.seq > latest.seq /\ Recent(o, t) /\ o.scene = "Clear"
          THEN latest' = o /\ UNCHANGED <<tripped, disarm>>
          ELSE Trip

Check(t) ==
    \/ tripped /\ UNCHANGED visionVars
    \/ /\ ~tripped
       /\ IF latest.seq > 0 /\ Recent(latest, t) THEN UNCHANGED visionVars ELSE Trip
====
