---- MODULE MCCommandBridge ----
(* Values of the constants of CommandBridge for TLC. *)
EXTENDS CommandBridge, TLC

Frame(f, n, t, l) == [session |-> f, seq |-> n, time |-> t, lease |-> l]

\* Slot 1: two sessions, a frame whose sender time went back, short and long leases.
OneFrame == {Frame(1, 1, 1, 2)}
FewFrames == {Frame(1, 1, 2, 2), Frame(1, 2, 1, 2), Frame(2, 2, 3, 1)}
FramesOfSlots == 0 :> OneFrame @@ 1 :> FewFrames

\* Slot 1 first, or both alike, so that slot 0 is.
TwoBindings == {0 :> 1 @@ 1 :> 2, 0 :> 1 @@ 1 :> 1}

Observation(n, c, u, s) == [ours |-> TRUE, seq |-> n, capture |-> c, until |-> u, scene |-> s]
\* Valid for longer than max_age_ns; then a person.
FewObservations == {Observation(1, 0, 3, "Clear"), Observation(2, 1, 3, "Active")}
====
