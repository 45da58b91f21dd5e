---- MODULE MCRealtimeEngine ----
(* Values of the constants of RealtimeEngine for TLC. *)
EXTENDS RealtimeEngine

OneJoint(q) == [j \in Joints |-> q]

GoodData == {OneJoint("ok")}
Now == {0}

Made(n, l, q) == [seq |-> n, offset |-> 0, lease |-> l, joint |-> OneJoint(q)]

OneTarget == {Made(1, 0, "ok")}

\* Two targets in order, the newer with or without a transport deadline; and one
\* that the safety policy refuses.
TwoTargets == {Made(1, 0, "ok"), Made(2, 0, "ok"), Made(2, 1, "ok"), Made(2, 0, "limit")}

\* The engine never reads its snapshots: two states that differ in them only have
\* the same future but for what try_read_latest returns.
WithoutSnapshots ==
    <<now, armActuation, ownerVars, flags, states, commands, targets, ioVars, ctlVars, submits>>
====
