---- MODULE PreviewChannel ----
(***************************************************************************)
(* What rtctrl_face_video promises to those who watch: a channel from the   *)
(* camera that may leave frames out, but shows a frame whole, with its own  *)
(* pixels and its own faces, and never goes back.  FaceVideo.tla            *)
(* implements it.                                                           *)
(***************************************************************************)
EXTENDS Integers

CONSTANTS
    Viewers,    \* the places for those who watch
    Nobody      \* what `watching` is for a free place, not a natural number

VARIABLES
    captured,   \* frames so far; they are numbered from 1
    shown,      \* how many were shown, and the last of them
    watching    \* for each viewer how many had been shown, with the last it was sent

channel == <<captured, shown, watching>>

Init ==
    /\ captured = 0
    /\ shown = [count |-> 0, frame |-> 0, pixels |-> 0, faces |-> 0]
    /\ watching = [v \in Viewers |-> Nobody]

Capture == captured' = captured + 1 /\ UNCHANGED <<shown, watching>>

\* Frames in between are left out.
Show ==
    /\ \E f \in shown.frame + 1 .. captured :
          shown' = [count |-> shown.count + 1, frame |-> f, pixels |-> f, faces |-> f]
    /\ UNCHANGED <<captured, watching>>

Connect(v) ==
    /\ watching[v] = Nobody
    /\ watching' = [watching EXCEPT ![v] = 0]
    /\ UNCHANGED <<captured, shown>>

\* A viewer that is slow skips frames.
Send(v) ==
    /\ watching[v] # Nobody
    /\ \E n \in watching[v] + 1 .. shown.count : watching' = [watching EXCEPT ![v] = n]
    /\ UNCHANGED <<captured, shown>>

\* One of them leaves, or all do when the program is killed.
Leave ==
    /\ \E who \in SUBSET Viewers :
          watching' = [v \in Viewers |-> IF v \in who THEN Nobody ELSE watching[v]]
    /\ UNCHANGED <<captured, shown>>

Next == Capture \/ Show \/ Leave \/ \E v \in Viewers : Connect(v) \/ Send(v)

Spec == Init /\ [][Next]_channel
====
