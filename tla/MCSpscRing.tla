---- MODULE MCSpscRing ----
(* The ring of SpscRing.tla for TLC. *)
EXTENDS SpscRing
====
