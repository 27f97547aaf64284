--------------------------- MODULE MCSilverPipeline ---------------------------
(* Instances of SilverPipeline for TLC: days of ten seconds. *)
EXTENDS SilverPipeline, TLC

CONSTANTS a1, a2, b1, b2, c1

MCTime == 0 .. 9

\* An edit that satisfies every rule, with these columns changed.
Edit(id, metaDt, timestamp) ==
  [id |-> id, title |-> "clean", wiki |-> "wiki", type |-> "edit", metaDt |-> metaDt,
   timestamp |-> timestamp, lengthOld |-> Null, dt |-> 0, ingestedAt |-> 9]

\* Two copies of one event; two events of one id, far apart, the second of them
\* ahead of the clock; an event whose time is missing.
MCContent ==
  (a1 :> Edit("a", 2, 0)) @@ (a2 :> Edit("a", 2, 0)) @@
  (b1 :> Edit("b", 1, 0)) @@ (b2 :> Edit("b", 7, 2)) @@
  (c1 :> [Edit("c", Null, 0) EXCEPT !.title = "control"])
=============================================================================
