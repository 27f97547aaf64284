----------------------------- MODULE MCDqTagging -----------------------------
(* An instance of DqTagging for TLC: days of two seconds. *)
EXTENDS DqTagging

MCTime == {0, 1, 3}
=============================================================================
