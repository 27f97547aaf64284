---------------------------- MODULE MCRawConsumer ----------------------------
(* Instances of RawConsumer for TLC. *)
EXTENDS RawConsumer, TLC

CONSTANTS m1, m2, m3, w1, w2

\* m2 and m3 share an id.
MCIdOf == [m \in Message |-> IF m = m1 THEN "e1" ELSE "e2"]

\* m3 has no partition.
MCPartOf == (m1 :> "p1") @@ (m2 :> "p2") @@ (m3 :> "none")

\* Every event has a partition.
MCPartOfSound == [m \in Message |-> IF m = m2 THEN "p2" ELSE "p1"]

\* The workers behave alike.
WorkerSymmetry == Permutations(Worker)
=============================================================================
