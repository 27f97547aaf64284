---------------------------- MODULE MCLocalPipeline ----------------------------
(* An instance of LocalPipeline for TLC: two access keys and two service     *)
(* accounts, enough for a `down` and a second `up` of both clouds.           *)
EXTENDS LocalPipeline, TLC

CONSTANTS key1, key2

SymmetricKeys == Permutations(AwsKey)
=============================================================================
