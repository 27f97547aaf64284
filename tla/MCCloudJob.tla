------------------------------- MODULE MCCloudJob -------------------------------
(* An instance of CloudJob for TLC: two fetches that overlap, and a deployment *)
(* by CI, one by hand from another checkout, and one without --confirm.        *)
EXTENDS CloudJob, TLC

CONSTANTS ci, dev, typo, f1, f2

MCPathOf == (ci :> "main") @@ (dev :> "mine") @@ (typo :> "mine")

SymmetricFetchers == Permutations(Fetcher)
=============================================================================
