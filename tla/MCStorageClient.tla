---------------------------- MODULE MCStorageClient ----------------------------
(* Instances of StorageClient for TLC: the consumer, with two threads that   *)
(* flush, beside a script that reads one of their objects back.              *)
EXTENDS StorageClient, TLC

CONSTANTS consumer, script, c1, c2, r1

MCHandlerOf == (c1 :> consumer) @@ (c2 :> consumer) @@ (r1 :> script)

MCPathOf == (c1 :> "p1") @@ (c2 :> "p2") @@ (r1 :> "p1")

MCAccepts == [s \in Service |-> IF s = "minio" THEN {"root"} ELSE {"cloud"}]

Env(b, e, a, g) == [backend |-> b, endpoint |-> e, awsKey |-> a, gcpKey |-> g]

Local == Env("minio", TRUE, "root", "none")

\* "s3" with the endpoint still set is MinIO again; "minio" without it is AWS.
OnS3 == Env("s3", FALSE, "cloud", "none")
StillLocal == Env("s3", TRUE, "root", "none")
Reverted == Env("minio", TRUE, "cloud", "none")
OnGcs == Env("gcs", TRUE, "root", "cloud")
NoGcpKey == Env("gcs", TRUE, "root", "none")

Both(e) == [h \in Handler |-> e]

MCSetup ==
  {Both(e) : e \in {Local, OnS3, OnGcs, Reverted}}
    \cup {(consumer :> StillLocal) @@ (script :> Local),
          (consumer :> Local) @@ (script :> OnS3),
          (consumer :> OnGcs) @@ (script :> NoGcpKey)}
=============================================================================
