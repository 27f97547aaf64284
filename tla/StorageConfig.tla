----------------------------- MODULE StorageConfig -----------------------------
(***************************************************************************)
(* What the code derives from the storage part of .env.  Three places read *)
(* the same variables on their own: the storage handlers (which service a  *)
(* client talks to), their resolve_uri (the scheme of the paths that the   *)
(* pipelines read) and render_local_spark_config.py (the connector and     *)
(* credentials Spark is given).                                            *)
(***************************************************************************)
CONSTANTS
  Key,      \* credentials: AWS access keys, MinIO's root user, GCP key files
  NoKey     \* the variable that would hold the credential is not set, or is empty

ASSUME KeyAssumption == NoKey \notin Key

Backend == {"minio", "s3", "gcs"}
Service == {"minio", "aws", "gcs"}

\* STORAGE_BACKEND, whether S3_ENDPOINT_URL is set, AWS_ACCESS_KEY_ID with its
\* secret, and the key behind GOOGLE_APPLICATION_CREDENTIALS.
Environ ==
  [backend : Backend, endpoint : BOOLEAN, awsKey : Key \cup {NoKey}, gcpKey : Key \cup {NoKey}]

\* get_storage_backend: one class for "minio" and "s3", another for "gcs".
IsGcs(env) == env.backend = "gcs"

\* Mutant of ServiceOf: STORAGE_BACKEND decides, and the endpoint is not looked at.
ServiceByName(env) ==
  CASE env.backend = "gcs" -> "gcs"
    [] env.backend = "s3" -> "aws"
    [] env.backend = "minio" -> "minio"

\* The service a client is built for.  The S3 handler looks at the endpoint
\* alone, whichever of its two names selected it.
ServiceOf(env) ==
  CASE IsGcs(env) -> "gcs"
    [] ~IsGcs(env) /\ env.endpoint -> "minio"
    [] ~IsGcs(env) /\ ~env.endpoint -> "aws"

KeyOf(env) == IF IsGcs(env) THEN env.gcpKey ELSE env.awsKey

\* Mutant of Scheme: every path is an S3 path.
SchemeOfS3(env) == "s3a"

\* resolve_uri needs no client and no credential.
Scheme(env) == IF IsGcs(env) THEN "gs" ELSE "s3a"

-----------------------------------------------------------------------------
(* spark-defaults.conf.                                                    *)

SparkConfType ==
  [connector : {"gs", "s3a"}, endpoint : BOOLEAN, key : Key \cup {NoKey}]

\* _s3_compatible_lines: a custom endpoint if there is one, else the region.
S3Lines(env) == [connector |-> "s3a", endpoint |-> env.endpoint, key |-> env.awsKey]

\* _gcs_lines.
GcsLines(env) == [connector |-> "gs", endpoint |-> FALSE, key |-> env.gcpKey]

\* _render_spark_defaults_conf: the backend decides between the two.
SparkConf(env) == IF IsGcs(env) THEN GcsLines(env) ELSE S3Lines(env)

\* The service Spark reads a path of this scheme from, given its configuration.
\* It has a connector, with credentials, for one scheme only.
SparkReaches(conf, scheme) ==
  CASE conf.connector # scheme -> "none"
    [] conf.connector = scheme /\ scheme = "gs" -> "gcs"
    [] conf.connector = scheme /\ scheme = "s3a" /\ conf.endpoint -> "minio"
    [] conf.connector = scheme /\ scheme = "s3a" /\ ~conf.endpoint -> "aws"
=============================================================================
