-------------------------- MODULE LocalPipelineProofs --------------------------
(***************************************************************************)
(* Proofs about LocalPipeline and CloudEnv.  That a pipeline reads what is *)
(* written follows from the types, as Spark's configuration and a handler  *)
(* come to the same service for each .env.  What the scripts leave behind  *)
(* needs an invariant for every label at which a script may stand.         *)
(***************************************************************************)
EXTENDS LocalPipeline, TLAPS

USE KeyAssumption, CloudAssumption

(***************************************************************************)
(* Types.                                                                  *)
(***************************************************************************)

LEMMA InitType == Init => TypeOK
<1> SUFFICES ASSUME Init PROVE TypeOK
  OBVIOUS
<1>1. env \in Environ
  BY DEF Init, CloudInit, Local, Environ, Backend
<1>2. /\ aws \in [bucket : BOOLEAN, user : BOOLEAN, policy : BOOLEAN, key : AwsKey \cup {NoKey}]
      /\ gcp \in [bucket : BOOLEAN, account : 0 .. accounts, roles : BOOLEAN]
  BY DEF Init, CloudInit, NoAws, NoGcp
<1>3. /\ issued = {} /\ accounts = 0 /\ file = 0 /\ stored = {} /\ at = "idle" /\ got = NoKey
      /\ faults = 0 /\ fine \in BOOLEAN /\ streak = "none" /\ halfEdit \in BOOLEAN /\ torn = {}
  BY DEF Init, CloudInit
<1>4. CloudTypeOK
  BY <1>1, <1>2, <1>3 DEF CloudTypeOK
<1> QED
  BY <1>4 DEF Init, TypeOK

\* The steps of cloud_s3.sh.
LEMMA S3Type ==
  ASSUME CloudTypeOK, S3Step
  PROVE  CloudTypeOK'
<1> USE DEF CloudTypeOK, S3Up, S3Down, GcsUp, GcsDown
<1>1. CASE S3Bucket \/ S3User \/ S3Policy
  <2>1. aws' \in [bucket : BOOLEAN, user : BOOLEAN, policy : BOOLEAN, key : AwsKey \cup {NoKey}]
    BY <1>1 DEF S3Bucket, S3User, S3Policy
  <2>2. at' \in S3Up
    BY <1>1 DEF S3Bucket, S3User, S3Policy, Goto
  <2>3. UNCHANGED <<env, issued, gcp, accounts, file, stored, got, faults, fine, streak, halfEdit, torn>>
    BY <1>1 DEF S3Bucket, S3User, S3Policy, Goto, history
  <2> QED
    BY <2>1, <2>2, <2>3
<1>2. CASE S3ListKeys
  <2>1. CASE aws.key # NoKey
    <3>1. streak' \in {"none", "s3_fresh"} /\ fine' = TRUE /\ at' = "idle" /\ got' = NoKey
      BY <1>2, <2>1 DEF S3ListKeys, EndUp, End
    <3>2. UNCHANGED <<env, cloud, faults, halfEdit, torn>>
      BY <1>2, <2>1 DEF S3ListKeys, EndUp, End
    <3> QED
      BY <3>1, <3>2 DEF cloud
  <2>2. CASE aws.key = NoKey
    <3>1. at' = "s3_key" /\ UNCHANGED <<env, cloud, got, faults>> /\ UNCHANGED history
      BY <1>2, <2>2 DEF S3ListKeys, Goto
    <3> QED
      BY <3>1 DEF cloud, history
  <2> QED
    BY <2>1, <2>2
<1>3. CASE S3CreateKey
  BY <1>3 DEF S3CreateKey, Goto, history
<1>4. CASE S3KeyLost
  <2>1. /\ faults' \in Nat
        /\ aws' \in [bucket : BOOLEAN, user : BOOLEAN, policy : BOOLEAN, key : AwsKey \cup {NoKey}]
        /\ issued' \in SUBSET AwsKey
    BY <1>4 DEF S3KeyLost, Fault
  <2>2. /\ got' = NoKey /\ at' = "s3_env" /\ fine' = FALSE
        /\ UNCHANGED <<env, gcp, accounts, file, stored, streak, halfEdit, torn>>
    BY <1>4 DEF S3KeyLost
  <2> QED
    BY <2>1, <2>2
<1>5. CASE S3SetEnv
  <2>1. env' \in Environ
    BY <1>5 DEF S3SetEnv, Environ, Backend
  <2> QED
    BY <1>5, <2>1 DEF S3SetEnv, Goto, cloud, history
<1>6. CASE S3CommentEndpoint
  BY <1>6 DEF S3CommentEndpoint, EndUp, End, cloud, Environ
<1>7. CASE S3Empty
  BY <1>7 DEF S3Empty, Goto, history
<1>13. CASE S3DeleteBucket
  <2>1. aws' \in [bucket : BOOLEAN, user : BOOLEAN, policy : BOOLEAN, key : AwsKey \cup {NoKey}]
    BY <1>13 DEF S3DeleteBucket
  <2>2. fine' \in BOOLEAN /\ at' \in S3Down
    BY <1>13 DEF S3DeleteBucket
  <2>3. UNCHANGED <<env, issued, gcp, accounts, file, stored, got, faults, streak, halfEdit, torn>>
    BY <1>13 DEF S3DeleteBucket
  <2> QED
    BY <2>1, <2>2, <2>3
<1>8. CASE S3DeleteKeys \/ S3DeletePolicy
  <2>1. aws' \in [bucket : BOOLEAN, user : BOOLEAN, policy : BOOLEAN, key : AwsKey \cup {NoKey}]
    BY <1>8 DEF S3DeleteKeys, S3DeletePolicy
  <2>2. at' \in S3Down
    BY <1>8 DEF S3DeleteKeys, S3DeletePolicy, Goto
  <2>3. UNCHANGED <<env, issued, gcp, accounts, file, stored, got, faults, fine, streak, halfEdit, torn>>
    BY <1>8 DEF S3DeleteKeys, S3DeletePolicy, Goto, history
  <2> QED
    BY <2>1, <2>2, <2>3
<1>9. CASE S3DeleteUser
  <2>1. (aws.user /\ (aws.key # NoKey \/ aws.policy)) \in BOOLEAN
    OBVIOUS
  <2> QED
    BY <1>9, <2>1 DEF S3DeleteUser, Goto, history
<1>10. CASE Revert("s3_revert", "s3_local")
  BY <1>10 DEF Revert, Goto, cloud, history, Environ, Backend
<1>11. CASE Uncomment("s3_local", "s3_down", "aws")
  BY <1>11 DEF Uncomment, End, cloud, Environ
<1>12. CASE \/ Swallow("s3_empty", "s3_rm_bucket") \/ Swallow("s3_rm_bucket", "s3_rm_key")
            \/ Swallow("s3_rm_key", "s3_rm_policy") \/ Swallow("s3_rm_policy", "s3_rm_user")
            \/ Swallow("s3_rm_user", "s3_revert")
  <2>1. faults' \in Nat
    BY <1>12 DEF Swallow, Fault
  <2>2. at' \in S3Down /\ fine' \in BOOLEAN
    BY <1>12 DEF Swallow
  <2>3. UNCHANGED <<env, aws, issued, gcp, accounts, file, stored, got, streak, halfEdit, torn>>
    BY <1>12 DEF Swallow, cloud
  <2> QED
    BY <2>1, <2>2, <2>3
<1> QED
  BY <1>1, <1>2, <1>3, <1>4, <1>5, <1>6, <1>7, <1>8, <1>9, <1>10, <1>11, <1>12, <1>13 DEF S3Step

\* The steps of cloud_gcs.sh.
LEMMA GcsType ==
  ASSUME CloudTypeOK, GcsStep
  PROVE  CloudTypeOK'
<1> USE DEF CloudTypeOK, S3Up, S3Down, GcsUp, GcsDown
<1>1. CASE GcsBucket \/ GcsRoles
  BY <1>1 DEF GcsBucket, GcsRoles, Goto, history
<1>2. CASE GcsAccount
  <2>1. /\ gcp' \in [bucket : BOOLEAN, account : 0 .. accounts', roles : BOOLEAN]
        /\ accounts' \in 0 .. MaxAccounts /\ accounts <= accounts'
    <3>1. CASE gcp.account # 0
      BY <1>2, <3>1 DEF GcsAccount
    <3>2. CASE gcp.account = 0
      <4>1. accounts' = accounts + 1 /\ gcp' = [gcp EXCEPT !.account = accounts + 1]
            /\ accounts < MaxAccounts
        BY <1>2, <3>2 DEF GcsAccount
      <4> QED
        BY <4>1
    <3> QED
      BY <3>1, <3>2
  <2> QED
    BY <1>2, <2>1 DEF GcsAccount, Goto, history
<1>3. CASE GcsKey
  <2>1. file' \in 0 .. accounts
    BY <1>3 DEF GcsKey
  <2> QED
    BY <1>3, <2>1 DEF GcsKey, Goto, history
<1>9. CASE GcsDeleteFile
  <2>1. file' \in 0 .. accounts
    BY <1>9 DEF GcsDeleteFile
  <2> QED
    BY <1>9, <2>1 DEF GcsDeleteFile, Goto, history
<1>4. CASE GcsSetEnv
  BY <1>4 DEF GcsSetEnv, EndUp, End, cloud, Environ, Backend
<1>5. CASE GcsDeleteBucket
  <2>1. gcp' \in [bucket : BOOLEAN, account : 0 .. accounts, roles : BOOLEAN]
    BY <1>5 DEF GcsDeleteBucket
  <2>2. stored' \in SUBSET Service
    BY <1>5 DEF GcsDeleteBucket
  <2>3. at' \in GcsDown /\ UNCHANGED <<env, aws, issued, accounts, file, got, faults>>
    BY <1>5 DEF GcsDeleteBucket, Goto
  <2>4. UNCHANGED <<fine, streak, halfEdit, torn>>
    BY <1>5 DEF GcsDeleteBucket, Goto, history
  <2> QED
    BY <2>1, <2>2, <2>3, <2>4
<1>10. CASE GcsDeleteAccount
  <2>1. gcp' \in [bucket : BOOLEAN, account : 0 .. accounts, roles : BOOLEAN]
    <3>1. 0 \in 0 .. accounts
      OBVIOUS
    <3> QED
      BY <1>10, <3>1 DEF GcsDeleteAccount
  <2> QED
    BY <1>10, <2>1 DEF GcsDeleteAccount, Goto, history
<1>6. CASE Revert("gcs_revert", "gcs_local")
  BY <1>6 DEF Revert, Goto, cloud, history, Environ, Backend
<1>7. CASE Uncomment("gcs_local", "gcs_down", "gcs")
  BY <1>7 DEF Uncomment, End, cloud, Environ
<1>8. CASE Swallow("gcs_rm_bucket", "gcs_rm_account") \/ Swallow("gcs_rm_account", "gcs_rm_file")
  <2>1. faults' \in Nat
    BY <1>8 DEF Swallow, Fault
  <2>2. at' \in GcsDown /\ fine' \in BOOLEAN
    BY <1>8 DEF Swallow
  <2>3. UNCHANGED <<env, aws, issued, gcp, accounts, file, stored, got, streak, halfEdit, torn>>
    BY <1>8 DEF Swallow, cloud
  <2> QED
    BY <2>1, <2>2, <2>3
<1> QED
  BY <1>1, <1>2, <1>3, <1>4, <1>5, <1>6, <1>7, <1>8, <1>9, <1>10 DEF GcsStep

LEMMA ServiceType ==
  ASSUME NEW e \in Environ
  PROVE  ServiceOf(e) \in Service /\ Scheme(e) \in {"gs", "s3a"} /\ SparkConf(e) \in SparkConfType
  BY DEF Environ, Backend, Service, ServiceOf, IsGcs, Scheme, SparkConf, S3Lines, GcsLines,
         SparkConfType

\* A step of a script or of a process that stores.
LEMMA CloudType ==
  ASSUME CloudTypeOK, CloudNext
  PROVE  CloudTypeOK'
<1>1. ASSUME NEW first \in Script, Begin(first)
      PROVE  CloudTypeOK'
  BY <1>1 DEF Begin, Script, CloudTypeOK, cloud, history, S3Up, S3Down, GcsUp, GcsDown
<1>2. CASE Break
  <2>1. halfEdit' \in BOOLEAN /\ torn' \in SUBSET {"aws", "gcs"}
    BY <1>2 DEF Break, CloudTypeOK
  <2>2. faults' \in Nat
    BY <1>2 DEF Break, Fault, CloudTypeOK
  <2>3. at' = "idle" /\ streak' = "none" /\ fine' \in BOOLEAN /\ got' = NoKey
    BY <1>2 DEF Break
  <2>4. UNCHANGED <<env, aws, issued, gcp, accounts, file, stored>>
    BY <1>2 DEF Break, cloud
  <2> QED
    BY <2>1, <2>2, <2>3, <2>4 DEF CloudTypeOK
<1>3. CASE Store
  <2>1. ServiceOf(env) \in Service
    BY ServiceType DEF CloudTypeOK
  <2>2. stored' \in SUBSET Service
    BY <1>3, <2>1 DEF Store, CloudTypeOK
  <2>3. UNCHANGED <<env, aws, issued, gcp, accounts, file, at, got, faults, streak, torn>>
    BY <1>3 DEF Store, history
  <2>4. fine' \in BOOLEAN /\ halfEdit' \in BOOLEAN
    BY <1>3 DEF Store, history, CloudTypeOK
  <2> QED
    BY <2>2, <2>3, <2>4 DEF CloudTypeOK
<1> QED
  BY <1>1, <1>2, <1>3, S3Type, GcsType DEF CloudNext

LEMMA StepType ==
  ASSUME TypeOK, [Next]_vars
  PROVE  TypeOK'
<1> USE DEF TypeOK
<1>1. CASE CloudNext /\ UNCHANGED localVars
  <2>1. CloudTypeOK'
    BY <1>1, CloudType
  <2> QED
    BY <1>1, <2>1 DEF localVars
<1>2. ASSUME NEW written \in {{}, {"main"}, PipelineSpec}, Render(written)
      PROVE  TypeOK'
  <2>1. env \in Environ /\ faults \in Nat
    BY DEF CloudTypeOK
  <2>2. conf' \in SparkConfType /\ spec' \in [PipelineSpec -> {"gs", "s3a", NotYet}]
    BY <1>2, <2>1, ServiceType DEF Render
  <2>3. faults' \in Nat
    BY <1>2, <2>1 DEF Render, Fault
  <2> QED
    BY <1>2, <2>2, <2>3 DEF Render, CloudTypeOK, cloud, history
<1>3. ASSUME NEW s \in PipelineSpec, Run(s)
      PROVE  TypeOK'
  <2>1. bronze' \in Service
    BY <1>3 DEF Run, Reads
  <2> QED
    BY <1>3, <2>1 DEF Run, CloudTypeOK, cloudVars, cloud, history
<1>4. CASE UNCHANGED vars
  BY <1>4 DEF vars, cloudVars, localVars, cloud, history, CloudTypeOK
<1> QED
  BY <1>1, <1>2, <1>3, <1>4 DEF Next

\* Every variable keeps its type.
THEOREM LocalTypeCorrect == Spec => []TypeOK
<1> QED
  BY InitType, StepType, PTL DEF Spec

(***************************************************************************)
(* What a pipeline reads.                                                  *)
(***************************************************************************)

\* The three places that read .env on their own agree.
LEMMA ReadersAgree ==
  ASSUME NEW e \in Environ
  PROVE  SparkReaches(SparkConf(e), Scheme(e)) = ServiceOf(e)
<1>1. CASE IsGcs(e)
  BY <1>1 DEF SparkReaches, SparkConf, GcsLines, Scheme, ServiceOf
<1>2. CASE ~IsGcs(e)
  BY <1>2 DEF SparkReaches, SparkConf, S3Lines, Scheme, ServiceOf, Environ
<1> QED
  BY <1>1, <1>2

LEMMA RunReads ==
  ASSUME TypeOK, NEW s \in PipelineSpec, Run(s)
  PROVE  bronze' \in Service /\ bronze' = SparkReaches(conf, Scheme(env))
  BY DEF Run, Reads, Service

\* For every .env, not only those the scripts write: with a configuration that was
\* rendered from it, Spark reads where the handlers write.
THEOREM PipelinesReadWhatIsWritten == Spec => ReadsWhatIsWritten
<1>1. TypeOK /\ [Next]_vars =>
        [\A s \in PipelineSpec : Run(s) /\ conf = SparkConf(env) => bronze' = ServiceOf(env)]_vars
  <2> SUFFICES ASSUME TypeOK, NEW s \in PipelineSpec, Run(s), conf = SparkConf(env)
               PROVE  bronze' = ServiceOf(env)
    OBVIOUS
  <2> QED
    BY RunReads, ReadersAgree DEF TypeOK, CloudTypeOK
<1> QED
  BY <1>1, LocalTypeCorrect, PTL DEF Spec, ReadsWhatIsWritten

\* With one that is out of date, all that can be taken for each other is MinIO and
\* AWS.
THEOREM OnlyTwinsMixUp == Spec => OnlyTwinsAreConfused
<1>1. TypeOK /\ [Next]_vars =>
        [\A s \in PipelineSpec : Run(s) /\ bronze' # ServiceOf(env)
           => {bronze', ServiceOf(env)} = {"minio", "aws"}]_vars
  <2> SUFFICES ASSUME TypeOK, NEW s \in PipelineSpec, Run(s), bronze' # ServiceOf(env)
               PROVE  {bronze', ServiceOf(env)} = {"minio", "aws"}
    OBVIOUS
  <2>1. bronze' \in Service /\ bronze' = SparkReaches(conf, Scheme(env)) /\ env \in Environ
    BY RunReads DEF TypeOK, CloudTypeOK
  <2>2. CASE IsGcs(env)
    BY <2>1, <2>2 DEF SparkReaches, Scheme, ServiceOf, Service
  <2>3. CASE ~IsGcs(env)
    <3>1. bronze' \in {"minio", "aws"} /\ ServiceOf(env) \in {"minio", "aws"}
      BY <2>1, <2>3 DEF SparkReaches, Scheme, ServiceOf, Service, Environ
    <3> QED
      BY <3>1
  <2> QED
    BY <2>2, <2>3
<1> QED
  BY <1>1, LocalTypeCorrect, PTL DEF Spec, OnlyTwinsAreConfused

(***************************************************************************)
(* The name in .env.                                                       *)
(***************************************************************************)

\* Where an edit of .env is half done, and what it will come to.
HalfWay == {"s3_endpoint", "s3_local", "gcs_local"}

NameInv ==
  /\ at = "s3_endpoint" => env.backend = "s3"
  /\ at \in {"s3_local", "gcs_local"} => env.backend = "minio"
  /\ at \notin HalfWay /\ ~halfEdit => ServiceOf(env) = ServiceByName(env)

LEMMA StepName ==
  ASSUME CloudTypeOK, NameInv, CloudNext
  PROVE  NameInv'
<1> USE DEF NameInv, HalfWay
<1>0. env \in Environ
  BY DEF CloudTypeOK
<1>1. ASSUME UNCHANGED <<env, halfEdit>>, at \notin HalfWay, at' \notin HalfWay
      PROVE  NameInv'
  BY <1>1 DEF ServiceOf, ServiceByName, IsGcs
<1>2. CASE S3SetEnv
  BY <1>0, <1>2 DEF S3SetEnv, Goto, Environ
<1>3. CASE S3CommentEndpoint
  <2>1. env'.backend = "s3" /\ ~env'.endpoint /\ at' = "idle"
    BY <1>0, <1>3 DEF S3CommentEndpoint, EndUp, End, Environ
  <2> QED
    BY <2>1 DEF ServiceOf, ServiceByName, IsGcs
<1>4. CASE Revert("s3_revert", "s3_local") \/ Revert("gcs_revert", "gcs_local")
  BY <1>0, <1>4 DEF Revert, Goto, Environ
<1>5. CASE Uncomment("s3_local", "s3_down", "aws") \/ Uncomment("gcs_local", "gcs_down", "gcs")
  <2>1. env'.backend = "minio" /\ env'.endpoint /\ at' = "idle"
    BY <1>0, <1>5 DEF Uncomment, End, Environ
  <2> QED
    BY <2>1 DEF ServiceOf, ServiceByName, IsGcs
<1>6. CASE GcsSetEnv
  <2>1. env'.backend = "gcs" /\ at' = "idle"
    BY <1>0, <1>6 DEF GcsSetEnv, EndUp, End, Environ
  <2> QED
    BY <2>1 DEF ServiceOf, ServiceByName, IsGcs
<1>7. CASE Break
  <2>1. at' = "idle" /\ env' = env /\ (~halfEdit' => ~halfEdit /\ at \notin HalfWay)
    BY <1>7 DEF Break
  <2> QED
    BY <2>1 DEF ServiceOf, ServiceByName, IsGcs
<1>8. CASE \/ S3Bucket \/ S3User \/ S3Policy \/ S3ListKeys \/ S3CreateKey \/ S3KeyLost
           \/ S3Empty \/ S3DeleteBucket \/ S3DeleteKeys \/ S3DeletePolicy \/ S3DeleteUser
  BY <1>1, <1>8 DEF S3Bucket, S3User, S3Policy, S3ListKeys, S3CreateKey, S3KeyLost, S3Empty,
       S3DeleteBucket, S3DeleteKeys, S3DeletePolicy, S3DeleteUser, Goto, EndUp, End, history
<1>9. CASE \/ GcsBucket \/ GcsAccount \/ GcsRoles \/ GcsKey
           \/ GcsDeleteBucket \/ GcsDeleteAccount \/ GcsDeleteFile
  BY <1>1, <1>9 DEF GcsBucket, GcsAccount, GcsRoles, GcsKey, GcsDeleteBucket, GcsDeleteAccount,
       GcsDeleteFile, Goto, history
<1>10. CASE \/ Swallow("s3_empty", "s3_rm_bucket") \/ Swallow("s3_rm_bucket", "s3_rm_key")
            \/ Swallow("s3_rm_key", "s3_rm_policy") \/ Swallow("s3_rm_policy", "s3_rm_user")
            \/ Swallow("s3_rm_user", "s3_revert")
            \/ Swallow("gcs_rm_bucket", "gcs_rm_account")
            \/ Swallow("gcs_rm_account", "gcs_rm_file")
  BY <1>1, <1>10 DEF Swallow
<1>11. CASE Store \/ \E first \in Script : Begin(first)
  <2>1. UNCHANGED <<env, halfEdit>>
    BY <1>11 DEF Store, Begin, history
  <2>2. (at' = at \/ at' \notin HalfWay) /\ (at = "idle" \/ at' = at)
    BY <1>11 DEF Store, Begin, Script
  <2> QED
    BY <2>1, <2>2 DEF ServiceOf, ServiceByName, IsGcs
<1> QED
  BY <1>2, <1>3, <1>4, <1>5, <1>6, <1>7, <1>8, <1>9, <1>10, <1>11 DEF CloudNext, S3Step, GcsStep

\* Only a script changes what the invariants below are about.
QuietVars == <<env, cloud, at, got, history>>

LEMMA PipelinesAreQuiet ==
  ASSUME [Next]_vars
  PROVE  CloudNext \/ UNCHANGED QuietVars
  BY DEF Next, Render, Run, vars, cloudVars, QuietVars

\* However often the scripts run, fail and are interrupted, except in an edit.
THEOREM EnvNamesItsService == Spec => []NameMatchesService
<1>1. Init => NameInv
  BY DEF Init, CloudInit, Local, NameInv, HalfWay, ServiceOf, ServiceByName, IsGcs
<1>2. TypeOK /\ NameInv /\ [Next]_vars => NameInv'
  <2> SUFFICES ASSUME TypeOK, NameInv, [Next]_vars
               PROVE  NameInv'
    OBVIOUS
  <2>1. CASE CloudNext
    BY <2>1, StepName DEF TypeOK
  <2>2. CASE UNCHANGED QuietVars
    BY <2>2 DEF QuietVars, history, NameInv, ServiceOf, ServiceByName, IsGcs
  <2> QED
    BY <2>1, <2>2, PipelinesAreQuiet
<1>3. NameInv => NameMatchesService
  BY DEF NameInv, HalfWay, NameMatchesService
<1> QED
  BY <1>1, <1>2, <1>3, LocalTypeCorrect, PTL DEF Spec

(***************************************************************************)
(* The credentials in .env.                                                *)
(***************************************************************************)

\* Wherever .env may come to select AWS: once the endpoint is out of it.
AwsKeyInv ==
  /\ ~env.endpoint /\ at \notin S3Down /\ "aws" \notin torn => env.awsKey \in {NoKey, aws.key}
  /\ at = "s3_key" => aws.key = NoKey
  /\ at = "s3_env" => got \in {NoKey, aws.key}
  /\ at = "s3_endpoint" => env.awsKey \in {NoKey, aws.key}

GcsKeyInv ==
  /\ at \notin GcsDown /\ "gcs" \notin torn =>
       /\ file \in {0, gcp.account}
       /\ env.backend = "gcs" => file # 0
  /\ at \in {"gcs_roles", "gcs_key", "gcs_env"} => gcp.account # 0
  /\ at = "gcs_env" => file # 0
  /\ at \in {"gcs_revert", "gcs_local"} => file = 0

LEMMA StepAwsKey ==
  ASSUME CloudTypeOK, AwsKeyInv, CloudNext
  PROVE  AwsKeyInv'
<1> USE DEF AwsKeyInv, S3Down
<1>0. /\ env \in Environ
      /\ aws \in [bucket : BOOLEAN, user : BOOLEAN, policy : BOOLEAN, key : AwsKey \cup {NoKey}]
      /\ torn \in SUBSET {"aws", "gcs"}
  BY DEF CloudTypeOK
\* The key and what .env says of it stay; and no script for S3 moves on.
<1>1. ASSUME env'.awsKey = env.awsKey, env'.endpoint = env.endpoint \/ env'.endpoint,
             aws'.key = aws.key, "aws" \in torn' <=> "aws" \in torn, at \notin S3Down,
             at' \notin {"s3_key", "s3_env", "s3_endpoint"}
      PROVE  AwsKeyInv'
  BY <1>1
\* Inside `down` nothing is claimed.
<1>2. ASSUME at' \in S3Down
      PROVE  AwsKeyInv'
  BY <1>2
<1>3. CASE S3Bucket \/ S3User \/ S3Policy
  BY <1>0, <1>3 DEF S3Bucket, S3User, S3Policy, Goto, history
<1>4. CASE S3ListKeys
  BY <1>0, <1>4 DEF S3ListKeys, EndUp, End, Goto, cloud, history
<1>5. CASE S3CreateKey
  <2>1. PICK key \in AwsKey \ issued : aws' = [aws EXCEPT !.key = key] /\ got' = key
    BY <1>5 DEF S3CreateKey
  <2>2. aws'.key = key /\ aws.key = NoKey
    BY <1>0, <1>5, <2>1 DEF S3CreateKey
  <2> QED
    BY <1>5, <2>1, <2>2 DEF S3CreateKey, Goto, history
<1>6. CASE S3KeyLost
  BY <1>0, <1>6 DEF S3KeyLost
<1>7. CASE S3SetEnv
  <2>1. env'.awsKey = got /\ env'.endpoint = env.endpoint
    BY <1>0, <1>7 DEF S3SetEnv, Environ
  <2> QED
    BY <1>7, <2>1 DEF S3SetEnv, Goto, cloud, history
<1>8. CASE S3CommentEndpoint
  <2>1. env'.awsKey = env.awsKey /\ at' = "idle" /\ UNCHANGED aws
    BY <1>0, <1>8 DEF S3CommentEndpoint, EndUp, End, cloud, Environ
  <2> QED
    BY <1>8, <2>1 DEF S3CommentEndpoint
<1>9. CASE \/ S3Empty \/ S3DeleteBucket \/ S3DeleteKeys \/ S3DeletePolicy \/ S3DeleteUser
           \/ Revert("s3_revert", "s3_local")
           \/ Swallow("s3_empty", "s3_rm_bucket") \/ Swallow("s3_rm_bucket", "s3_rm_key")
           \/ Swallow("s3_rm_key", "s3_rm_policy") \/ Swallow("s3_rm_policy", "s3_rm_user")
           \/ Swallow("s3_rm_user", "s3_revert")
  BY <1>2, <1>9 DEF S3Empty, S3DeleteBucket, S3DeleteKeys, S3DeletePolicy, S3DeleteUser, Revert,
       Swallow, Goto
<1>10. CASE Uncomment("s3_local", "s3_down", "aws")
  <2>1. env'.endpoint /\ at' = "idle"
    BY <1>0, <1>10 DEF Uncomment, End, Environ
  <2> QED
    BY <2>1
<1>11. CASE Break
  <2>1. /\ UNCHANGED <<env, aws>> /\ at' = "idle"
        /\ "aws" \notin torn' => "aws" \notin torn /\ at \notin S3Down
    BY <1>11 DEF Break, cloud
  <2> QED
    BY <2>1
<1>12. CASE GcsStep
  <2>1. /\ env'.awsKey = env.awsKey /\ (env'.endpoint = env.endpoint \/ env'.endpoint)
        /\ UNCHANGED aws
        /\ "aws" \in torn' <=> "aws" \in torn
    BY <1>0, <1>12 DEF GcsStep, GcsBucket, GcsAccount, GcsRoles, GcsKey, GcsSetEnv, GcsDeleteBucket,
       GcsDeleteAccount, GcsDeleteFile, Revert, Uncomment, Swallow, Goto, EndUp, End, cloud, history,
       Environ
  <2>2. at \notin S3Down /\ at' \notin {"s3_key", "s3_env", "s3_endpoint"}
    BY <1>12 DEF GcsStep, GcsBucket, GcsAccount, GcsRoles, GcsKey, GcsSetEnv, GcsDeleteBucket,
       GcsDeleteAccount, GcsDeleteFile, Revert, Uncomment, Swallow, Goto, EndUp, End
  <2> QED
    BY <1>1, <2>1, <2>2
<1>13. CASE Store
  BY <1>13 DEF Store, history
<1>14. ASSUME NEW first \in Script, Begin(first)
       PROVE  AwsKeyInv'
  BY <1>14 DEF Begin, Script, cloud, history
<1> QED
  BY <1>3, <1>4, <1>5, <1>6, <1>7, <1>8, <1>9, <1>10, <1>11, <1>12, <1>13, <1>14
     DEF CloudNext, S3Step

LEMMA StepGcsKey ==
  ASSUME CloudTypeOK, NameInv, GcsKeyInv, CloudNext
  PROVE  GcsKeyInv'
<1> USE DEF GcsKeyInv, GcsDown
<1>0. /\ env \in Environ
      /\ gcp \in [bucket : BOOLEAN, account : 0 .. accounts, roles : BOOLEAN]
      /\ accounts \in Nat
      /\ torn \in SUBSET {"aws", "gcs"}
  BY DEF CloudTypeOK
\* The file and the account stay; and no script for GCS moves on.
<1>1. ASSUME env'.backend # "gcs" \/ env'.backend = env.backend, UNCHANGED <<file, gcp>>,
             "gcs" \in torn' <=> "gcs" \in torn, at \notin GcsDown,
             at' \notin {"gcs_roles", "gcs_key", "gcs_env"} \cup GcsDown
      PROVE  GcsKeyInv'
  BY <1>1
<1>2. CASE GcsBucket \/ GcsRoles
  BY <1>0, <1>2 DEF GcsBucket, GcsRoles, Goto, history
<1>3. CASE GcsAccount
  <2>1. CASE gcp.account # 0
    BY <1>3, <2>1 DEF GcsAccount, Goto, history
  <2>2. CASE gcp.account = 0
    <3>1. gcp'.account = accounts + 1 /\ gcp'.account # 0
      BY <1>0, <1>3, <2>2 DEF GcsAccount
    <3> QED
      BY <1>3, <2>2, <3>1 DEF GcsAccount, Goto, history
  <2> QED
    BY <2>1, <2>2
<1>4. CASE GcsKey
  BY <1>4 DEF GcsKey, Goto, history
<1>5. CASE GcsSetEnv
  BY <1>5 DEF GcsSetEnv, EndUp, End, cloud
<1>6. CASE \/ GcsDeleteBucket \/ GcsDeleteAccount \/ GcsDeleteFile
           \/ Revert("gcs_revert", "gcs_local")
           \/ Swallow("gcs_rm_bucket", "gcs_rm_account")
           \/ Swallow("gcs_rm_account", "gcs_rm_file")
  BY <1>6 DEF GcsDeleteBucket, GcsDeleteAccount, GcsDeleteFile, Revert, Swallow, Goto, cloud
<1>7. CASE Uncomment("gcs_local", "gcs_down", "gcs")
  <2>1. env'.backend = "minio" /\ at' = "idle" /\ file' = 0
    BY <1>0, <1>7 DEF Uncomment, End, cloud, Environ, NameInv
  <2> QED
    BY <2>1
<1>8. CASE Break
  <2>1. /\ UNCHANGED <<env, gcp, file>> /\ at' = "idle"
        /\ "gcs" \notin torn' => "gcs" \notin torn /\ at \notin GcsDown
    BY <1>8 DEF Break, cloud
  <2> QED
    BY <2>1
<1>9. CASE S3Step
  <2>1. /\ env'.backend # "gcs" \/ env'.backend = env.backend
        /\ UNCHANGED <<file, gcp>>
        /\ "gcs" \in torn' <=> "gcs" \in torn
    BY <1>0, <1>9 DEF S3Step, S3Bucket, S3User, S3Policy, S3ListKeys, S3CreateKey, S3KeyLost,
       S3SetEnv, S3CommentEndpoint, S3Empty, S3DeleteBucket, S3DeleteKeys, S3DeletePolicy,
       S3DeleteUser, Revert, Uncomment, Swallow, Goto, EndUp, End, cloud, history, Environ
  <2>2. at \notin GcsDown /\ at' \notin {"gcs_roles", "gcs_key", "gcs_env"} \cup GcsDown
    BY <1>9 DEF S3Step, S3Bucket, S3User, S3Policy, S3ListKeys, S3CreateKey, S3KeyLost,
       S3SetEnv, S3CommentEndpoint, S3Empty, S3DeleteBucket, S3DeleteKeys, S3DeletePolicy,
       S3DeleteUser, Revert, Uncomment, Swallow, Goto, EndUp, End
  <2> QED
    BY <1>1, <2>1, <2>2
<1>10. CASE Store
  BY <1>10 DEF Store, history
<1>11. ASSUME NEW first \in Script, Begin(first)
       PROVE  GcsKeyInv'
  BY <1>11 DEF Begin, Script, cloud, history
<1> QED
  BY <1>2, <1>3, <1>4, <1>5, <1>6, <1>7, <1>8, <1>9, <1>10, <1>11 DEF CloudNext, GcsStep

ScriptInv == NameInv /\ AwsKeyInv /\ GcsKeyInv

LEMMA ScriptInvariant == Spec => [](TypeOK /\ ScriptInv)
<1>1. Init => ScriptInv
  BY DEF Init, CloudInit, Local, NoAws, NoGcp, ScriptInv, NameInv, AwsKeyInv, GcsKeyInv, HalfWay,
         ServiceOf, ServiceByName, IsGcs
<1>2. TypeOK /\ ScriptInv /\ [Next]_vars => ScriptInv'
  <2> SUFFICES ASSUME TypeOK, ScriptInv, [Next]_vars
               PROVE  ScriptInv'
    OBVIOUS
  <2>1. CASE CloudNext
    BY <2>1, StepName, StepAwsKey, StepGcsKey DEF TypeOK, ScriptInv
  <2>2. CASE UNCHANGED QuietVars
    BY <2>2 DEF QuietVars, cloud, history, ScriptInv, NameInv, AwsKeyInv, GcsKeyInv, ServiceOf,
                ServiceByName, IsGcs
  <2> QED
    BY <2>1, <2>2, PipelinesAreQuiet
<1> QED
  BY <1>1, <1>2, LocalTypeCorrect, PTL DEF Spec

\* However often the scripts run, fail and are interrupted.
THEOREM EnvNamesALiveKey == Spec => []CloudKeyIsLive
<1>1. TypeOK /\ ScriptInv => CloudKeyIsLive
  <2> SUFFICES ASSUME TypeOK, ScriptInv, at = "idle"
               PROVE  /\ ServiceOf(env) = "aws" => env.awsKey \in {NoKey, aws.key} \/ "aws" \in torn
                      /\ ServiceOf(env) = "gcs" => \/ file # 0 /\ file = gcp.account
                                                   \/ "gcs" \in torn
    BY DEF CloudKeyIsLive
  <2>1. ServiceOf(env) = "aws" => ~env.endpoint
    BY DEF ServiceOf
  <2>2. ServiceOf(env) = "gcs" => env.backend = "gcs"
    BY DEF ServiceOf, IsGcs
  <2> QED
    BY <2>1, <2>2 DEF ScriptInv, AwsKeyInv, GcsKeyInv, S3Down, GcsDown
<1> QED
  BY <1>1, ScriptInvariant, PTL

(***************************************************************************)
(* A fresh start.                                                          *)
(***************************************************************************)

\* What `up` of S3 has made so far when it started from nothing, and what `down`
\* has left so far when nothing has failed.
S3UpInv ==
  /\ at \in S3Up \ {"s3_env", "s3_endpoint"} => aws.key = NoKey
  /\ at \in S3Up \ {"s3_bucket"} => aws.bucket
  /\ at \in {"s3_list", "s3_key", "s3_env", "s3_endpoint"} => aws.policy
  /\ at = "s3_env" => got = aws.key /\ got # NoKey
  /\ at = "s3_endpoint" => env.backend = "s3" /\ env.awsKey = aws.key /\ env.awsKey # NoKey

S3DownInv ==
  /\ at \in S3Down \ {"s3_empty", "s3_rm_bucket"} => ~aws.bucket
  /\ at \in {"s3_rm_policy", "s3_rm_user", "s3_revert", "s3_local"} => aws.key = NoKey
  /\ at \in {"s3_rm_user", "s3_revert", "s3_local"} => ~aws.policy
  /\ at \in {"s3_revert", "s3_local"} => ~aws.user

S3FreshInv ==
  /\ streak = "s3_down" /\ at \notin S3Up => aws = NoAws
  /\ streak = "s3_down" /\ fine => S3UpInv
  /\ fine => S3DownInv
  /\ streak = "s3_fresh" /\ at = "idle" => ServiceOf(env) = "aws" /\ Usable

LEMMA StepS3Fresh ==
  ASSUME CloudTypeOK, S3FreshInv, CloudNext
  PROVE  S3FreshInv'
<1> USE DEF S3FreshInv, S3UpInv, S3DownInv, S3Up, S3Down, NoAws
<1>0. /\ env \in Environ
      /\ aws \in [bucket : BOOLEAN, user : BOOLEAN, policy : BOOLEAN, key : AwsKey \cup {NoKey}]
      /\ fine \in BOOLEAN
  BY DEF CloudTypeOK
<1>00. aws' \in [bucket : BOOLEAN, user : BOOLEAN, policy : BOOLEAN, key : AwsKey \cup {NoKey}]
  BY CloudType DEF CloudTypeOK
<1>1. CASE S3Bucket
  BY <1>0, <1>1 DEF S3Bucket, Goto, history
<1>2. CASE S3User
  BY <1>0, <1>2 DEF S3User, Goto, history
<1>3. CASE S3Policy
  BY <1>0, <1>3 DEF S3Policy, Goto, history
<1>4. CASE S3ListKeys
  BY <1>0, <1>4 DEF S3ListKeys, EndUp, End, Goto, cloud, history
<1>5. CASE S3CreateKey
  <2>1. PICK key \in AwsKey \ issued : aws' = [aws EXCEPT !.key = key] /\ got' = key
    BY <1>5 DEF S3CreateKey
  <2>2. key # NoKey
    BY <2>1
  <2> QED
    BY <1>0, <1>5, <2>1, <2>2 DEF S3CreateKey, Goto, history
<1>6. CASE S3KeyLost
  BY <1>6 DEF S3KeyLost
<1>7. CASE S3SetEnv
  BY <1>0, <1>7 DEF S3SetEnv, Goto, cloud, history, Environ
\* The end of `up`.
<1>8. CASE S3CommentEndpoint
  <2>1. /\ at' = "idle" /\ streak' \in {"none", "s3_fresh"} /\ fine' = TRUE
        /\ env' = [env EXCEPT !.endpoint = FALSE] /\ UNCHANGED aws
    BY <1>8 DEF S3CommentEndpoint, EndUp, End, cloud
  <2>2. ASSUME streak' = "s3_fresh"
        PROVE  ServiceOf(env') = "aws" /\ Usable'
    <3>1. fine /\ streak = "s3_down"
      BY <1>8, <2>2 DEF S3CommentEndpoint, EndUp, End
    <3>2. /\ env.backend = "s3" /\ env.awsKey = aws.key /\ env.awsKey # NoKey
          /\ aws.bucket /\ aws.policy
      BY <1>8, <3>1 DEF S3CommentEndpoint
    <3>3. env'.backend = "s3" /\ ~env'.endpoint /\ env'.awsKey = env.awsKey
      BY <1>0, <2>1, <3>2 DEF Environ
    <3>4. ServiceOf(env') = "aws" /\ KeyOf(env') = env.awsKey
      BY <3>3 DEF ServiceOf, KeyOf, IsGcs
    <3> QED
      BY <2>1, <3>2, <3>4 DEF Usable, LetIn, HasBucket
  <2> QED
    BY <2>1, <2>2
<1>9. CASE S3Empty
  BY <1>0, <1>9 DEF S3Empty, Goto, history
\* What is not there cannot be deleted once more.
<1>20. CASE S3DeleteBucket
  <2>1. ASSUME streak = "s3_down"
        PROVE  aws' = NoAws
    <3>1. ~aws.bucket /\ ~aws.user /\ ~aws.policy /\ aws.key = NoKey
      BY <1>20, <2>1 DEF S3DeleteBucket
    <3>2. ~aws'.bucket /\ ~aws'.user /\ ~aws'.policy /\ aws'.key = NoKey
      BY <1>0, <1>20, <3>1 DEF S3DeleteBucket
    <3> QED
      BY <1>00, <3>2
  <2>2. fine' => ~aws'.bucket
    BY <1>0, <1>20 DEF S3DeleteBucket
  <2>3. streak' = streak /\ at' = "s3_rm_key"
    BY <1>20 DEF S3DeleteBucket
  <2> QED
    BY <2>1, <2>2, <2>3
<1>10. CASE S3DeleteKeys
  <2>1. ASSUME streak = "s3_down"
        PROVE  aws' = NoAws
    <3>1. ~aws.bucket /\ ~aws.user /\ ~aws.policy /\ aws.key = NoKey
      BY <1>10, <2>1 DEF S3DeleteKeys
    <3>2. ~aws'.bucket /\ ~aws'.user /\ ~aws'.policy /\ aws'.key = NoKey
      BY <1>0, <1>10, <3>1 DEF S3DeleteKeys
    <3> QED
      BY <1>00, <3>2
  <2>2. fine => ~aws'.bucket /\ aws'.key = NoKey
    BY <1>0, <1>10 DEF S3DeleteKeys
  <2> QED
    BY <1>10, <2>1, <2>2 DEF S3DeleteKeys, Goto, history
<1>11. CASE S3DeletePolicy
  <2>1. ASSUME streak = "s3_down"
        PROVE  aws' = NoAws
    <3>1. ~aws.bucket /\ ~aws.user /\ ~aws.policy /\ aws.key = NoKey
      BY <1>11, <2>1 DEF S3DeletePolicy
    <3>2. ~aws'.bucket /\ ~aws'.user /\ ~aws'.policy /\ aws'.key = NoKey
      BY <1>0, <1>11, <3>1 DEF S3DeletePolicy
    <3> QED
      BY <1>00, <3>2
  <2>2. fine => ~aws'.bucket /\ aws'.key = NoKey /\ ~aws'.policy
    BY <1>0, <1>11 DEF S3DeletePolicy
  <2> QED
    BY <1>11, <2>1, <2>2 DEF S3DeletePolicy, Goto, history
<1>12. CASE S3DeleteUser
  <2>1. ASSUME streak = "s3_down"
        PROVE  aws' = NoAws
    <3>1. ~aws.bucket /\ ~aws.user /\ ~aws.policy /\ aws.key = NoKey
      BY <1>12, <2>1 DEF S3DeleteUser
    <3>2. ~aws'.bucket /\ ~aws'.user /\ ~aws'.policy /\ aws'.key = NoKey
      BY <1>0, <1>12, <3>1 DEF S3DeleteUser
    <3> QED
      BY <1>00, <3>2
  <2>2. fine => ~aws'.bucket /\ aws'.key = NoKey /\ ~aws'.policy /\ ~aws'.user
    <3>1. fine => ~aws.bucket /\ aws.key = NoKey /\ ~aws.policy
      BY <1>12 DEF S3DeleteUser
    <3>2. aws' = [aws EXCEPT !.user = aws.user /\ (aws.key # NoKey \/ aws.policy)]
      BY <1>12 DEF S3DeleteUser
    <3> QED
      BY <1>0, <3>1, <3>2
  <2> QED
    BY <1>12, <2>1, <2>2 DEF S3DeleteUser, Goto, history
<1>13. CASE Revert("s3_revert", "s3_local")
  BY <1>13 DEF Revert, Goto, cloud, history
\* The end of `down`.
<1>14. CASE Uncomment("s3_local", "s3_down", "aws")
  <2>1. at' = "idle" /\ streak' = (IF fine THEN "s3_down" ELSE "none") /\ UNCHANGED aws
    BY <1>14 DEF Uncomment, End, cloud
  <2>2. ASSUME fine
        PROVE  aws = NoAws
    <3>1. ~aws.bucket /\ ~aws.user /\ ~aws.policy /\ aws.key = NoKey
      BY <1>14, <2>2 DEF Uncomment
    <3> QED
      BY <1>0, <3>1
  <2> QED
    BY <2>1, <2>2
<1>15. CASE \/ Swallow("s3_empty", "s3_rm_bucket") \/ Swallow("s3_rm_bucket", "s3_rm_key")
            \/ Swallow("s3_rm_key", "s3_rm_policy") \/ Swallow("s3_rm_policy", "s3_rm_user")
            \/ Swallow("s3_rm_user", "s3_revert")
  BY <1>15 DEF Swallow, cloud
<1>16. CASE Break
  BY <1>16 DEF Break
<1>17. CASE GcsStep
  <2>1. UNCHANGED aws
    BY <1>17 DEF GcsStep, GcsBucket, GcsAccount, GcsRoles, GcsKey, GcsSetEnv, GcsDeleteBucket,
       GcsDeleteAccount, GcsDeleteFile, Revert, Uncomment, Swallow, cloud
  <2>3. streak' \in {"none", "gcs_down", "gcs_fresh"} \/ (streak' = streak /\ at' # "idle")
    <3>1. CASE GcsSetEnv \/ Uncomment("gcs_local", "gcs_down", "gcs")
      BY <3>1 DEF GcsSetEnv, Uncomment, EndUp, End
    <3>2. CASE ~(GcsSetEnv \/ Uncomment("gcs_local", "gcs_down", "gcs"))
      BY <1>17, <3>2 DEF GcsStep, GcsBucket, GcsAccount, GcsRoles, GcsKey, GcsDeleteBucket,
         GcsDeleteAccount, GcsDeleteFile, Revert, Swallow, Goto, history
    <3> QED
      BY <3>1, <3>2
  <2>2. at \notin S3Up \cup S3Down /\ at' \notin S3Up \cup S3Down
    BY <1>17 DEF GcsStep, GcsBucket, GcsAccount, GcsRoles, GcsKey, GcsSetEnv, GcsDeleteBucket,
       GcsDeleteAccount, GcsDeleteFile, Revert, Uncomment, Swallow, Goto, EndUp, End
  <2> QED
    BY <2>1, <2>2, <2>3
<1>18. CASE Store
  BY <1>18 DEF Store, history, Usable, LetIn, HasBucket
<1>19. ASSUME NEW first \in Script, Begin(first)
       PROVE  S3FreshInv'
  BY <1>19 DEF Begin, Script, cloud, history
<1> QED
  BY <1>1, <1>2, <1>3, <1>4, <1>5, <1>6, <1>7, <1>8, <1>9, <1>10, <1>11, <1>12, <1>13, <1>14,
     <1>15, <1>16, <1>17, <1>18, <1>19, <1>20 DEF CloudNext, S3Step

\* The same for GCS.
GcsUpInv ==
  /\ at \in GcsUp \ {"gcs_env"} => file = 0
  /\ at \in GcsUp \ {"gcs_bucket"} => gcp.bucket
  /\ at \in {"gcs_key", "gcs_env"} => gcp.roles
  /\ at = "gcs_env" => file = gcp.account

GcsDownInv ==
  /\ at \in GcsDown \ {"gcs_rm_bucket"} => ~gcp.bucket
  /\ at \in {"gcs_rm_file", "gcs_revert", "gcs_local"} => gcp.account = 0 /\ ~gcp.roles

GcsFreshInv ==
  /\ streak = "gcs_down" /\ at \notin GcsUp => gcp = NoGcp /\ file = 0
  /\ streak = "gcs_down" => GcsUpInv
  /\ fine => GcsDownInv
  /\ streak = "gcs_fresh" /\ at = "idle" => ServiceOf(env) = "gcs" /\ Usable

LEMMA StepGcsFresh ==
  ASSUME CloudTypeOK, GcsKeyInv, GcsFreshInv, CloudNext
  PROVE  GcsFreshInv'
<1> USE DEF GcsFreshInv, GcsUpInv, GcsDownInv, GcsUp, GcsDown, NoGcp
<1>0. /\ env \in Environ
      /\ gcp \in [bucket : BOOLEAN, account : 0 .. accounts, roles : BOOLEAN]
      /\ fine \in BOOLEAN
  BY DEF CloudTypeOK
<1>00. gcp' \in [bucket : BOOLEAN, account : 0 .. accounts', roles : BOOLEAN]
  BY CloudType DEF CloudTypeOK
<1>1. CASE GcsBucket
  BY <1>0, <1>1 DEF GcsBucket, Goto, history
<1>2. CASE GcsAccount
  <2>1. gcp'.bucket = gcp.bucket /\ file' = file
    BY <1>0, <1>2 DEF GcsAccount
  <2> QED
    BY <1>2, <2>1 DEF GcsAccount, Goto, history
<1>3. CASE GcsRoles
  BY <1>0, <1>3 DEF GcsRoles, Goto, history
<1>4. CASE GcsKey
  BY <1>4 DEF GcsKey, Goto, history
\* The end of `up`.
<1>5. CASE GcsSetEnv
  <2>1. /\ at' = "idle" /\ streak' \in {"none", "gcs_fresh"}
        /\ env' = [env EXCEPT !.backend = "gcs", !.gcpKey = KeyFile] /\ UNCHANGED <<gcp, file>>
    BY <1>5 DEF GcsSetEnv, EndUp, End, cloud
  <2>2. ASSUME streak' = "gcs_fresh"
        PROVE  ServiceOf(env') = "gcs" /\ Usable'
    <3>1. streak = "gcs_down"
      BY <1>5, <2>2 DEF GcsSetEnv, EndUp, End
    <3>2. gcp.bucket /\ gcp.roles /\ file = gcp.account /\ file # 0
      BY <1>5, <3>1 DEF GcsSetEnv, GcsKeyInv
    <3>3. env'.backend = "gcs" /\ env'.gcpKey = KeyFile
      BY <1>0, <2>1 DEF Environ
    <3>4. ServiceOf(env') = "gcs" /\ KeyOf(env') = KeyFile
      BY <3>3 DEF ServiceOf, KeyOf, IsGcs
    <3> QED
      BY <2>1, <3>2, <3>4 DEF Usable, LetIn, HasBucket
  <2> QED
    BY <2>1, <2>2
<1>6. CASE GcsDeleteBucket
  <2>1. ASSUME streak = "gcs_down"
        PROVE  gcp' = NoGcp
    <3>1. ~gcp.bucket /\ gcp.account = 0 /\ ~gcp.roles
      BY <1>6, <2>1 DEF GcsDeleteBucket
    <3>2. ~gcp'.bucket /\ gcp'.account = 0 /\ ~gcp'.roles
      BY <1>0, <1>6, <3>1 DEF GcsDeleteBucket
    <3> QED
      BY <1>00, <3>2
  <2>2. ~gcp'.bucket
    BY <1>0, <1>6 DEF GcsDeleteBucket
  <2> QED
    BY <1>6, <2>1, <2>2 DEF GcsDeleteBucket, Goto, history
<1>7. CASE GcsDeleteAccount
  <2>1. gcp'.bucket = gcp.bucket /\ gcp'.account = 0 /\ ~gcp'.roles
    BY <1>0, <1>7 DEF GcsDeleteAccount
  <2>2. ASSUME streak = "gcs_down"
        PROVE  gcp' = NoGcp
    <3>1. gcp = NoGcp /\ gcp' = [gcp EXCEPT !.account = 0, !.roles = FALSE]
      BY <1>7, <2>2 DEF GcsDeleteAccount
    <3>2. gcp.bucket = FALSE /\ DOMAIN gcp = {"bucket", "account", "roles"}
      BY <3>1
    <3> QED
      BY <1>0, <3>1, <3>2
  <2> QED
    BY <1>7, <2>1, <2>2 DEF GcsDeleteAccount, Goto, history
<1>8. CASE GcsDeleteFile
  BY <1>8 DEF GcsDeleteFile, Goto, history
<1>9. CASE Revert("gcs_revert", "gcs_local")
  BY <1>9 DEF Revert, Goto, cloud, history
\* The end of `down`.
<1>10. CASE Uncomment("gcs_local", "gcs_down", "gcs")
  <2>1. at' = "idle" /\ streak' = (IF fine THEN "gcs_down" ELSE "none") /\ UNCHANGED <<gcp, file>>
    BY <1>10 DEF Uncomment, End, cloud
  <2>2. ASSUME fine
        PROVE  gcp = NoGcp /\ file = 0
    <3>1. ~gcp.bucket /\ gcp.account = 0 /\ ~gcp.roles /\ file = 0
      BY <1>10, <2>2 DEF Uncomment, GcsKeyInv
    <3> QED
      BY <1>0, <3>1
  <2> QED
    BY <2>1, <2>2
<1>11. CASE Swallow("gcs_rm_bucket", "gcs_rm_account") \/ Swallow("gcs_rm_account", "gcs_rm_file")
  BY <1>11 DEF Swallow, cloud
<1>12. CASE Break
  BY <1>12 DEF Break, cloud
<1>13. CASE S3Step
  <2>1. UNCHANGED <<gcp, file>>
    BY <1>13 DEF S3Step, S3Bucket, S3User, S3Policy, S3ListKeys, S3CreateKey, S3KeyLost,
       S3SetEnv, S3CommentEndpoint, S3Empty, S3DeleteBucket, S3DeleteKeys, S3DeletePolicy,
       S3DeleteUser, Revert, Uncomment, Swallow, cloud
  <2>3. streak' \in {"none", "s3_down", "s3_fresh"} \/ (streak' = streak /\ at' # "idle")
    <3>1. CASE S3ListKeys \/ S3CommentEndpoint \/ Uncomment("s3_local", "s3_down", "aws")
      BY <3>1 DEF S3ListKeys, S3CommentEndpoint, Uncomment, EndUp, End, Goto, history
    <3>2. CASE ~(S3ListKeys \/ S3CommentEndpoint \/ Uncomment("s3_local", "s3_down", "aws"))
      BY <1>13, <3>2 DEF S3Step, S3Bucket, S3User, S3Policy, S3CreateKey, S3KeyLost, S3SetEnv,
         S3Empty, S3DeleteBucket, S3DeleteKeys, S3DeletePolicy, S3DeleteUser, Revert, Swallow,
         Goto, history
    <3> QED
      BY <3>1, <3>2
  <2>2. at \notin GcsUp \cup GcsDown /\ at' \notin GcsUp \cup GcsDown
    BY <1>13 DEF S3Step, S3Bucket, S3User, S3Policy, S3ListKeys, S3CreateKey, S3KeyLost,
       S3SetEnv, S3CommentEndpoint, S3Empty, S3DeleteBucket, S3DeleteKeys, S3DeletePolicy,
       S3DeleteUser, Revert, Uncomment, Swallow, Goto, EndUp, End
  <2> QED
    BY <2>1, <2>2, <2>3
<1>14. CASE Store
  BY <1>14 DEF Store, history, Usable, LetIn, HasBucket
<1>15. ASSUME NEW first \in Script, Begin(first)
       PROVE  GcsFreshInv'
  BY <1>15 DEF Begin, Script, cloud, history
<1> QED
  BY <1>1, <1>2, <1>3, <1>4, <1>5, <1>6, <1>7, <1>8, <1>9, <1>10, <1>11, <1>12, <1>13, <1>14,
     <1>15 DEF CloudNext, GcsStep

FreshInv == S3FreshInv /\ GcsFreshInv

\* Whatever states the scripts broke off in before.
THEOREM DownThenUpStartsFresh == Spec => []FreshStart
<1>1. Init => FreshInv
  BY DEF Init, CloudInit, FreshInv, S3FreshInv, GcsFreshInv, S3DownInv, GcsDownInv, S3Down, GcsDown
<1>2. TypeOK /\ ScriptInv /\ FreshInv /\ [Next]_vars => FreshInv'
  <2> SUFFICES ASSUME TypeOK, ScriptInv, FreshInv, [Next]_vars
               PROVE  FreshInv'
    OBVIOUS
  <2>1. CASE CloudNext
    BY <2>1, StepS3Fresh, StepGcsFresh DEF TypeOK, ScriptInv, FreshInv
  <2>2. CASE UNCHANGED QuietVars
    <3>1. UNCHANGED <<env, aws, gcp, file, at, got, fine, streak>>
      BY <2>2 DEF QuietVars, cloud, history
    <3>2. UNCHANGED <<ServiceOf(env), KeyOf(env), Usable>>
      BY <3>1 DEF Usable, LetIn, HasBucket
    <3>3. S3FreshInv'
      BY <3>1, <3>2 DEF FreshInv, S3FreshInv, S3UpInv, S3DownInv
    <3>4. GcsFreshInv'
      BY <3>1, <3>2 DEF FreshInv, GcsFreshInv, GcsUpInv, GcsDownInv
    <3> QED
      BY <3>3, <3>4 DEF FreshInv
  <2> QED
    BY <2>1, <2>2, PipelinesAreQuiet
<1>3. FreshInv => FreshStart
  BY DEF FreshInv, S3FreshInv, GcsFreshInv, FreshStart, S3Up, GcsUp
<1> QED
  BY <1>1, <1>2, <1>3, ScriptInvariant, PTL DEF Spec
================================================================================
