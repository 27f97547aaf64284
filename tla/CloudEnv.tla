-------------------------------- MODULE CloudEnv --------------------------------
(***************************************************************************)
(* .env and the scripts that edit it: cloud_s3.sh and cloud_gcs.sh, up and *)
(* down.  One operator runs them one after the other; each is a sequence   *)
(* of calls to a cloud service, and of edits of .env at its end.  A call   *)
(* that fails ends the script (`set -e`) unless the code says `|| true`;   *)
(* what was done by then stays done, and the next script starts from it.   *)
(*                                                                         *)
(* The services are code outside the repository, modelled by what the      *)
(* scripts create and delete there.                                        *)
(***************************************************************************)
EXTENDS StorageConfig, Naturals

CONSTANTS
  Root,          \* MinIO's root user, the credential of .env.example
  AwsKey,        \* the access keys that AWS may issue
  KeyFile,       \* ./gcp-credentials.json
  MaxAccounts,   \* bound: service accounts that are ever created
  MaxFaults      \* bound: calls that fail and scripts that are interrupted

ASSUME CloudAssumption ==
  /\ Key = {Root, KeyFile} \cup AwsKey
  /\ Root \notin AwsKey /\ KeyFile \notin AwsKey /\ Root # KeyFile
  /\ MaxAccounts \in Nat
  /\ MaxFaults \in Nat

VARIABLES
  env,        \* .env
  aws,        \* bucket, IAM user, policy and access key of the user
  issued,     \* access keys that AWS has issued
  gcp,        \* bucket, service account (its number, 0 if none) and its roles
  accounts,   \* service accounts created so far
  file,       \* the account whose key is in KeyFile, 0 if there is no file
  stored,     \* the services whose bucket holds objects
  at,         \* the next command of the running script, or "idle"
  got,        \* $access_key_id
  faults,     \* faults so far
  fine,       \* history: no call of the running script, if any, has failed
  streak,     \* history: the scripts that just ended without a failed call
  halfEdit,   \* history: an edit of .env was interrupted half way
  torn        \* history: the services whose `down` was interrupted

cloud == <<aws, issued, gcp, accounts, file, stored>>
history == <<fine, streak, halfEdit, torn>>
cloudVars == <<env, cloud, at, got, faults, history>>

S3Up == {"s3_bucket", "s3_user", "s3_policy", "s3_list", "s3_key", "s3_env", "s3_endpoint"}
S3Down == {"s3_empty", "s3_rm_bucket", "s3_rm_key", "s3_rm_policy", "s3_rm_user",
           "s3_revert", "s3_local"}
GcsUp == {"gcs_bucket", "gcs_account", "gcs_roles", "gcs_key", "gcs_env"}
GcsDown == {"gcs_rm_bucket", "gcs_rm_account", "gcs_rm_file", "gcs_revert", "gcs_local"}

\* The first command of each script.
Script == {"s3_bucket", "s3_empty", "gcs_bucket", "gcs_rm_bucket"}

NoAws == [bucket |-> FALSE, user |-> FALSE, policy |-> FALSE, key |-> NoKey]
NoGcp == [bucket |-> FALSE, account |-> 0, roles |-> FALSE]

\* .env.example: MinIO, its endpoint and its root user.
Local == [backend |-> "minio", endpoint |-> TRUE, awsKey |-> Root, gcpKey |-> NoKey]

\* What a process with the credential `key` is let in to.
LetIn(s, key) ==
  CASE s = "minio" -> key = Root
    [] s = "aws" -> key # NoKey /\ key = aws.key /\ aws.policy
    [] s = "gcs" -> key = KeyFile /\ file # 0 /\ file = gcp.account /\ gcp.roles

\* Only MinIO's bucket is made by the handlers.
HasBucket(s) ==
  CASE s = "minio" -> TRUE [] s = "aws" -> aws.bucket [] s = "gcs" -> gcp.bucket

Usable == LetIn(ServiceOf(env), KeyOf(env)) /\ HasBucket(ServiceOf(env))

CloudInit ==
  /\ env = Local
  /\ aws = NoAws
  /\ issued = {}
  /\ gcp = NoGcp
  /\ accounts = 0
  /\ file = 0
  /\ stored = {}
  /\ at = "idle"
  /\ got = NoKey
  /\ faults = 0
  /\ fine = TRUE
  /\ streak = "none"
  /\ halfEdit = FALSE
  /\ torn = {}

-----------------------------------------------------------------------------
(* Scripts.                                                                *)

Fault ==
  /\ faults < MaxFaults
  /\ faults' = faults + 1

Begin(first) ==
  /\ at = "idle"
  /\ at' = first
  /\ UNCHANGED <<env, cloud, got, faults, history>>

\* A command is done, and the next one's turn comes.
Goto(label) ==
  /\ at' = label
  /\ UNCHANGED <<faults, history>>

\* The script ends: its variables are gone, and `added` goes to the streak.
End(added) ==
  /\ at' = "idle"
  /\ got' = NoKey
  /\ fine' = TRUE
  /\ streak' = IF fine THEN added ELSE "none"
  /\ UNCHANGED faults

\* `up` ends; it counts as fresh right after a `down` of its service.
EndUp(down, fresh) == End(IF streak = down THEN fresh ELSE "none")

\* Ctrl+C, or a call fails where the script ends with it.
Break ==
  /\ at # "idle"
  /\ Fault
  /\ at' = "idle"
  /\ streak' = "none"
  /\ fine' = TRUE
  /\ got' = NoKey
  /\ halfEdit' = (halfEdit \/ at \in {"s3_endpoint", "s3_local", "gcs_local"})
  /\ torn' = torn \cup (IF at \in S3Down THEN {"aws"} ELSE {})
                  \cup (IF at \in GcsDown THEN {"gcs"} ELSE {})
  /\ UNCHANGED <<env, cloud>>

\* `|| true`: the command fails and the script goes on.
Swallow(label, next) ==
  /\ at = label
  /\ Fault
  /\ at' = next
  /\ fine' = FALSE
  /\ UNCHANGED <<env, cloud, got, streak, halfEdit, torn>>

-----------------------------------------------------------------------------
(* cloud_s3.sh up.                                                         *)

S3Bucket ==
  /\ at = "s3_bucket"
  /\ aws' = [aws EXCEPT !.bucket = TRUE]
  /\ Goto("s3_user")
  /\ UNCHANGED <<env, issued, gcp, accounts, file, stored, got>>

S3User ==
  /\ at = "s3_user"
  /\ aws' = [aws EXCEPT !.user = TRUE]
  /\ Goto("s3_policy")
  /\ UNCHANGED <<env, issued, gcp, accounts, file, stored, got>>

S3Policy ==
  /\ at = "s3_policy"
  /\ aws' = [aws EXCEPT !.policy = TRUE]
  /\ Goto("s3_list")
  /\ UNCHANGED <<env, issued, gcp, accounts, file, stored, got>>

\* The secret of an existing key cannot be had again: .env is left as it is.
S3ListKeys ==
  /\ at = "s3_list"
  /\ IF aws.key # NoKey
       THEN EndUp("s3_down", "s3_fresh") /\ UNCHANGED <<halfEdit, torn>>
       ELSE Goto("s3_key") /\ UNCHANGED got
  /\ UNCHANGED <<env, cloud>>

S3CreateKey ==
  /\ at = "s3_key"
  /\ \E key \in AwsKey \ issued :
       /\ aws' = [aws EXCEPT !.key = key]
       /\ issued' = issued \cup {key}
       /\ got' = key
  /\ Goto("s3_env")
  /\ UNCHANGED <<env, gcp, accounts, file, stored>>

\* create-access-key runs in a here-string, where `set -e` does not see it fail:
\* the script goes on with empty variables.  The key may have been created.
S3KeyLost ==
  /\ at = "s3_key"
  /\ Fault
  /\ \/ UNCHANGED <<aws, issued>>
     \/ \E key \in AwsKey \ issued :
          aws' = [aws EXCEPT !.key = key] /\ issued' = issued \cup {key}
  /\ got' = NoKey
  /\ at' = "s3_env"
  /\ fine' = FALSE
  /\ UNCHANGED <<env, gcp, accounts, file, stored, streak, halfEdit, torn>>

\* Mutant of S3SetEnv: the name of the service is written, not the backend's.
S3SetEnvAws ==
  /\ at = "s3_env"
  /\ env' = [env EXCEPT !.backend = "aws", !.awsKey = got]
  /\ Goto("s3_endpoint")
  /\ UNCHANGED <<cloud, got>>

\* The variables are set first ...
S3SetEnv ==
  /\ at = "s3_env"
  /\ env' = [env EXCEPT !.backend = "s3", !.awsKey = got]
  /\ Goto("s3_endpoint")
  /\ UNCHANGED <<cloud, got>>

\* Mutant of S3CommentEndpoint: the endpoint stays.
S3LeaveEndpoint ==
  /\ at = "s3_endpoint"
  /\ EndUp("s3_down", "s3_fresh")
  /\ halfEdit' = FALSE
  /\ UNCHANGED <<env, cloud, torn>>

\* ... and then S3_ENDPOINT_URL is commented out.
S3CommentEndpoint ==
  /\ at = "s3_endpoint"
  /\ env' = [env EXCEPT !.endpoint = FALSE]
  /\ EndUp("s3_down", "s3_fresh")
  /\ halfEdit' = FALSE
  /\ UNCHANGED <<cloud, torn>>

-----------------------------------------------------------------------------
(* cloud_s3.sh down.                                                       *)

S3Empty ==
  /\ at = "s3_empty"
  /\ stored' = stored \ {"aws"}
  /\ Goto("s3_rm_bucket")
  /\ UNCHANGED <<env, aws, issued, gcp, accounts, file, got>>

\* A bucket that is not empty is not deleted, nor is one that is not there:
\* neither keeps the script from going on.
S3DeleteBucket ==
  /\ at = "s3_rm_bucket"
  /\ aws' = IF "aws" \in stored THEN aws ELSE [aws EXCEPT !.bucket = FALSE]
  /\ fine' = (fine /\ "aws" \notin stored)
  /\ at' = "s3_rm_key"
  /\ UNCHANGED <<env, issued, gcp, accounts, file, stored, got, faults, streak, halfEdit, torn>>

\* Mutant of S3DeleteKeys: the user's keys are left to delete-user.
S3KeysLeft ==
  /\ at = "s3_rm_key"
  /\ Goto("s3_rm_policy")
  /\ UNCHANGED <<env, cloud, got>>

\* The keys that list-access-keys reports; a failure of that call is not seen.
S3DeleteKeys ==
  /\ at = "s3_rm_key"
  /\ aws' = [aws EXCEPT !.key = NoKey]
  /\ Goto("s3_rm_policy")
  /\ UNCHANGED <<env, issued, gcp, accounts, file, stored, got>>

S3DeletePolicy ==
  /\ at = "s3_rm_policy"
  /\ aws' = [aws EXCEPT !.policy = FALSE]
  /\ Goto("s3_rm_user")
  /\ UNCHANGED <<env, issued, gcp, accounts, file, stored, got>>

\* A user who still has a key or a policy is not deleted.
S3DeleteUser ==
  /\ at = "s3_rm_user"
  /\ aws' = [aws EXCEPT !.user = @ /\ (aws.key # NoKey \/ aws.policy)]
  /\ Goto("s3_revert")
  /\ UNCHANGED <<env, issued, gcp, accounts, file, stored, got>>

\* STORAGE_BACKEND goes back to minio.  The keys in .env stay what they are.
Revert(label, next) ==
  /\ at = label
  /\ env' = [env EXCEPT !.backend = "minio"]
  /\ Goto(next)
  /\ UNCHANGED <<cloud, got>>

\* S3_ENDPOINT_URL is set again, and `down` ends.
Uncomment(label, script, s) ==
  /\ at = label
  /\ env' = [env EXCEPT !.endpoint = TRUE]
  /\ End(script)
  /\ halfEdit' = FALSE
  /\ torn' = torn \ {s}
  /\ UNCHANGED cloud

-----------------------------------------------------------------------------
(* cloud_gcs.sh.                                                           *)

GcsBucket ==
  /\ at = "gcs_bucket"
  /\ gcp' = [gcp EXCEPT !.bucket = TRUE]
  /\ Goto("gcs_account")
  /\ UNCHANGED <<env, aws, issued, accounts, file, stored, got>>

GcsAccount ==
  /\ at = "gcs_account"
  /\ IF gcp.account # 0
       THEN UNCHANGED <<gcp, accounts>>
       ELSE /\ accounts < MaxAccounts
            /\ accounts' = accounts + 1
            /\ gcp' = [gcp EXCEPT !.account = accounts + 1]
  /\ Goto("gcs_roles")
  /\ UNCHANGED <<env, aws, issued, file, stored, got>>

GcsRoles ==
  /\ at = "gcs_roles"
  /\ gcp' = [gcp EXCEPT !.roles = TRUE]
  /\ Goto("gcs_key")
  /\ UNCHANGED <<env, aws, issued, accounts, file, stored, got>>

\* An existing file is left as it is, whoever's key it holds.
GcsKey ==
  /\ at = "gcs_key"
  /\ file' = IF file # 0 THEN file ELSE gcp.account
  /\ Goto("gcs_env")
  /\ UNCHANGED <<env, aws, issued, gcp, accounts, stored, got>>

\* The endpoint is left as it is: gcs does not look at it.
GcsSetEnv ==
  /\ at = "gcs_env"
  /\ env' = [env EXCEPT !.backend = "gcs", !.gcpKey = KeyFile]
  /\ EndUp("gcs_down", "gcs_fresh")
  /\ UNCHANGED <<cloud, halfEdit, torn>>

GcsDeleteBucket ==
  /\ at = "gcs_rm_bucket"
  /\ gcp' = [gcp EXCEPT !.bucket = FALSE]
  /\ stored' = stored \ {"gcs"}
  /\ Goto("gcs_rm_account")
  /\ UNCHANGED <<env, aws, issued, accounts, file, got>>

GcsDeleteAccount ==
  /\ at = "gcs_rm_account"
  /\ gcp' = [gcp EXCEPT !.account = 0, !.roles = FALSE]
  /\ Goto("gcs_rm_file")
  /\ UNCHANGED <<env, aws, issued, accounts, file, stored, got>>

\* Mutant of GcsDeleteFile: the key file stays.
GcsFileLeft ==
  /\ at = "gcs_rm_file"
  /\ Goto("gcs_revert")
  /\ UNCHANGED <<env, cloud, got>>

GcsDeleteFile ==
  /\ at = "gcs_rm_file"
  /\ file' = 0
  /\ Goto("gcs_revert")
  /\ UNCHANGED <<env, aws, issued, gcp, accounts, stored, got>>

-----------------------------------------------------------------------------
\* A consumer, or the sitematrix script, started with this .env stores objects.
Store ==
  /\ Usable
  /\ stored' = stored \cup {ServiceOf(env)}
  /\ UNCHANGED <<env, aws, issued, gcp, accounts, file, at, got, faults, history>>

S3Step ==
  \/ S3Bucket \/ S3User \/ S3Policy \/ S3ListKeys \/ S3CreateKey \/ S3KeyLost
  \/ S3SetEnv \/ S3CommentEndpoint
  \/ S3Empty \/ Swallow("s3_empty", "s3_rm_bucket")
  \/ S3DeleteBucket \/ Swallow("s3_rm_bucket", "s3_rm_key")
  \/ S3DeleteKeys \/ Swallow("s3_rm_key", "s3_rm_policy")
  \/ S3DeletePolicy \/ Swallow("s3_rm_policy", "s3_rm_user")
  \/ S3DeleteUser \/ Swallow("s3_rm_user", "s3_revert")
  \/ Revert("s3_revert", "s3_local") \/ Uncomment("s3_local", "s3_down", "aws")

GcsStep ==
  \/ GcsBucket \/ GcsAccount \/ GcsRoles \/ GcsKey \/ GcsSetEnv
  \/ GcsDeleteBucket \/ Swallow("gcs_rm_bucket", "gcs_rm_account")
  \/ GcsDeleteAccount \/ Swallow("gcs_rm_account", "gcs_rm_file")
  \/ GcsDeleteFile
  \/ Revert("gcs_revert", "gcs_local") \/ Uncomment("gcs_local", "gcs_down", "gcs")

CloudNext ==
  \/ \E first \in Script : Begin(first)
  \/ S3Step
  \/ GcsStep
  \/ Break
  \/ Store

-----------------------------------------------------------------------------
\* Every variable has its type.
CloudTypeOK ==
  /\ env \in Environ
  /\ aws \in [bucket : BOOLEAN, user : BOOLEAN, policy : BOOLEAN, key : AwsKey \cup {NoKey}]
  /\ issued \in SUBSET AwsKey
  /\ gcp \in [bucket : BOOLEAN, account : 0 .. accounts, roles : BOOLEAN]
  /\ accounts \in 0 .. MaxAccounts
  /\ file \in 0 .. accounts
  /\ stored \in SUBSET Service
  /\ at \in {"idle"} \cup S3Up \cup S3Down \cup GcsUp \cup GcsDown
  /\ got \in AwsKey \cup {NoKey}
  /\ faults \in Nat
  /\ fine \in BOOLEAN
  /\ streak \in {"none", "s3_down", "gcs_down", "s3_fresh", "gcs_fresh"}
  /\ halfEdit \in BOOLEAN
  /\ torn \in SUBSET {"aws", "gcs"}

\* STORAGE_BACKEND and S3_ENDPOINT_URL are set by separate edits and "minio" and
\* "s3" are told apart by the second alone: between scripts the name in .env is
\* that of the service the handlers use, unless an edit was interrupted.
NameMatchesService ==
  at = "idle" /\ ~halfEdit => ServiceOf(env) = ServiceByName(env)

\* A credential of a cloud service that .env selects is live, or its `down` broke
\* off; of AWS it may also be empty, as nobody sees create-access-key fail.
CloudKeyIsLive ==
  at = "idle" =>
    /\ ServiceOf(env) = "aws" => env.awsKey \in {NoKey, aws.key} \/ "aws" \in torn
    /\ ServiceOf(env) = "gcs" => (file # 0 /\ file = gcp.account) \/ "gcs" \in torn

\* "Run down then up again for a fresh key if needed" (line 66): whatever state
\* earlier scripts broke off in, a `down` without failures leaves nothing behind
\* at its service, and an `up` after it makes the service usable.
FreshStart ==
  at = "idle" =>
    /\ streak = "s3_down" => aws = NoAws
    /\ streak = "gcs_down" => gcp = NoGcp /\ file = 0
    /\ streak = "s3_fresh" => ServiceOf(env) = "aws" /\ Usable
    /\ streak = "gcs_fresh" => ServiceOf(env) = "gcs" /\ Usable
=============================================================================
