----------------------------- MODULE StorageClient -----------------------------
(***************************************************************************)
(* The storage handlers as their callers use them: a process builds one    *)
(* handler and all its threads share it.  The client inside it is built on *)
(* the first read or write, without a lock, and for MinIO the bucket is    *)
(* created on the way; what was found out then is never checked again.     *)
(*                                                                         *)
(* The services are code outside the repository: a call to one may raise   *)
(* because the service cannot be reached, because the key is refused, or   *)
(* because what it is asked for is not so.                                 *)
(***************************************************************************)
EXTENDS StorageConfig, Naturals, FiniteSets

CONSTANTS
  Handler,       \* handlers, one per process
  Thread,        \* threads that call one
  HandlerOf,     \* Thread -> Handler
  Writer,        \* the threads that write; the others read
  Path,          \* object names
  PathOf,        \* Thread -> Path: what the thread writes or reads
  NoClient,      \* `_client is None`
  Setup,         \* the environments the processes may be started with
  Accepts,       \* Service -> the keys it accepts
  Faults,        \* the faults that happen, a subset of FaultKind
  MaxFaults      \* how many of them, in all

\* A call cannot reach its service; the service is wiped (`docker compose down
\* -v`, or `down` of a cloud script); a process restarts.
FaultKind == {"unreachable", "wipe", "restart"}

ASSUME HandlerAssumption ==
  /\ HandlerOf \in [Thread -> Handler]
  /\ PathOf \in [Thread -> Path]
  /\ Writer \subseteq Thread
  /\ IsFiniteSet(Thread) /\ Thread # {}
  /\ NoClient \notin Service

ASSUME SetupAssumption ==
  /\ Setup \subseteq [Handler -> Environ]
  /\ Accepts \in [Service -> SUBSET Key]
  /\ Faults \subseteq FaultKind
  /\ MaxFaults \in Nat

VARIABLES
  environ,     \* os.environ of each process, fixed when it starts
  client,      \* `_client` of each handler: the service it was built for
  pc,          \* where each thread stands
  bucket,      \* the services in which BUCKET_NAME exists
  object,      \* what the buckets hold
  granted,     \* history: the services in which an operator made the bucket
  raceLosses,  \* history: calls that raised because the bucket was just made
  outlived,    \* history: the handlers that were there when a service was wiped
  faults       \* faults so far

service == <<bucket, object, granted>>
vars == <<environ, client, pc, service, raceLosses, outlived, faults>>

Target(t) == ServiceOf(environ[HandlerOf[t]])
PlaceOf(t) == <<Target(t), PathOf[t]>>
Accepted(t) == KeyOf(environ[HandlerOf[t]]) \in Accepts[Target(t)]

Outside == {"idle", "ok", "raised"}          \* the thread is in no call
Inside == {"client", "exists", "make", "keep", "io"}

Goto(t, label) == pc' = [pc EXCEPT ![t] = label]

Fault(kind) ==
  /\ kind \in Faults
  /\ faults < MaxFaults
  /\ faults' = faults + 1

-----------------------------------------------------------------------------
Init ==
  /\ environ \in Setup
  /\ client = [h \in Handler |-> NoClient]
  /\ pc = [t \in Thread |-> "idle"]
  /\ granted = {}
  /\ bucket \in {{}, {"minio"}}
  /\ object = {}
  /\ raceLosses = 0
  /\ outlived = {}
  /\ faults = 0

\* write() or read() is called; the payload is serialised first.
Call(t) ==
  /\ pc[t] \in Outside
  /\ Goto(t, "client")
  /\ UNCHANGED <<environ, client, service, raceLosses, outlived, faults>>

-----------------------------------------------------------------------------
(* _get_client.                                                            *)

\* Some other call built the client before.
ReuseClient(t) ==
  /\ pc[t] = "client"
  /\ client[HandlerOf[t]] # NoClient
  /\ Goto(t, "io")
  /\ UNCHANGED <<environ, client, service, raceLosses, outlived, faults>>

\* A variable that the client needs is not set.
MissingVariable(t) ==
  /\ pc[t] = "client"
  /\ client[HandlerOf[t]] = NoClient
  /\ KeyOf(environ[HandlerOf[t]]) = NoKey
  /\ Goto(t, "raised")
  /\ UNCHANGED <<environ, client, service, raceLosses, outlived, faults>>

\* Mutant of BuildClient: the bucket is looked for whatever the service is.
BuildClientAnywhere(t) ==
  /\ pc[t] = "client"
  /\ client[HandlerOf[t]] = NoClient
  /\ KeyOf(environ[HandlerOf[t]]) # NoKey
  /\ Goto(t, "exists")
  /\ UNCHANGED <<environ, client, service, raceLosses, outlived, faults>>

\* Mutant of BuildClient: the client is kept before its bucket was looked for.
BuildClientKept(t) ==
  /\ pc[t] = "client"
  /\ client[HandlerOf[t]] = NoClient
  /\ KeyOf(environ[HandlerOf[t]]) # NoKey
  /\ client' = [client EXCEPT ![HandlerOf[t]] = Target(t)]
  /\ Goto(t, IF Target(t) = "minio" THEN "exists" ELSE "keep")
  /\ UNCHANGED <<environ, service, raceLosses, outlived, faults>>

\* Nothing is sent yet.  Only a client for MinIO goes on to look for the bucket.
BuildClient(t) ==
  /\ pc[t] = "client"
  /\ client[HandlerOf[t]] = NoClient
  /\ KeyOf(environ[HandlerOf[t]]) # NoKey
  /\ Goto(t, IF Target(t) = "minio" THEN "exists" ELSE "keep")
  /\ UNCHANGED <<environ, client, service, raceLosses, outlived, faults>>

\* Mutant of BucketExists: the bucket is made without asking.
BucketNotLookedFor(t) ==
  /\ pc[t] = "exists"
  /\ Accepted(t)
  /\ Goto(t, "make")
  /\ UNCHANGED <<environ, client, service, raceLosses, outlived, faults>>

\* bucket_exists answers.
BucketExists(t) ==
  /\ pc[t] = "exists"
  /\ Accepted(t)
  /\ Goto(t, IF Target(t) \in bucket THEN "keep" ELSE "make")
  /\ UNCHANGED <<environ, client, service, raceLosses, outlived, faults>>

\* make_bucket creates the bucket, or raises if another call has done so since
\* this one looked.
MakeBucket(t) ==
  /\ pc[t] = "make"
  /\ bucket' = bucket \cup {Target(t)}
  /\ IF Target(t) \in bucket
       THEN Goto(t, "raised") /\ raceLosses' = raceLosses + 1
       ELSE Goto(t, "keep") /\ UNCHANGED raceLosses
  /\ UNCHANGED <<environ, client, object, granted, outlived, faults>>

\* self._client = client; the last of several racing calls wins.
KeepClient(t) ==
  /\ pc[t] = "keep"
  /\ client' = [client EXCEPT ![HandlerOf[t]] = Target(t)]
  /\ Goto(t, "io")
  /\ UNCHANGED <<environ, service, raceLosses, outlived, faults>>

-----------------------------------------------------------------------------
(* put_object and get_object.                                              *)

\* Mutant of PutObject: the object is reported but never sent.
PutNothing(t) ==
  /\ pc[t] = "io"
  /\ t \in Writer
  /\ Goto(t, "ok")
  /\ UNCHANGED <<environ, client, service, raceLosses, outlived, faults>>

PutObject(t) ==
  /\ pc[t] = "io"
  /\ t \in Writer
  /\ Accepted(t)
  /\ Target(t) \in bucket
  /\ object' = object \cup {PlaceOf(t)}
  /\ Goto(t, "ok")
  /\ UNCHANGED <<environ, client, bucket, granted, raceLosses, outlived, faults>>

GetObject(t) ==
  /\ pc[t] = "io"
  /\ t \notin Writer
  /\ Accepted(t)
  /\ PlaceOf(t) \in object
  /\ Goto(t, "ok")
  /\ UNCHANGED <<environ, client, service, raceLosses, outlived, faults>>

\* The service answers with an error: a refused key, no bucket, no object.
Refused(t) ==
  /\ \/ pc[t] \in {"exists", "io"} /\ ~Accepted(t)
     \/ pc[t] = "io" /\ Target(t) \notin bucket
     \/ pc[t] = "io" /\ t \notin Writer /\ PlaceOf(t) \notin object
  /\ Goto(t, "raised")
  /\ UNCHANGED <<environ, client, service, raceLosses, outlived, faults>>

\* The request, or only the answer to it, is lost.
Unreachable(t) ==
  /\ pc[t] \in {"exists", "make", "io"}
  /\ Fault("unreachable")
  /\ Goto(t, "raised")
  /\ bucket' \in IF pc[t] = "make" THEN {bucket, bucket \cup {Target(t)}} ELSE {bucket}
  /\ object' \in IF pc[t] = "io" /\ t \in Writer /\ Accepted(t) /\ Target(t) \in bucket
                   THEN {object, object \cup {PlaceOf(t)}} ELSE {object}
  /\ UNCHANGED <<environ, client, granted, raceLosses, outlived>>

-----------------------------------------------------------------------------
(* Around the handlers.                                                    *)

\* RUNBOOK.md: the bucket of the cloud service in use is created by hand, once.
GrantBucket(s) ==
  /\ s \in Service \ ({"minio"} \cup granted)
  /\ \E h \in Handler : ServiceOf(environ[h]) = s
  /\ granted' = granted \cup {s}
  /\ bucket' = bucket \cup {s}
  /\ UNCHANGED <<environ, client, pc, object, raceLosses, outlived, faults>>

Wipe(s) ==
  /\ s \in bucket
  /\ Fault("wipe")
  /\ bucket' = bucket \ {s}
  /\ object' = {place \in object : place[1] # s}
  /\ granted' = granted \ {s}
  /\ raceLosses' = IF s = "minio" THEN 0 ELSE raceLosses
  /\ outlived' = Handler
  /\ UNCHANGED <<environ, client, pc>>

\* A new process with the same .env: a new handler, and idle threads.
Restart(h) ==
  /\ Fault("restart")
  /\ client' = [client EXCEPT ![h] = NoClient]
  /\ pc' = [t \in Thread |-> IF HandlerOf[t] = h THEN "idle" ELSE pc[t]]
  /\ outlived' = outlived \ {h}
  /\ UNCHANGED <<environ, service, raceLosses>>

-----------------------------------------------------------------------------
ClientStep(t) ==
  \/ ReuseClient(t) \/ MissingVariable(t) \/ BuildClient(t)
  \/ BucketExists(t) \/ MakeBucket(t) \/ KeepClient(t)

Step(t) == ClientStep(t) \/ PutObject(t) \/ GetObject(t) \/ Refused(t)

Next ==
  \/ \E t \in Thread : Call(t) \/ Step(t) \/ Unreachable(t)
  \/ \E s \in Service : GrantBucket(s) \/ Wipe(s)
  \/ \E h \in Handler : Restart(h)

Spec == Init /\ [][Next]_vars

\* A call that was made goes on: the system schedules the thread, and a request
\* is answered or raises.  Nothing says that a call is made, least of all by a
\* thread whose last one raised: that ends the flush thread, and run() too when
\* it happens in a callback.
Fairness == \A t \in Thread : WF_vars(Step(t))

FairSpec == Spec /\ Fairness

-----------------------------------------------------------------------------
\* Every variable has its type, and a client is one for the service that its
\* process's environment names.
TypeOK ==
  /\ environ \in Setup
  /\ client \in [Handler -> Service \cup {NoClient}]
  /\ \A h \in Handler : client[h] \in {NoClient, ServiceOf(environ[h])}
  /\ pc \in [Thread -> Outside \cup Inside]
  /\ \A t \in Thread : pc[t] \in {"exists", "make"} => Target(t) = "minio"
  /\ bucket \in SUBSET Service
  /\ object \in SUBSET (Service \X Path)
  /\ granted \in SUBSET (Service \ {"minio"})
  /\ raceLosses \in Nat
  /\ outlived \in SUBSET Handler
  /\ faults \in Nat

-----------------------------------------------------------------------------
(* Safety.                                                                 *)

Stale(h) == client[h] = "minio" /\ "minio" \notin bucket

\* A kept client is proof that its bucket is there: however the threads race in
\* _get_client, and wherever a call to the service fails in it, only a wipe
\* that the process lived through can leave it with a client and no bucket.  No
\* later call looks again, so such a process has to be restarted.
StaleOnlyIfOutlived == \A h \in Handler : Stale(h) => h \in outlived

\* "No cloud resource turned on by default": the code makes a bucket on MinIO
\* only; one of a cloud service is there because an operator made it, whatever
\* the environments say.
OnlyGrantedCloudBuckets == bucket \subseteq granted \cup {"minio"}

\* Creating the bucket on first use is "harmless" (line 8) but not free: threads
\* that looked before it was made raise, and their batch with them.  That costs
\* fewer calls than there are threads for each time the bucket comes into being.
RaceLossesBounded == raceLosses < Cardinality(Thread)

-----------------------------------------------------------------------------
(* Refinement.                                                             *)

Store == INSTANCE ObjectStore
  WITH Place <- Service \X Path,
       place <- [t \in Thread |-> PlaceOf(t)],
       writes <- Writer,
       status <- [t \in Thread |-> IF pc[t] \in Inside THEN "busy" ELSE pc[t]],
       stored <- object

\* The handlers give their callers the object store they count on: a write that
\* returns has stored its object where the reader of that path looks for it.
StoresObjects == Store!Spec

-----------------------------------------------------------------------------
(* Liveness.                                                               *)

\* Nothing the program does can help: the key is refused, the bucket is one an
\* operator has to make, or the process outlived a wipe and will not look again.
BeyondHelp(t) ==
  \/ ~Accepted(t)
  \/ Target(t) \notin bucket /\ Target(t) # "minio"
  \/ Stale(HandlerOf[t]) /\ HandlerOf[t] \in outlived

Served(t) == pc[t] = "ok" /\ PlaceOf(t) \in object

\* A failure costs the calls it hits and leaves nothing behind in the handler:
\* whatever happened before, a write that is made after the last fault returns
\* with its object stored if the bucket is there.  If it is not, the race to make
\* it may cost this write, but one of the racing calls makes it for those to come.
WritesGetThrough ==
  \A t \in Writer :
    LET Made == pc[t] = "client" /\ faults = MaxFaults IN
    /\ (Made /\ Accepted(t) /\ Target(t) \in bucket) ~> Served(t)
    /\ (Made /\ ~BeyondHelp(t)) ~> (Target(t) \in bucket \/ BeyondHelp(t))
=============================================================================
