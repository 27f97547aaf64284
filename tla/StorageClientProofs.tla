-------------------------- MODULE StorageClientProofs --------------------------
(***************************************************************************)
(* Proofs about StorageClient: types, what a kept client proves about its  *)
(* bucket, the cost of racing to create it, and that the handlers          *)
(* implement ObjectStore.                                                  *)
(***************************************************************************)
EXTENDS StorageClient, FiniteSetTheorems, TLAPS

USE DEF Outside, Inside

\* The steps by thread, service and handler, as the proofs below split them.
THEOREM StorageSteps ==
  ASSUME [Next]_vars
  PROVE  \/ \E t \in Thread :
              \/ Call(t) \/ ReuseClient(t) \/ MissingVariable(t) \/ BuildClient(t)
              \/ BucketExists(t) \/ MakeBucket(t) \/ KeepClient(t)
              \/ PutObject(t) \/ GetObject(t) \/ Refused(t) \/ Unreachable(t)
         \/ \E s \in Service : GrantBucket(s) \/ Wipe(s)
         \/ \E h \in Handler : Restart(h)
         \/ UNCHANGED vars
  BY DEF Next, Step, ClientStep

LEMMA ServiceIsService ==
  ASSUME NEW e \in Environ
  PROVE  ServiceOf(e) \in Service
  BY DEF ServiceOf, Service, IsGcs, Environ, Backend

LEMMA TargetIsService ==
  ASSUME TypeOK, NEW t \in Thread
  PROVE  HandlerOf[t] \in Handler /\ Target(t) \in Service /\ Target(t) # NoClient
<1>1. HandlerOf[t] \in Handler
  BY HandlerAssumption
<1>2. environ[HandlerOf[t]] \in Environ
  BY <1>1, SetupAssumption DEF TypeOK
<1> QED
  BY <1>1, <1>2, ServiceIsService, HandlerAssumption DEF Target

-----------------------------------------------------------------------------
(* Types.                                                                  *)

LEMMA InitType == Init => TypeOK
<1> SUFFICES ASSUME Init PROVE TypeOK
  OBVIOUS
<1> QED
  BY DEF Init, TypeOK, Service

LEMMA StepType ==
  ASSUME TypeOK, [Next]_vars
  PROVE  TypeOK'
<1>1. UNCHANGED environ
  BY StorageSteps DEF Call, ReuseClient, MissingVariable, BuildClient, BucketExists,
       MakeBucket, KeepClient, PutObject, GetObject, Refused, Unreachable, GrantBucket,
       Wipe, Restart, vars
<1>2. \A t \in Thread : Target(t)' = Target(t)
  BY <1>1 DEF Target
<1>3. ASSUME NEW t \in Thread,
             \/ Call(t) \/ ReuseClient(t) \/ MissingVariable(t) \/ BuildClient(t)
             \/ BucketExists(t) \/ GetObject(t) \/ Refused(t)
      PROVE  TypeOK'
  <2>1. UNCHANGED <<environ, client, bucket, object, granted, raceLosses, outlived, faults>>
    BY <1>3 DEF Call, ReuseClient, MissingVariable, BuildClient, BucketExists, GetObject,
         Refused, service
  <2>2. /\ pc' \in [Thread -> Outside \cup Inside]
        /\ \A u \in Thread : pc'[u] \in {"exists", "make"} => Target(u) = "minio"
    BY <1>3 DEF Call, ReuseClient, MissingVariable, BuildClient, BucketExists, GetObject,
         Refused, Goto, TypeOK
  <2> QED
    BY <1>2, <2>1, <2>2 DEF TypeOK
<1>4. ASSUME NEW t \in Thread, MakeBucket(t)
      PROVE  TypeOK'
  <2>1. Target(t) \in Service
    BY TargetIsService
  <2> QED
    BY <1>2, <1>4, <2>1 DEF MakeBucket, Goto, TypeOK
<1>5. ASSUME NEW t \in Thread, KeepClient(t)
      PROVE  TypeOK'
  <2>1. Target(t) \in Service /\ HandlerOf[t] \in Handler
    BY TargetIsService
  <2>2. client' \in [Handler -> Service \cup {NoClient}]
    BY <1>5, <2>1 DEF KeepClient, TypeOK
  <2>3. \A h \in Handler : client'[h] \in {NoClient, ServiceOf(environ[h])}
    BY <1>5, <2>1 DEF KeepClient, TypeOK, Target
  <2>4. /\ pc' \in [Thread -> Outside \cup Inside]
        /\ \A u \in Thread : pc'[u] \in {"exists", "make"} => Target(u) = "minio"
    BY <1>5 DEF KeepClient, Goto, TypeOK
  <2> QED
    BY <1>1, <1>2, <1>5, <2>2, <2>3, <2>4 DEF KeepClient, service, TypeOK
<1>6. ASSUME NEW t \in Thread, PutObject(t) \/ Unreachable(t)
      PROVE  TypeOK'
  <2>1. Target(t) \in Service /\ PathOf[t] \in Path
    BY TargetIsService, HandlerAssumption
  <2>2. object' \in SUBSET (Service \X Path) /\ bucket' \in SUBSET Service
    BY <1>6, <2>1 DEF PutObject, Unreachable, PlaceOf, TypeOK
  <2>3. /\ pc' \in [Thread -> Outside \cup Inside]
        /\ \A u \in Thread : pc'[u] \in {"exists", "make"} => Target(u) = "minio"
    BY <1>6 DEF PutObject, Unreachable, Goto, TypeOK
  <2>4. UNCHANGED <<environ, client, granted, raceLosses, outlived>> /\ faults' \in Nat
    BY <1>6 DEF PutObject, Unreachable, Fault, TypeOK
  <2> QED
    BY <1>2, <2>2, <2>3, <2>4 DEF TypeOK
<1>7. ASSUME NEW s \in Service, GrantBucket(s) \/ Wipe(s)
      PROVE  TypeOK'
  <2>1. /\ UNCHANGED <<environ, client, pc>>
        /\ bucket' \in SUBSET Service
        /\ granted' \in SUBSET (Service \ {"minio"})
        /\ object' \in SUBSET (Service \X Path)
    BY <1>7 DEF GrantBucket, Wipe, TypeOK
  <2>2. raceLosses' \in Nat /\ faults' \in Nat /\ outlived' \in SUBSET Handler
    BY <1>7 DEF GrantBucket, Wipe, Fault, TypeOK
  <2> QED
    BY <1>2, <2>1, <2>2 DEF TypeOK
<1>8. ASSUME NEW h \in Handler, Restart(h)
      PROVE  TypeOK'
  <2>1. /\ pc' \in [Thread -> Outside \cup Inside]
        /\ \A u \in Thread : pc'[u] \in {"exists", "make"} => Target(u) = "minio"
    BY <1>8 DEF Restart, TypeOK
  <2>2. /\ client' \in [Handler -> Service \cup {NoClient}]
        /\ \A g \in Handler : client'[g] \in {NoClient, ServiceOf(environ[g])}
    BY <1>8 DEF Restart, TypeOK
  <2>3. /\ UNCHANGED <<environ, bucket, object, granted, raceLosses>>
        /\ outlived' \in SUBSET Handler
        /\ faults' \in Nat
    BY <1>8 DEF Restart, Fault, service, TypeOK
  <2> QED
    BY <1>2, <2>1, <2>2, <2>3 DEF TypeOK
<1>9. CASE UNCHANGED vars
  BY <1>2, <1>9 DEF vars, service, TypeOK
<1> QED
  BY <1>3, <1>4, <1>5, <1>6, <1>7, <1>8, <1>9, StorageSteps

\* Every variable keeps its type, and a handler's client is for the service that
\* its environment names.
THEOREM StorageTypeCorrect == Spec => []TypeOK
<1> QED
  BY InitType, StepType, PTL DEF Spec

-----------------------------------------------------------------------------
(* What a client, kept or about to be, proves about its bucket.            *)

\* StaleOnlyIfOutlived is not inductive alone: a thread that has made sure of
\* the bucket is trusted when it keeps its client.
Looked ==
  \A t \in Thread :
    pc[t] = "keep" /\ Target(t) = "minio" /\ "minio" \notin bucket => HandlerOf[t] \in outlived

Making == {t \in Thread : pc[t] = "make"}

\* Who may still lose the race: the threads at make_bucket.  The one that made
\* the bucket is not among them.
RaceLeft ==
  IF "minio" \in bucket THEN raceLosses + Cardinality(Making) < Cardinality(Thread)
                        ELSE raceLosses = 0

StorageInv ==
  TypeOK /\ Looked /\ StaleOnlyIfOutlived /\ OnlyGrantedCloudBuckets /\ RaceLeft

LEMMA MakingSizes ==
  /\ IsFiniteSet(Thread) /\ Cardinality(Thread) \in Nat /\ Cardinality(Thread) > 0
  /\ \A S \in SUBSET Thread : IsFiniteSet(S) /\ Cardinality(S) \in Nat
  /\ \A S \in SUBSET Thread : \A T \in SUBSET S : Cardinality(T) <= Cardinality(S)
  /\ \A S \in SUBSET Thread : \A t \in S : Cardinality(S \ {t}) = Cardinality(S) - 1
<1>1. IsFiniteSet(Thread) /\ Cardinality(Thread) \in Nat /\ Cardinality(Thread) # 0
  BY HandlerAssumption, FS_CardinalityType, FS_EmptySet
<1>2. \A S \in SUBSET Thread : IsFiniteSet(S) /\ Cardinality(S) \in Nat
  BY <1>1, FS_Subset, FS_CardinalityType
<1>3. \A S \in SUBSET Thread : \A T \in SUBSET S : Cardinality(T) <= Cardinality(S)
  BY <1>2, FS_Subset
<1>4. \A S \in SUBSET Thread : \A t \in S : Cardinality(S \ {t}) = Cardinality(S) - 1
  BY <1>2, FS_RemoveElement
<1> QED
  BY <1>1, <1>2, <1>3, <1>4

LEMMA StepRace ==
  ASSUME TypeOK, RaceLeft, [Next]_vars
  PROVE  RaceLeft'
<1>1. /\ Making \subseteq Thread
      /\ raceLosses \in Nat
      /\ Cardinality(Making) \in Nat
      /\ Cardinality(Thread) \in Nat
  BY MakingSizes DEF Making, TypeOK
\* The race goes on among the same threads, or fewer.
<1>2. ASSUME Making' \subseteq Making,
             "minio" \in bucket' <=> "minio" \in bucket,
             raceLosses' = raceLosses
      PROVE  RaceLeft'
  <2>1. Cardinality(Making') \in Nat /\ Cardinality(Making') <= Cardinality(Making)
    BY <1>1, <1>2, MakingSizes
  <2> QED
    BY <1>1, <1>2, <2>1 DEF RaceLeft
<1>3. ASSUME NEW t \in Thread,
             \/ Call(t) \/ ReuseClient(t) \/ MissingVariable(t) \/ BuildClient(t)
             \/ KeepClient(t) \/ PutObject(t) \/ GetObject(t) \/ Refused(t)
      PROVE  RaceLeft'
  <2>1. Making' \subseteq Making
    BY <1>3 DEF Call, ReuseClient, MissingVariable, BuildClient, KeepClient, PutObject,
         GetObject, Refused, Goto, Making, TypeOK
  <2>2. UNCHANGED <<bucket, raceLosses>>
    BY <1>3 DEF Call, ReuseClient, MissingVariable, BuildClient, KeepClient, PutObject,
         GetObject, Refused, service
  <2> QED
    BY <1>2, <2>1, <2>2
<1>4. ASSUME NEW t \in Thread, BucketExists(t)
      PROVE  RaceLeft'
  <2>1. UNCHANGED <<bucket, raceLosses>> /\ Target(t) = "minio"
    BY <1>4 DEF BucketExists, service, TypeOK
  <2>2. CASE "minio" \in bucket
    <3>1. Making' \subseteq Making
      BY <1>4, <2>1, <2>2 DEF BucketExists, Goto, Making, TypeOK
    <3> QED
      BY <1>2, <2>1, <3>1
  <2>3. CASE "minio" \notin bucket
    BY <2>1, <2>3 DEF RaceLeft
  <2> QED
    BY <2>2, <2>3
\* make_bucket returns, raises, or its answer is lost: its thread is done.
<1>5. ASSUME NEW t \in Thread, pc[t] = "make", Making' \subseteq Making \ {t},
             \/ "minio" \in bucket /\ "minio" \in bucket' /\ raceLosses' \in {raceLosses, raceLosses + 1}
             \/ "minio" \notin bucket /\ raceLosses' = raceLosses
      PROVE  RaceLeft'
  <2>1. t \in Making /\ t \in Thread
    BY <1>5 DEF Making
  <2>2. Cardinality(Making \ {t}) = Cardinality(Making) - 1
    BY <1>1, <2>1, MakingSizes
  <2>3. Cardinality(Making \ {t}) <= Cardinality(Thread \ {t})
    <3>1. Making \ {t} \in SUBSET (Thread \ {t}) /\ Thread \ {t} \in SUBSET Thread
      BY <1>1
    <3> QED
      BY <3>1, MakingSizes
  <2>4. Cardinality(Thread \ {t}) = Cardinality(Thread) - 1
    BY MakingSizes
  <2>5. Cardinality(Making') \in Nat /\ Cardinality(Making') <= Cardinality(Making \ {t})
    <3>1. Making \ {t} \in SUBSET Thread /\ Making' \in SUBSET (Making \ {t})
      BY <1>1, <1>5
    <3> QED
      BY <3>1, MakingSizes
  <2>6. CASE "minio" \in bucket
    BY <1>1, <1>5, <2>2, <2>5, <2>6 DEF RaceLeft
  <2>7. CASE "minio" \notin bucket
    <3>1. Cardinality(Making') < Cardinality(Thread)
      BY <1>1, <2>2, <2>3, <2>4, <2>5
    <3>2. raceLosses' = 0
      BY <1>5, <2>7 DEF RaceLeft
    <3> QED
      BY <1>1, <2>5, <3>1, <3>2 DEF RaceLeft
  <2> QED
    BY <2>6, <2>7
<1>6. ASSUME NEW t \in Thread, MakeBucket(t)
      PROVE  RaceLeft'
  <2>1. pc[t] = "make" /\ Target(t) = "minio" /\ "minio" \in bucket'
    BY <1>6 DEF MakeBucket, TypeOK
  <2>2. Making' \subseteq Making \ {t}
    BY <1>6 DEF MakeBucket, Goto, Making, TypeOK
  <2>3. raceLosses' = IF "minio" \in bucket THEN raceLosses + 1 ELSE raceLosses
    BY <1>6, <2>1 DEF MakeBucket
  <2> QED
    BY <1>5, <2>1, <2>2, <2>3
<1>7. ASSUME NEW t \in Thread, Unreachable(t)
      PROVE  RaceLeft'
  <2>1. raceLosses' = raceLosses /\ bucket \subseteq bucket'
    BY <1>7 DEF Unreachable
  <2>2. Making' \subseteq Making \ {t}
    BY <1>7 DEF Unreachable, Goto, Making, TypeOK
  <2>3. CASE pc[t] = "make"
    BY <1>5, <2>1, <2>2, <2>3
  <2>4. CASE pc[t] # "make"
    <3>1. bucket' = bucket
      BY <1>7, <2>4 DEF Unreachable
    <3> QED
      BY <1>2, <2>1, <2>2, <3>1
  <2> QED
    BY <2>3, <2>4
<1>8. ASSUME NEW s \in Service, GrantBucket(s)
      PROVE  RaceLeft'
  <2>1. Making' = Making /\ raceLosses' = raceLosses
    BY <1>8 DEF GrantBucket, Making
  <2>2. "minio" \in bucket' <=> "minio" \in bucket
    BY <1>8 DEF GrantBucket
  <2> QED
    BY <1>2, <2>1, <2>2
<1>9. ASSUME NEW s \in Service, Wipe(s)
      PROVE  RaceLeft'
  <2>1. CASE s = "minio"
    BY <1>9, <2>1 DEF Wipe, RaceLeft
  <2>2. CASE s # "minio"
    <3>1. Making' = Making /\ raceLosses' = raceLosses
      BY <1>9, <2>2 DEF Wipe, Making
    <3>2. "minio" \in bucket' <=> "minio" \in bucket
      BY <1>9, <2>2 DEF Wipe
    <3> QED
      BY <1>2, <3>1, <3>2
  <2> QED
    BY <2>1, <2>2
<1>10. ASSUME NEW h \in Handler, Restart(h)
       PROVE  RaceLeft'
  <2>1. Making' \subseteq Making
    BY <1>10 DEF Restart, Making, TypeOK
  <2> QED
    BY <1>2, <1>10, <2>1 DEF Restart, service
<1>11. CASE UNCHANGED vars
  <2>1. Making' = Making /\ bucket' = bucket /\ raceLosses' = raceLosses
    BY <1>11 DEF vars, service, Making
  <2> QED
    BY <1>2, <2>1
<1> QED
  BY <1>3, <1>4, <1>6, <1>7, <1>8, <1>9, <1>10, <1>11, StorageSteps

LEMMA StepStale ==
  ASSUME TypeOK, Looked, StaleOnlyIfOutlived, [Next]_vars
  PROVE  Looked' /\ StaleOnlyIfOutlived'
<1>1. UNCHANGED environ
  BY StorageSteps DEF Call, ReuseClient, MissingVariable, BuildClient, BucketExists,
       MakeBucket, KeepClient, PutObject, GetObject, Refused, Unreachable, GrantBucket,
       Wipe, Restart, vars
<1>2. \A t \in Thread : Target(t)' = Target(t)
  BY <1>1 DEF Target
\* No bucket goes, nobody but a thread that looked goes on to keep its client.
<1>3. ASSUME UNCHANGED <<client, outlived>>, bucket \subseteq bucket',
             \A u \in Thread : pc'[u] = "keep" => pc[u] = "keep" \/ Target(u) \in bucket'
                                                 \/ Target(u) # "minio"
      PROVE  Looked' /\ StaleOnlyIfOutlived'
  <2>1. Looked'
    BY <1>2, <1>3 DEF Looked
  <2>2. StaleOnlyIfOutlived'
    BY <1>3 DEF StaleOnlyIfOutlived, Stale
  <2> QED
    BY <2>1, <2>2
<1>4. ASSUME NEW t \in Thread,
             \/ Call(t) \/ ReuseClient(t) \/ MissingVariable(t) \/ BuildClient(t)
             \/ BucketExists(t) \/ MakeBucket(t) \/ PutObject(t) \/ GetObject(t)
             \/ Refused(t) \/ Unreachable(t)
      PROVE  Looked' /\ StaleOnlyIfOutlived'
  <2>1. UNCHANGED <<client, outlived>> /\ bucket \subseteq bucket'
    BY <1>4 DEF Call, ReuseClient, MissingVariable, BuildClient, BucketExists, MakeBucket,
         PutObject, GetObject, Refused, Unreachable, service
  <2>2. \A u \in Thread : pc'[u] = "keep" => pc[u] = "keep" \/ Target(u) \in bucket'
                                              \/ Target(u) # "minio"
    BY <1>4 DEF Call, ReuseClient, MissingVariable, BuildClient, BucketExists, MakeBucket,
         PutObject, GetObject, Refused, Unreachable, service, Goto, TypeOK
  <2> QED
    BY <1>3, <2>1, <2>2
<1>5. ASSUME NEW t \in Thread, KeepClient(t)
      PROVE  Looked' /\ StaleOnlyIfOutlived'
  <2>1. UNCHANGED <<bucket, outlived>> /\ pc[t] = "keep"
    BY <1>5 DEF KeepClient, service
  <2>2. Looked'
    BY <1>2, <1>5, <2>1 DEF KeepClient, Goto, Looked, TypeOK
  <2>3. ASSUME NEW h \in Handler, Stale(h)'
        PROVE  h \in outlived
    <3>1. "minio" \notin bucket /\ client'[h] = "minio"
      BY <2>1, <2>3 DEF Stale
    <3>2. CASE h = HandlerOf[t]
      <4>1. Target(t) = "minio"
        BY <1>5, <3>1, <3>2 DEF KeepClient, TypeOK
      <4> QED
        BY <2>1, <3>1, <3>2, <4>1 DEF Looked
    <3>3. CASE h # HandlerOf[t]
      <4>1. client[h] = "minio"
        BY <1>5, <3>1, <3>3 DEF KeepClient, TypeOK
      <4> QED
        BY <3>1, <4>1 DEF StaleOnlyIfOutlived, Stale
    <3> QED
      BY <3>2, <3>3
  <2>4. StaleOnlyIfOutlived'
    BY <2>1, <2>3 DEF StaleOnlyIfOutlived
  <2> QED
    BY <2>2, <2>4
<1>6. ASSUME NEW s \in Service, GrantBucket(s)
      PROVE  Looked' /\ StaleOnlyIfOutlived'
  BY <1>3, <1>6 DEF GrantBucket
<1>7. ASSUME NEW s \in Service, Wipe(s)
      PROVE  Looked' /\ StaleOnlyIfOutlived'
  <2>1. outlived' = Handler
    BY <1>7 DEF Wipe
  <2> QED
    BY <2>1, HandlerAssumption DEF Looked, StaleOnlyIfOutlived
<1>8. ASSUME NEW h \in Handler, Restart(h)
      PROVE  Looked' /\ StaleOnlyIfOutlived'
  <2>1. /\ bucket' = bucket
        /\ outlived' = outlived \ {h}
        /\ client' = [client EXCEPT ![h] = NoClient]
    BY <1>8 DEF Restart, service
  <2>2. Looked'
    BY <1>2, <1>8, <2>1 DEF Restart, Looked, TypeOK
  <2>3. NoClient # "minio"
    BY HandlerAssumption DEF Service
  <2>4. StaleOnlyIfOutlived'
    BY <2>1, <2>3 DEF StaleOnlyIfOutlived, Stale, TypeOK
  <2> QED
    BY <2>2, <2>4
<1>9. CASE UNCHANGED vars
  BY <1>3, <1>9 DEF vars, service
<1> QED
  BY <1>4, <1>5, <1>6, <1>7, <1>8, <1>9, StorageSteps

LEMMA StepGranted ==
  ASSUME TypeOK, OnlyGrantedCloudBuckets, [Next]_vars
  PROVE  OnlyGrantedCloudBuckets'
<1>1. ASSUME NEW t \in Thread, MakeBucket(t) \/ Unreachable(t)
      PROVE  OnlyGrantedCloudBuckets'
  BY <1>1 DEF MakeBucket, Unreachable, OnlyGrantedCloudBuckets, TypeOK
<1>2. ASSUME NEW s \in Service, GrantBucket(s) \/ Wipe(s)
      PROVE  OnlyGrantedCloudBuckets'
  BY <1>2 DEF GrantBucket, Wipe, OnlyGrantedCloudBuckets
<1>3. CASE UNCHANGED <<bucket, granted>>
  BY <1>3 DEF OnlyGrantedCloudBuckets
<1> QED
  BY <1>1, <1>2, <1>3, StorageSteps DEF Call, ReuseClient, MissingVariable, BuildClient,
       BucketExists, KeepClient, PutObject, GetObject, Refused, Restart, service, vars

THEOREM StorageInvariant == Spec => []StorageInv
<1>1. Init => StorageInv
  <2> SUFFICES ASSUME Init PROVE StorageInv
    OBVIOUS
  <2>1. TypeOK
    BY InitType
  <2>2. Looked /\ StaleOnlyIfOutlived /\ OnlyGrantedCloudBuckets
    BY HandlerAssumption
       DEF Init, Looked, StaleOnlyIfOutlived, Stale, OnlyGrantedCloudBuckets, Service
  <2>3. Making = {} /\ raceLosses = 0
    BY DEF Init, Making
  <2>4. RaceLeft
    BY <2>3, FS_EmptySet, MakingSizes DEF RaceLeft
  <2> QED
    BY <2>1, <2>2, <2>4 DEF StorageInv
<1>2. StorageInv /\ [Next]_vars => StorageInv'
  BY StepType, StepRace, StepStale, StepGranted DEF StorageInv
<1> QED
  BY <1>1, <1>2, PTL DEF Spec

\* However many threads build the client of one handler at once, and whichever
\* call to the service fails, a client without its bucket is one that outlived a
\* wipe.
THEOREM StaleClientsOutlivedAWipe == Spec => []StaleOnlyIfOutlived
<1>1. StorageInv => StaleOnlyIfOutlived
  BY DEF StorageInv
<1> QED
  BY <1>1, StorageInvariant, PTL

\* Whatever the environments hold, no bucket of a cloud service is made by the code.
THEOREM NoCloudBucketByItself == Spec => []OnlyGrantedCloudBuckets
<1>1. StorageInv => OnlyGrantedCloudBuckets
  BY DEF StorageInv
<1> QED
  BY <1>1, StorageInvariant, PTL

\* The race to create the bucket costs less than one call for each thread.
THEOREM RaceIsBounded == Spec => []RaceLossesBounded
<1>1. StorageInv => RaceLossesBounded
  <2> SUFFICES ASSUME StorageInv PROVE RaceLossesBounded
    OBVIOUS
  <2>1. raceLosses \in Nat /\ Making \in SUBSET Thread
    BY DEF StorageInv, TypeOK, Making
  <2>2. Cardinality(Making) \in Nat
    BY <2>1, MakingSizes
  <2> QED
    BY <2>1, <2>2, MakingSizes DEF StorageInv, RaceLeft, RaceLossesBounded
<1> QED
  BY <1>1, StorageInvariant, PTL

-----------------------------------------------------------------------------
(* The handlers implement ObjectStore.                                     *)

LEMMA InitRefines == Init => Store!Init
<1> SUFFICES ASSUME Init PROVE Store!Init
  OBVIOUS
<1>1. \A t \in Thread : PlaceOf(t) \in Service \X Path
  BY InitType, TargetIsService, HandlerAssumption DEF PlaceOf
<1> QED
  BY <1>1, HandlerAssumption DEF Init, Store!Init

LEMMA StepRefines ==
  ASSUME TypeOK, [Next]_vars
  PROVE  [Store!Next]_(Store!vars)
<1> DEFINE Place == [t \in Thread |-> PlaceOf(t)]
           Status == [t \in Thread |-> IF pc[t] \in Inside THEN "busy" ELSE pc[t]]
<1>1. UNCHANGED environ
  BY StorageSteps DEF Call, ReuseClient, MissingVariable, BuildClient, BucketExists,
       MakeBucket, KeepClient, PutObject, GetObject, Refused, Unreachable, GrantBucket,
       Wipe, Restart, vars
<1>2. Place' = Place
  BY <1>1 DEF PlaceOf, Target
<1> HIDE DEF Place
\* Inside a call, and outside of all calls, nothing shows.
<1>3. ASSUME NEW t \in Thread,
             \/ ReuseClient(t) \/ BuildClient(t) \/ BucketExists(t) \/ KeepClient(t)
             \/ MakeBucket(t) /\ Target(t) \notin bucket
      PROVE  UNCHANGED Store!vars
  <2>1. /\ object' = object
        /\ pc[t] \in Inside
        /\ \E l \in Inside : pc' = [pc EXCEPT ![t] = l]
    BY <1>3 DEF ReuseClient, BuildClient, BucketExists, KeepClient, MakeBucket, service, Goto
  <2>2. Status' = Status
    BY <2>1 DEF TypeOK
  <2> QED
    BY <1>2, <2>1, <2>2 DEF Store!vars, Place
<1>4. ASSUME NEW t \in Thread, Call(t)
      PROVE  Store!Call(t)
  <2>1. /\ object' = object
        /\ pc[t] \in Outside
        /\ pc' = [pc EXCEPT ![t] = "client"]
    BY <1>4 DEF Call, service, Goto
  <2>2. Status[t] # "busy" /\ Status' = [Status EXCEPT ![t] = "busy"]
    BY <2>1 DEF TypeOK
  <2> QED
    BY <1>2, <2>1, <2>2 DEF Store!Call, Place
<1>5. ASSUME NEW t \in Thread,
             \/ MissingVariable(t) \/ Refused(t) \/ Unreachable(t)
             \/ MakeBucket(t) /\ Target(t) \in bucket
      PROVE  Store!Raise(t)
  <2>1. pc[t] \in Inside /\ pc' = [pc EXCEPT ![t] = "raised"]
    BY <1>5 DEF MissingVariable, Refused, Unreachable, MakeBucket, Goto
  <2>2. Status[t] = "busy" /\ Status' = [Status EXCEPT ![t] = "raised"]
    BY <2>1 DEF TypeOK
  <2>3. object' \in IF t \in Writer THEN {object, object \cup {PlaceOf(t)}} ELSE {object}
    BY <1>5 DEF MissingVariable, Refused, Unreachable, MakeBucket, service
  <2> QED
    BY <1>2, <2>2, <2>3 DEF Store!Raise, Place
<1>6. ASSUME NEW t \in Thread, PutObject(t) \/ GetObject(t)
      PROVE  Store!Succeed(t)
  <2>1. pc[t] \in Inside /\ pc' = [pc EXCEPT ![t] = "ok"]
    BY <1>6 DEF PutObject, GetObject, Goto
  <2>2. Status[t] = "busy" /\ Status' = [Status EXCEPT ![t] = "ok"]
    BY <2>1 DEF TypeOK
  <2>3. IF t \in Writer THEN object' = object \cup {PlaceOf(t)}
                        ELSE PlaceOf(t) \in object /\ object' = object
    BY <1>6 DEF PutObject, GetObject, service
  <2> QED
    BY <1>2, <2>2, <2>3 DEF Store!Succeed, Place
<1>7. ASSUME NEW s \in Service, GrantBucket(s)
      PROVE  UNCHANGED Store!vars
  BY <1>2, <1>7 DEF GrantBucket, Store!vars, Place
<1>8. ASSUME NEW s \in Service, Wipe(s)
      PROVE  Store!Wipe
  BY <1>2, <1>8 DEF Wipe, Store!Wipe, Place
<1>9. ASSUME NEW h \in Handler, Restart(h)
      PROVE  Store!Forget
  <2> DEFINE gone == {t \in Thread : HandlerOf[t] = h}
  <2>1. Status' = [t \in Thread |-> IF t \in gone THEN "idle" ELSE Status[t]]
    BY <1>9 DEF Restart, TypeOK
  <2>2. gone \in SUBSET Thread /\ object' = object
    BY <1>9 DEF Restart, service
  <2> QED
    BY <1>2, <2>1, <2>2 DEF Store!Forget, Place
<1>10. CASE UNCHANGED vars
  BY <1>2, <1>10 DEF vars, service, Store!vars, Place
<1> QED
  BY <1>3, <1>4, <1>5, <1>6, <1>7, <1>8, <1>9, <1>10, StorageSteps DEF Store!Next

\* For any number of processes and threads, any environments and any faults, the
\* handlers are the object store that their callers count on.
THEOREM HandlersStoreObjects == Spec => StoresObjects
<1> QED
  BY InitRefines, StepRefines, StorageTypeCorrect, PTL DEF Spec, StoresObjects, Store!Spec
=============================================================================
