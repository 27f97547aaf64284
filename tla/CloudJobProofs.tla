---------------------------- MODULE CloudJobProofs ----------------------------
(***************************************************************************)
(* Proofs about CloudJob: its types, what the rows of the dimension show,  *)
(* and which task a run executes.                                          *)
(***************************************************************************)
EXTENDS CloudJob, SequenceTheorems, TLAPS

USE JobAssumption DEF Second

LEMMA RecordsAreRows ==
  ASSUME NEW closed \in SUBSET Wiki, NEW time \in Second
  PROVE  Records(closed, time) \in SUBSET Row
<1>1. SUFFICES ASSUME NEW row \in Records(closed, time)
               PROVE  row \in Row
  OBVIOUS
<1>2. PICK w \in Wiki \ Special :
        row = [wiki_code |-> w, is_closed |-> w \in closed, fetched_at |-> time]
  BY DEF Records
<1>3. (w \in closed) \in BOOLEAN
  OBVIOUS
<1> QED
  BY <1>2, <1>3 DEF Row

LEMMA InitType == Init => TypeOK
  BY DEF Init, TypeOK

LEMMA StepType ==
  ASSUME TypeOK, [Next]_vars
  PROVE  TypeOK'
<1> USE DEF TypeOK
<1>1. CASE Tick
  BY <1>1 DEF Tick, fetch, deploy
<1>2. ASSUME NEW w \in Wiki, Close(w)
      PROVE  TypeOK'
  BY <1>2 DEF Close, fetch, deploy
<1>3. ASSUME NEW f \in Fetcher, TakeTime(f) \/ FetchSitematrix(f) \/ FetchRaises(f)
      PROVE  TypeOK'
  <2>1. CASE TakeTime(f)
    BY <2>1 DEF TakeTime, deploy
  <2>2. CASE FetchSitematrix(f)
    BY <2>2 DEF FetchSitematrix, deploy
  <2>3. CASE FetchRaises(f)
    BY <2>3 DEF FetchRaises, deploy
  <2> QED
    BY <1>3, <2>1, <2>2, <2>3
<1>4. ASSUME NEW f \in Fetcher, WriteSnapshot(f)
      PROVE  TypeOK'
  <2>1. Records(response[f], stamp[f]) \in SUBSET Row
    BY RecordsAreRows
  <2>2. snapshot' \in [Second -> SUBSET Row]
    BY <1>4, <2>1 DEF WriteSnapshot
  <2> QED
    BY <1>4, <2>2 DEF WriteSnapshot, deploy
<1>5. ASSUME NEW d \in Deployer, Refuse(d) \/ Confirm(d)
      PROVE  TypeOK'
  BY <1>5 DEF Refuse, Confirm, Goto, fetch
<1>6. ASSUME NEW d \in Deployer, UpdateJobDefinition(d) \/ UpdateRaises(d)
      PROVE  TypeOK'
  <2>1. task' \in NotebookPath \cup {ByHand} /\ updates' \in Seq(Deployer)
    <3>1. CASE SetTask(d)
      <4>1. task' = PathOf[d] /\ updates' = Append(updates, d)
        BY <3>1 DEF SetTask
      <4> QED
        BY <4>1, AppendProperties
    <3>2. CASE UNCHANGED <<task, updates>>
      BY <3>2
    <3> QED
      BY <1>6, <3>1, <3>2 DEF UpdateJobDefinition, UpdateRaises
  <2>2. deploying' \in [Deployer -> {"new", "refused", "update", "trigger", "done", "raised"}]
    BY <1>6 DEF UpdateJobDefinition, UpdateRaises, Goto
  <2> QED
    BY <1>6, <2>1, <2>2 DEF UpdateJobDefinition, UpdateRaises, fetch
<1>7. ASSUME NEW d \in Deployer, TriggerRun(d) \/ TriggerRaises(d)
      PROVE  TypeOK'
  <2>1. /\ ran' \in SUBSET [by : Deployer, task : NotebookPath \cup {ByHand}, after : Nat]
        /\ running' \in SUBSET Deployer
    BY <1>7, LenProperties DEF TriggerRun, TriggerRaises, StartRun
  <2>2. deploying' \in [Deployer -> {"new", "refused", "update", "trigger", "done", "raised"}]
    BY <1>7 DEF TriggerRun, TriggerRaises, Goto
  <2> QED
    BY <1>7, <2>1, <2>2 DEF TriggerRun, TriggerRaises, fetch
<1>8. ASSUME NEW d \in Deployer, LoadDimension(d)
      PROVE  TypeOK'
  <2>1. dimension' \in SUBSET Row
    BY <1>8 DEF LoadDimension
  <2> QED
    BY <1>8, <2>1 DEF LoadDimension, fetch
<1>9. CASE UNCHANGED vars
  BY <1>9 DEF vars, fetch, deploy
<1> QED
  BY <1>1, <1>2, <1>3, <1>4, <1>5, <1>6, <1>7, <1>8, <1>9
     DEF Next, FetchStep, DeployStep

\* Every variable keeps its type.
THEOREM JobTypeCorrect == Spec => []TypeOK
<1> QED
  BY InitType, StepType, PTL DEF Spec

-----------------------------------------------------------------------------
(* The rows.                                                               *)

\* What is true of one row, and of a set of rows.
RowIsTrue(row) ==
  /\ row.fetched_at <= now
  /\ row.is_closed => closedAt[row.wiki_code] # Never
  /\ ~row.is_closed => \/ closedAt[row.wiki_code] = Never
                       \/ closedAt[row.wiki_code] >= row.fetched_at

OneRowEach(rows) ==
  \A r1, r2 \in rows :
    r1.wiki_code = r2.wiki_code /\ r1.fetched_at = r2.fetched_at => r1 = r2

\* The time was taken before the response came: a wiki that is missing from the
\* response was closed after that time, or is open.
ResponseIsTrue(f) ==
  /\ fetching[f] \in {"fetch", "write"} => stamp[f] <= now
  /\ fetching[f] = "write" =>
       \A w \in Wiki :
         /\ w \in response[f] => closedAt[w] # Never
         /\ w \notin response[f] => closedAt[w] = Never \/ closedAt[w] >= stamp[f]

RowInv ==
  /\ \A f \in Fetcher : ResponseIsTrue(f)
  /\ \A s \in Second : \A row \in snapshot[s] : row.fetched_at = s /\ RowIsTrue(row)
  /\ \A s \in Second : OneRowEach(snapshot[s])
  /\ \A row \in dimension : RowIsTrue(row)
  /\ OneRowEach(dimension)

\* Time passes and wikis close: what was true of a row stays true.
LEMMA RowsStayTrue ==
  ASSUME TypeOK, TypeOK', NEW row \in Row, RowIsTrue(row),
         Tick \/ (\E w \in Wiki : Close(w)) \/ UNCHANGED <<now, closedAt>>
  PROVE  RowIsTrue(row)'
<1>1. row.wiki_code \in Wiki /\ row.fetched_at \in Nat
  BY DEF Row
<1>2. CASE Tick
  BY <1>1, <1>2 DEF Tick, RowIsTrue, TypeOK
<1>3. ASSUME NEW w \in Wiki, Close(w)
      PROVE  RowIsTrue(row)'
  <2>1. now' = now /\ now \in Nat /\ now # Never
    BY <1>3 DEF Close, TypeOK
  <2>2. CASE row.wiki_code = w
    <3>1. closedAt[w] = Never /\ closedAt'[w] = now
      BY <1>3 DEF Close, TypeOK
    <3> QED
      BY <1>1, <2>1, <2>2, <3>1 DEF RowIsTrue
  <2>3. CASE row.wiki_code # w
    <3>1. closedAt'[row.wiki_code] = closedAt[row.wiki_code]
      BY <1>1, <1>3, <2>3 DEF Close, TypeOK
    <3> QED
      BY <2>1, <3>1 DEF RowIsTrue
  <2> QED
    BY <2>2, <2>3
<1>4. CASE UNCHANGED <<now, closedAt>>
  BY <1>4 DEF RowIsTrue
<1> QED
  BY <1>2, <1>3, <1>4

LEMMA StepRows ==
  ASSUME TypeOK, TypeOK', RowInv, [Next]_vars
  PROVE  RowInv'
\* The steps that neither fetch nor load.
<1>1. ASSUME UNCHANGED <<fetching, stamp, response, snapshot, dimension>>,
             Tick \/ (\E w \in Wiki : Close(w)) \/ UNCHANGED <<now, closedAt>>
      PROVE  RowInv'
  <2>1. \A s \in Second : \A row \in snapshot[s] : row \in Row
    BY DEF TypeOK
  <2>2. \A row \in dimension : row \in Row
    BY DEF TypeOK
  <2>3. \A s \in Second : \A row \in snapshot'[s] : row.fetched_at = s /\ RowIsTrue(row)'
    BY <1>1, <2>1, RowsStayTrue DEF RowInv
  <2>4. \A row \in dimension' : RowIsTrue(row)'
    BY <1>1, <2>2, RowsStayTrue DEF RowInv
  <2>5. ASSUME NEW f \in Fetcher
        PROVE  ResponseIsTrue(f)'
    <3>1. ResponseIsTrue(f) /\ stamp[f] \in Nat /\ now \in Nat /\ now # Never
      BY DEF RowInv, TypeOK
    <3>2. CASE Tick
      BY <1>1, <3>1, <3>2 DEF Tick, ResponseIsTrue
    <3>3. ASSUME NEW w \in Wiki, Close(w)
          PROVE  ResponseIsTrue(f)'
      <4>1. /\ now' = now
            /\ closedAt[w] = Never
            /\ closedAt' = [closedAt EXCEPT ![w] = now]
            /\ closedAt \in [Wiki -> Second \cup {Never}]
        BY <3>3 DEF Close, TypeOK
      <4> QED
        BY <1>1, <3>1, <4>1 DEF ResponseIsTrue
    <3>4. CASE UNCHANGED <<now, closedAt>>
      BY <1>1, <3>1, <3>4 DEF ResponseIsTrue
    <3> QED
      BY <1>1, <3>2, <3>3, <3>4
  <2>6. (\A s \in Second : OneRowEach(snapshot'[s])) /\ OneRowEach(dimension')
    BY <1>1 DEF RowInv
  <2> QED
    BY <2>3, <2>4, <2>5, <2>6 DEF RowInv, OneRowEach
<1>2. ASSUME NEW f \in Fetcher, TakeTime(f) \/ FetchSitematrix(f) \/ FetchRaises(f)
      PROVE  RowInv'
  <2>1. UNCHANGED <<now, closedAt, snapshot, dimension>>
    BY <1>2 DEF TakeTime, FetchSitematrix, FetchRaises
  <2>2. ASSUME NEW g \in Fetcher
        PROVE  ResponseIsTrue(g)'
    <3>1. ResponseIsTrue(g) /\ now \in Nat
      BY DEF RowInv, TypeOK
    <3>2. CASE TakeTime(f)
      BY <2>1, <3>1, <3>2 DEF TakeTime, ResponseIsTrue, TypeOK
    <3>3. CASE FetchSitematrix(f)
      BY <2>1, <3>1, <3>3 DEF FetchSitematrix, ResponseIsTrue, TypeOK
    <3>4. CASE FetchRaises(f)
      BY <2>1, <3>1, <3>4 DEF FetchRaises, ResponseIsTrue, TypeOK
    <3> QED
      BY <1>2, <3>2, <3>3, <3>4
  <2> QED
    BY <2>1, <2>2 DEF RowInv, RowIsTrue, OneRowEach
<1>3. ASSUME NEW f \in Fetcher, WriteSnapshot(f)
      PROVE  RowInv'
  <2>1. /\ UNCHANGED <<now, closedAt, stamp, response, dimension>>
        /\ fetching[f] = "write"
        /\ fetching' = [fetching EXCEPT ![f] = "done"]
        /\ snapshot' = [snapshot EXCEPT ![stamp[f]] = Records(response[f], stamp[f])]
    BY <1>3 DEF WriteSnapshot
  <2>2. \A g \in Fetcher : ResponseIsTrue(g)'
    BY <2>1 DEF RowInv, ResponseIsTrue, TypeOK
  <2>3. ASSUME NEW row \in Records(response[f], stamp[f])
        PROVE  row.fetched_at = stamp[f] /\ RowIsTrue(row)
    <3>1. PICK w \in Wiki \ Special :
            row = [wiki_code |-> w, is_closed |-> w \in response[f], fetched_at |-> stamp[f]]
      BY DEF Records
    <3>2. /\ row.wiki_code = w /\ row.fetched_at = stamp[f]
          /\ row.is_closed <=> w \in response[f]
      BY <3>1
    <3>3. ResponseIsTrue(f)
      BY DEF RowInv
    <3> QED
      BY <2>1, <3>2, <3>3 DEF ResponseIsTrue, RowIsTrue
  <2>4. OneRowEach(Records(response[f], stamp[f]))
    BY DEF Records, OneRowEach
  <2>5. \A s \in Second :
          snapshot'[s] = IF s = stamp[f] THEN Records(response[f], stamp[f]) ELSE snapshot[s]
    BY <2>1 DEF TypeOK
  <2>6. \A s \in Second : \A row \in snapshot'[s] : row.fetched_at = s /\ RowIsTrue(row)
    BY <2>3, <2>5 DEF RowInv
  <2>7. \A s \in Second : OneRowEach(snapshot'[s])
    BY <2>4, <2>5 DEF RowInv
  <2> QED
    BY <2>1, <2>2, <2>6, <2>7 DEF RowInv, RowIsTrue, OneRowEach
<1>4. ASSUME NEW d \in Deployer, LoadDimension(d)
      PROVE  RowInv'
  <2>1. /\ UNCHANGED <<now, closedAt, fetching, stamp, response, snapshot>>
        /\ dimension' = UNION {snapshot[s] : s \in Second}
    BY <1>4 DEF LoadDimension, fetch
  <2>2. \A row \in dimension' : RowIsTrue(row)
    BY <2>1 DEF RowInv
  <2>3. ASSUME NEW r1 \in dimension', NEW r2 \in dimension',
               r1.wiki_code = r2.wiki_code, r1.fetched_at = r2.fetched_at
        PROVE  r1 = r2
    <3>1. PICK s \in Second : r1 \in snapshot[s] /\ r1.fetched_at = s
      BY <2>1 DEF RowInv
    <3>2. PICK s2 \in Second : r2 \in snapshot[s2] /\ r2.fetched_at = s2
      BY <2>1 DEF RowInv
    <3> QED
      BY <2>3, <3>1, <3>2 DEF RowInv, OneRowEach
  <2>4. OneRowEach(dimension')
    BY <2>3 DEF OneRowEach
  <2> QED
    BY <2>1, <2>2, <2>4 DEF RowInv, RowIsTrue, ResponseIsTrue, OneRowEach
<1>5. CASE Tick \/ \E w \in Wiki : Close(w)
  BY <1>1, <1>5 DEF Tick, Close, fetch
<1>6. ASSUME NEW d \in Deployer,
             \/ Refuse(d) \/ Confirm(d) \/ UpdateJobDefinition(d) \/ UpdateRaises(d)
             \/ TriggerRun(d) \/ TriggerRaises(d)
      PROVE  RowInv'
  BY <1>1, <1>6 DEF Refuse, Confirm, UpdateJobDefinition, UpdateRaises, TriggerRun,
       TriggerRaises, fetch
<1>7. CASE UNCHANGED vars
  BY <1>1, <1>7 DEF vars, fetch
<1> QED
  BY <1>2, <1>3, <1>4, <1>5, <1>6, <1>7 DEF Next, FetchStep, DeployStep

LEMMA RowInvariant == Spec => [](TypeOK /\ RowInv)
<1>1. Init => TypeOK /\ RowInv
  BY InitType DEF Init, RowInv, ResponseIsTrue, OneRowEach
<1>2. TypeOK /\ RowInv /\ [Next]_vars => (TypeOK /\ RowInv)'
  BY StepType, StepRows
<1> QED
  BY <1>1, <1>2, PTL DEF Spec

\* For any number of fetches, however they overlap and whenever wikis are closed.
THEOREM DimensionShowsTheTruth == Spec => []RowsAreTrue
<1>1. TypeOK /\ RowInv => RowsAreTrue
  BY DEF RowInv, RowIsTrue, RowsAreTrue
<1> QED
  BY <1>1, RowInvariant, PTL

\* A wiki has one row for each time in the dimension.
THEOREM WikiAndTimeIsAKey == Spec => []KeyIsWikiAndTime
<1>1. TypeOK /\ RowInv => KeyIsWikiAndTime
  BY DEF RowInv, OneRowEach, KeyIsWikiAndTime
<1> QED
  BY <1>1, RowInvariant, PTL

-----------------------------------------------------------------------------
(* The deployments.                                                        *)

Updated(d) == \E i \in 1 .. Len(updates) : updates[i] = d

DeployInv ==
  /\ \A d \in Deployer : deploying[d] \in {"update", "trigger"} => d \in Confirmed
  /\ \A d \in Deployer : deploying[d] = "trigger" => Updated(d)
  /\ Len(updates) > 0 => task = PathOf[updates[Len(updates)]]
  /\ \A run \in ran : run.after <= Len(updates)
  /\ RunsWhatWasDeployed

LEMMA StepDeploy ==
  ASSUME TypeOK, DeployInv, [Next]_vars
  PROVE  DeployInv'
<1>0. /\ Len(updates) \in Nat
      /\ deploying \in [Deployer -> {"new", "refused", "update", "trigger", "done", "raised"}]
      /\ \A run \in ran : run.after \in Nat
  BY LenProperties DEF TypeOK
<1>1. ASSUME NEW d \in Deployer, Refuse(d) \/ Confirm(d)
      PROVE  DeployInv'
  <2>1. UNCHANGED <<task, updates, ran>>
    BY <1>1 DEF Refuse, Confirm
  <2>2. \A e \in Deployer : deploying'[e] \in {"update", "trigger"} => e \in Confirmed
    BY <1>0, <1>1 DEF Refuse, Confirm, Goto, DeployInv
  <2>3. \A e \in Deployer : deploying'[e] = "trigger" => deploying[e] = "trigger"
    BY <1>0, <1>1 DEF Refuse, Confirm, Goto
  <2> QED
    BY <2>1, <2>2, <2>3 DEF DeployInv, Updated, RunsWhatWasDeployed
\* An update takes effect: the ones before it stay where they are.
<1>2. ASSUME NEW d \in Deployer, deploying[d] = "update", SetTask(d), UNCHANGED ran,
             \E label \in {"trigger", "raised"} : deploying' = [deploying EXCEPT ![d] = label]
      PROVE  DeployInv'
  <2>1. /\ updates' = Append(updates, d)
        /\ updates \in Seq(Deployer)
        /\ task' = PathOf[d]
    BY <1>2 DEF SetTask, TypeOK
  <2>2. /\ Len(updates') = Len(updates) + 1
        /\ updates'[Len(updates')] = d
        /\ \A i \in 1 .. Len(updates) : updates'[i] = updates[i]
    BY <2>1, AppendProperties
  <2>3. \A e \in Deployer : deploying'[e] \in {"update", "trigger"} => e \in Confirmed
    BY <1>0, <1>2 DEF DeployInv
  <2>4. ASSUME NEW e \in Deployer, deploying'[e] = "trigger"
        PROVE  Updated(e)'
    <3>1. CASE e = d
      <4>1. Len(updates') \in 1 .. Len(updates')
        BY <1>0, <2>2
      <4> QED
        BY <2>2, <3>1, <4>1 DEF Updated
    <3>2. CASE e # d
      <4>1. deploying[e] = "trigger"
        BY <1>0, <1>2, <2>4, <3>2
      <4>2. PICK i \in 1 .. Len(updates) : updates[i] = e
        BY <4>1 DEF DeployInv, Updated
      <4>3. i \in 1 .. Len(updates') /\ updates'[i] = e
        BY <1>0, <2>2, <4>2
      <4> QED
        BY <4>3 DEF Updated
    <3> QED
      BY <3>1, <3>2
  <2>5. task' = PathOf[updates'[Len(updates')]]
    BY <2>1, <2>2
  <2>6. \A run \in ran' : run.after <= Len(updates')
    BY <1>0, <1>2, <2>2 DEF DeployInv
  <2>7. ASSUME NEW run \in ran'
        PROVE  /\ run.by \in Confirmed
               /\ \E i \in 1 .. run.after : updates'[i] = run.by
               /\ run.task = PathOf[updates'[run.after]]
    <3>1. run \in ran /\ run.after \in Nat /\ run.after <= Len(updates)
      BY <1>0, <1>2, <2>7 DEF DeployInv
    <3>2. PICK i \in 1 .. run.after : updates[i] = run.by
      BY <3>1 DEF DeployInv, RunsWhatWasDeployed
    <3>3. i \in 1 .. Len(updates) /\ run.after \in 1 .. Len(updates)
      BY <1>0, <3>1, <3>2
    <3> QED
      BY <2>2, <3>1, <3>2, <3>3 DEF DeployInv, RunsWhatWasDeployed
  <2> QED
    BY <2>3, <2>4, <2>5, <2>6, <2>7 DEF DeployInv, RunsWhatWasDeployed
<1>3. ASSUME NEW d \in Deployer, UpdateJobDefinition(d)
      PROVE  DeployInv'
  BY <1>2, <1>3 DEF UpdateJobDefinition, Goto
\* A deployment ends, and its run may start.
<1>4. ASSUME NEW d \in Deployer, UNCHANGED <<task, updates>>,
             \E label \in {"done", "raised"} : deploying' = [deploying EXCEPT ![d] = label],
             \/ deploying[d] = "trigger" /\ StartRun(d)
             \/ ran' = ran
      PROVE  DeployInv'
  <2>1. \A e \in Deployer : deploying'[e] \in {"update", "trigger"} => deploying'[e] = deploying[e]
    BY <1>0, <1>4
  <2>2. ASSUME NEW run \in ran', run \notin ran
        PROVE  /\ run.after = Len(updates)
               /\ run.by \in Confirmed
               /\ \E i \in 1 .. run.after : updates[i] = run.by
               /\ run.task = PathOf[updates[run.after]]
    <3>1. /\ run.by = d /\ run.task = task /\ run.after = Len(updates)
          /\ deploying[d] = "trigger"
      BY <1>4, <2>2 DEF StartRun
    <3>2. PICK i \in 1 .. Len(updates) : updates[i] = d
      BY <3>1 DEF DeployInv, Updated
    <3>3. Len(updates) > 0
      BY <1>0, <3>2
    <3> QED
      BY <3>1, <3>2, <3>3 DEF DeployInv
  <2>3. \A run \in ran' : run.after <= Len(updates)
    BY <1>0, <2>2 DEF DeployInv
  <2>4. RunsWhatWasDeployed'
    BY <1>4, <2>2 DEF DeployInv, RunsWhatWasDeployed
  <2> QED
    BY <1>4, <2>1, <2>3, <2>4 DEF DeployInv, Updated
<1>5. ASSUME NEW d \in Deployer, UpdateRaises(d)
      PROVE  DeployInv'
  <2>1. CASE SetTask(d)
    BY <1>2, <1>5, <2>1 DEF UpdateRaises, Goto
  <2>2. CASE UNCHANGED <<task, updates>>
    BY <1>4, <1>5, <2>2 DEF UpdateRaises, Goto
  <2> QED
    BY <1>5, <2>1, <2>2 DEF UpdateRaises
<1>6. ASSUME NEW d \in Deployer, TriggerRun(d) \/ TriggerRaises(d)
      PROVE  DeployInv'
  <2>1. /\ UNCHANGED <<task, updates>>
        /\ deploying[d] = "trigger"
        /\ StartRun(d) \/ ran' = ran
        /\ \E label \in {"done", "raised"} : deploying' = [deploying EXCEPT ![d] = label]
    BY <1>6 DEF TriggerRun, TriggerRaises, Goto
  <2> QED
    BY <1>4, <2>1
<1>7. CASE UNCHANGED <<deploying, task, updates, ran>>
  BY <1>7 DEF DeployInv, Updated, RunsWhatWasDeployed
<1> QED
  BY <1>1, <1>3, <1>5, <1>6, <1>7
     DEF Next, FetchStep, DeployStep, Tick, Close, TakeTime, FetchSitematrix, WriteSnapshot,
         FetchRaises, LoadDimension, deploy, vars

\* For any number of deployments at once, whatever of them fails and whichever
\* answers are lost.
THEOREM DeploymentsRunWhatTheyDeploy == Spec => []RunsWhatWasDeployed
<1>1. Init => DeployInv
  BY DEF Init, DeployInv, RunsWhatWasDeployed
<1>2. TypeOK /\ DeployInv /\ [Next]_vars => DeployInv'
  BY StepDeploy
<1>3. DeployInv => RunsWhatWasDeployed
  BY DEF DeployInv
<1> QED
  BY <1>1, <1>2, <1>3, JobTypeCorrect, PTL DEF Spec
=============================================================================
