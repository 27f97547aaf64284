-------------------------------- MODULE CloudJob --------------------------------
(***************************************************************************)
(* The pipeline in the cloud: fetch_wiki_sitematrix.py puts snapshots of   *)
(* the wikis' metadata into the bucket, deploy_databricks_job.py points a  *)
(* Databricks job at the code and starts it, and the job's run loads       *)
(* bronze_dim_wiki_reference from all the snapshots.  Either script may be *)
(* run by several people, or CI and a person, at the same time.            *)
(*                                                                         *)
(* The sitematrix API, the Jobs API and the Git folder are code outside    *)
(* the repository.                                                         *)
(***************************************************************************)
EXTENDS Naturals, Sequences

CONSTANTS
  Wiki,         \* wikis, by wiki_code
  Special,      \* those in the "specials" section
  Fetcher,      \* runs of fetch_wiki_sitematrix.py
  Deployer,     \* runs of deploy_databricks_job.py, by hand or by CI
  Confirmed,    \* those given --confirm
  NotebookPath, \* values of DATABRICKS_NOTEBOOK_PATH
  PathOf,       \* Deployer -> NotebookPath
  ByHand,       \* the task that the job was created with
  Never,        \* later than any time
  MaxTime       \* bound: seconds that pass

ASSUME JobAssumption ==
  /\ Special \subseteq Wiki
  /\ Confirmed \subseteq Deployer
  /\ PathOf \in [Deployer -> NotebookPath]
  /\ ByHand \notin NotebookPath
  /\ MaxTime \in Nat
  /\ Never \notin Nat

Second == 0 .. MaxTime

\* A row of a snapshot, as far as it can change: "closed" in site.
Row == [wiki_code : Wiki \ Special, is_closed : BOOLEAN, fetched_at : Second]

VARIABLES
  now,        \* the time, in seconds
  closedAt,   \* when each wiki was closed
  fetching,   \* where each fetcher stands
  stamp,      \* `now` of each fetcher
  response,   \* the closed wikis that its response shows
  snapshot,   \* the rows in the file of each second, {} if there is no such file
  dimension,  \* bronze_dim_wiki_reference
  deploying,  \* where each deployer stands
  task,       \* the notebook path of the job's task
  running,    \* the deployers whose run has not loaded the dimension yet
  updates,    \* history: the deployers in the order in which they set the task
  ran         \* history: the runs: who started it, its task, the updates before it

fetch == <<fetching, stamp, response, snapshot>>
deploy == <<deploying, task, running, updates, ran>>
vars == <<now, closedAt, fetch, dimension, deploy>>

Init ==
  /\ now = 0
  /\ closedAt = [w \in Wiki |-> Never]
  /\ fetching = [f \in Fetcher |-> "new"]
  /\ stamp = [f \in Fetcher |-> 0]
  /\ response = [f \in Fetcher |-> {}]
  /\ snapshot = [s \in Second |-> {}]
  /\ dimension = {}
  /\ deploying = [d \in Deployer |-> "new"]
  /\ task = ByHand
  /\ running = {}
  /\ updates = <<>>
  /\ ran = {}

-----------------------------------------------------------------------------
(* The world.                                                              *)

Tick ==
  /\ now < MaxTime
  /\ now' = now + 1
  /\ UNCHANGED <<closedAt, fetch, dimension, deploy>>

Close(w) ==
  /\ closedAt[w] = Never
  /\ closedAt' = [closedAt EXCEPT ![w] = now]
  /\ UNCHANGED <<now, fetch, dimension, deploy>>

-----------------------------------------------------------------------------
(* fetch_wiki_sitematrix.py: the time is taken first, then the matrix.     *)

TakeTime(f) ==
  /\ fetching[f] = "new"
  /\ fetching' = [fetching EXCEPT ![f] = "fetch"]
  /\ stamp' = [stamp EXCEPT ![f] = now]
  /\ UNCHANGED <<now, closedAt, response, snapshot, dimension, deploy>>

\* The API answers with the wikis as they are now.
FetchSitematrix(f) ==
  /\ fetching[f] = "fetch"
  /\ fetching' = [fetching EXCEPT ![f] = "write"]
  /\ response' = [response EXCEPT ![f] = {w \in Wiki : closedAt[w] # Never}]
  /\ UNCHANGED <<now, closedAt, stamp, snapshot, dimension, deploy>>

\* Mutant of Records: the specials are read like the languages.
RecordsWithSpecials(closed, time) ==
  {[wiki_code |-> w, is_closed |-> w \in closed, fetched_at |-> time] : w \in Wiki}

\* _parse_sitematrix: one row per site of each language, none for "specials".
Records(closed, time) ==
  {[wiki_code |-> w, is_closed |-> w \in closed, fetched_at |-> time] : w \in Wiki \ Special}

\* Mutant of WriteSnapshot: the time is taken when the file is written.
WriteStampedNow(f) ==
  /\ fetching[f] = "write"
  /\ fetching' = [fetching EXCEPT ![f] = "done"]
  /\ snapshot' = [snapshot EXCEPT ![now] = Records(response[f], now)]
  /\ UNCHANGED <<now, closedAt, stamp, response, dimension, deploy>>

\* Mutant of WriteSnapshot: the rows are added to those that are there.
WriteAppends(f) ==
  /\ fetching[f] = "write"
  /\ fetching' = [fetching EXCEPT ![f] = "done"]
  /\ snapshot' = [snapshot EXCEPT ![stamp[f]] = @ \cup Records(response[f], stamp[f])]
  /\ UNCHANGED <<now, closedAt, stamp, response, dimension, deploy>>

\* The file is named by the second, so the last of two in one second stays.
WriteSnapshot(f) ==
  /\ fetching[f] = "write"
  /\ fetching' = [fetching EXCEPT ![f] = "done"]
  /\ snapshot' = [snapshot EXCEPT ![stamp[f]] = Records(response[f], stamp[f])]
  /\ UNCHANGED <<now, closedAt, stamp, response, dimension, deploy>>

\* raise_for_status, or a write that raises before its object is stored.
FetchRaises(f) ==
  /\ fetching[f] \in {"fetch", "write"}
  /\ fetching' = [fetching EXCEPT ![f] = "raised"]
  /\ UNCHANGED <<now, closedAt, stamp, response, snapshot, dimension, deploy>>

-----------------------------------------------------------------------------
(* deploy_databricks_job.py.                                               *)

Goto(d, label) == deploying' = [deploying EXCEPT ![d] = label]

\* Without --confirm nothing is read and nothing is sent.
Refuse(d) ==
  /\ deploying[d] = "new"
  /\ d \notin Confirmed
  /\ Goto(d, "refused")
  /\ UNCHANGED <<now, closedAt, fetch, dimension, task, running, updates, ran>>

Confirm(d) ==
  /\ deploying[d] = "new"
  /\ d \in Confirmed
  /\ Goto(d, "update")
  /\ UNCHANGED <<now, closedAt, fetch, dimension, task, running, updates, ran>>

\* jobs/update takes effect at the service.
SetTask(d) ==
  /\ task' = PathOf[d]
  /\ updates' = Append(updates, d)

UpdateJobDefinition(d) ==
  /\ deploying[d] = "update"
  /\ SetTask(d)
  /\ Goto(d, "trigger")
  /\ UNCHANGED <<now, closedAt, fetch, dimension, running, ran>>

\* Mutant of UpdateRaises: the status of the response is not looked at.
UpdateUnchecked(d) ==
  /\ deploying[d] = "update"
  /\ UNCHANGED <<task, updates>>
  /\ Goto(d, "trigger")
  /\ UNCHANGED <<now, closedAt, fetch, dimension, running, ran>>

\* An error status, or no answer in time: the job may have been updated.  The
\* script ends, and nothing is started.
UpdateRaises(d) ==
  /\ deploying[d] = "update"
  /\ SetTask(d) \/ UNCHANGED <<task, updates>>
  /\ Goto(d, "raised")
  /\ UNCHANGED <<now, closedAt, fetch, dimension, running, ran>>

\* jobs/run-now takes effect: a run of the task of this moment, whoever set it.
StartRun(d) ==
  /\ ran' = ran \cup {[by |-> d, task |-> task, after |-> Len(updates)]}
  /\ running' = running \cup {d}

TriggerRun(d) ==
  /\ deploying[d] = "trigger"
  /\ StartRun(d)
  /\ Goto(d, "done")
  /\ UNCHANGED <<now, closedAt, fetch, dimension, task, updates>>

\* The run may have started although the script ends with an error.
TriggerRaises(d) ==
  /\ deploying[d] = "trigger"
  /\ StartRun(d) \/ UNCHANGED <<running, ran>>
  /\ Goto(d, "raised")
  /\ UNCHANGED <<now, closedAt, fetch, dimension, task, updates>>

-----------------------------------------------------------------------------
\* dim_wiki_reference.py: a run recomputes the dimension, from every snapshot
\* that is under the path.
LoadDimension(d) ==
  /\ d \in running
  /\ dimension' = UNION {snapshot[s] : s \in Second}
  /\ running' = running \ {d}
  /\ UNCHANGED <<now, closedAt, fetch, deploying, task, updates, ran>>

-----------------------------------------------------------------------------
FetchStep(f) == TakeTime(f) \/ FetchSitematrix(f) \/ WriteSnapshot(f) \/ FetchRaises(f)

DeployStep(d) ==
  \/ Refuse(d) \/ Confirm(d)
  \/ UpdateJobDefinition(d) \/ UpdateRaises(d) \/ TriggerRun(d) \/ TriggerRaises(d)
  \/ LoadDimension(d)

Next ==
  \/ Tick
  \/ \E w \in Wiki : Close(w)
  \/ \E f \in Fetcher : FetchStep(f)
  \/ \E d \in Deployer : DeployStep(d)

Spec == Init /\ [][Next]_vars

-----------------------------------------------------------------------------
\* Every variable has its type.
TypeOK ==
  /\ now \in Second
  /\ closedAt \in [Wiki -> Second \cup {Never}]
  /\ fetching \in [Fetcher -> {"new", "fetch", "write", "done", "raised"}]
  /\ stamp \in [Fetcher -> Second]
  /\ response \in [Fetcher -> SUBSET Wiki]
  /\ snapshot \in [Second -> SUBSET Row]
  /\ dimension \in SUBSET Row
  /\ deploying \in [Deployer -> {"new", "refused", "update", "trigger", "done", "raised"}]
  /\ task \in NotebookPath \cup {ByHand}
  /\ running \in SUBSET Deployer
  /\ updates \in Seq(Deployer)
  /\ ran \in SUBSET [by : Deployer, task : NotebookPath \cup {ByHand}, after : Nat]

\* A row shows its wiki as it was at _snapshot_fetched_at or later, and never as
\* it was not yet: the newest row of a wiki can be trusted for the time it names,
\* however slowly or in which order the snapshots were fetched and written.
RowsAreTrue ==
  \A row \in dimension :
    LET since == closedAt[row.wiki_code]
    IN /\ row.is_closed => since # Never
       /\ ~row.is_closed => since = Never \/ since >= row.fetched_at

\* wiki_code alone is no key of the dimension, which keeps the rows of every
\* snapshot; with the time of the snapshot it is one, also when two fetches
\* fall into one second.
KeyIsWikiAndTime ==
  \A r1, r2 \in dimension :
    r1.wiki_code = r2.wiki_code /\ r1.fetched_at = r2.fetched_at => r1 = r2

\* Deployments are two calls without a lock between them.  A run is started only
\* by one that was confirmed and whose own update took effect; it runs the path
\* of that one or of one that was deployed after it, and never the task that was
\* there before.
RunsWhatWasDeployed ==
  \A run \in ran :
    /\ run.by \in Confirmed
    /\ \E i \in 1 .. run.after : updates[i] = run.by
    /\ run.task = PathOf[updates[run.after]]
=============================================================================
