# wiki-cdc-streaming in TLA+

TLA+ modules for the pipeline of this repository (Wikipedia's SSE feed to raw
Parquet to Delta tables, and the scripts that configure and deploy it), the TLC
runs that check them and the theorems TLAPS proves about them. Paths below are relative to the repository's root;
`PROJECT.json` maps every definition to the lines it models.

## The system

```
Wikipedia SSE -> WikiEventsHandler -> producer (dedup cache) -> Pub/Sub topic
   -> consumer (RawEventBuffer, threads) -> raw/dt=/hour=/*.parquet
   -> bronze (Spark stream) -> silver staging (watermark dedup, DQ tags)
   -> silver_recentchange | silver_recentchange_rejected
```

| Part | State it keeps | Operations | What is hard | What makes it correct |
|---|---|---|---|---|
| Consumer, `src/consumer/main.py` | the buffer's list, its lock, the flush thread, a stop event | `add`, `flush`, `_write_batch`, the periodic flush, `run` | callbacks, flush thread and main thread share the list; acknowledged before written; writes that fail; Ctrl+C | no acknowledged event falls out of memory unless a failure dropped it; no event flushed twice; the buffer is bounded and drains |
| Messaging, `src/handlers/messaging/base.py` | topic, subscription, streaming pull | `ensure_topic`, `publish`, `subscribe` | at-least-once delivery, both processes create topic and subscription, a callback that raises | an event is published only into an existing subscription |
| Producer, `src/producer/main.py`, `dedup_cache.py` | FIFO dedup cache, counters | `run` | cache updated before the publish, restarts, replays | the cache never swallows an event that was not published; ids repeat only after `maxsize` others |
| SSE source, `wiki_events_handler.py`, `event_schema.py` | the backoff | `events`, `_consume_once`, `parse_recentchange_event` | drops at any step, backoff reset and cap | it always reconnects, after 1, 2, 4 ... 60 s |
| Storage backends, `src/handlers/storage/` | a client built on first use, the bucket | `write`, `read`, `_get_client`, `resolve_uri` | threads race to build the client and create the bucket; the client is never checked again | a failed call leaves nothing behind that makes later writes fail; a write that returns is where the readers look |
| Bronze, `pipelines/bronze/` | a checkpoint, a Delta table | one streaming query | files appear while it runs; fields missing in the schema | every raw row once |
| Silver staging, `silver_recentchange_staging.*` | watermark, dedup state, a Delta table | one streaming query | late rows, state eviction, null times | rows that repeat an id are dropped, other rows are not |
| Data quality, `dq_rules.py`, silver and rejected tables | none | `tag_dq_failures`, two filters | three-valued logic | each staged row reaches exactly one table |
| Cloud scripts, `scripts/cloud_s3.sh`, `cloud_gcs.sh` | `.env`, cloud resources | `up`, `down` | steps that fail half-way, failures the shell does not see, re-runs | `.env` names a service that exists with a live key; `down` undoes `up` |
| Spark rendering, `render_local_spark_config.py` | `spark-defaults.conf`, two pipeline specs | `main` | rendered once, read later, while the pipelines read `.env` themselves | Spark reads where the handlers write |
| Sitematrix fetch, `fetch_wiki_sitematrix.py`, `dim_wiki_reference.py` | snapshots, the dimension | fetch, write, load | fetches that overlap; a file name with a resolution of one second | each row is true for the time it names |
| Deploy, `deploy_databricks_job.py`, `databricks_jobs_handler.py` | the job's task, its runs | update, run-now | two deployments at once; calls with a lost answer | a run executes something that was deployed |
| Inspection scripts, logging, contracts | none | read, format | none | not modelled: no state and no concurrency |

The parts interact through the topic (producer to consumer), through the bucket
(consumer and sitematrix fetch to bronze) and through Delta tables (bronze to
silver); within the consumer process the threads share the buffer and the storage
client, and Pub/Sub's client calls back. Handlers, pipelines and the Spark
rendering each read `.env`, at different times; the cloud scripts edit it. The
deployed job runs the same pipelines on Databricks.

## Modules

| Module | Models or proves |
|---|---|
| `AtLeastOnce` | what the consumer promises, without its threads and buffer |
| `RawConsumer` | the consumer process, its subscription and the raw layer |
| `RawConsumerProofs` | theorems about `RawConsumer` |
| `RawConsumerRefinement` | the proof that `RawConsumer` implements `AtLeastOnce` |
| `EventIdCache` | `EventIdLruCache` as values and operations |
| `WikiProducer` | the producer process, the SSE source, topic setup |
| `WikiProducerProofs` | theorems about `EventIdCache` and `WikiProducer` |
| `StorageConfig` | what `.env` means to handlers, paths and Spark |
| `ObjectStore` | what the callers of a storage backend count on |
| `StorageClient` | the handlers under their threads; implements `ObjectStore` |
| `StorageClientProofs` | theorems about `StorageClient`, the refinement among them |
| `CloudEnv` | `.env`, the two clouds and the scripts between them |
| `LocalPipeline` | `CloudEnv` with the Spark rendering and pipeline runs |
| `LocalPipelineProofs` | theorems about `CloudEnv` and `LocalPipeline` |
| `CloudJob` | sitematrix fetches, deployments and the job's run |
| `CloudJobProofs` | theorems about `CloudJob` |
| `DqRules` | the rules of `dq_rules.py` as three-valued column expressions |
| `DqTagging` | the tags of any row, evaluated again as the clock advances |
| `DqTaggingProofs` | theorems about the rules |
| `SilverPipeline` | bronze appends, staging micro-batches, the split into two tables |
| `SilverPipelineProofs` | theorems about `SilverPipeline` |
| `MC*` | instances for TLC; each `.cfg` is one run |

An operator called `Mutant of X` in a comment is X with a plausible bug. No
specification uses it; `PROJECT.json` names the property that fails when it takes
X's place.

### RawConsumer and the code

`buffer` is `RawEventBuffer._events`; `batch[t]` is the list a thread took out of
it in `flush`, `written[t]` the partitions of that list it has written. `pc` says
where each thread is: Pub/Sub's callback threads (`Worker`), the daemon thread of
`_run_periodic_flush` (`Flusher`) and the main thread (`Main`). `stream` and
`callbackError` are the streaming pull that `subscribe` waits on.

| Code | Actions |
|---|---|
| `run`, `subscribe` (main thread) | `Start`, `Subscribe`, `Interrupt`, `ResultRaises`, `SetStopEvent`, `ProcessExit` |
| `_on_message`, `add` (callback threads) | `Deliver`, `Add`, `Ack`, `Raise` |
| `_run_periodic_flush` | `Tick`, `StopFlusher` |
| `flush`, `_write_batch` (any thread) | `TakeBatch`, `WritePartition`, `FailWrite`, `FinishFlush` |
| outside | `Kill` |

What runs under the buffer's lock is one step; every write and the acknowledgement
are steps of their own. `flush` returns to different places: to the callback
(which acknowledges), to the loop of the flush thread, or to the `finally` block.

`AtLeastOnce` has four sets: what the server owes, what is in memory, what is
stored and what failures dropped. `DeliversAtLeastOnce` maps the consumer to it: an
event in the buffer or in an unwritten partition is `held`, a taken batch leaves
nothing behind, and an acknowledgement needs an id that is accounted for.

### WikiProducer and the code

`Feed` is what Wikipedia sends: events by id, blank lines and malformed ones;
`live` is how much of it has been sent. After a connection ends, the next one
may start up to `MaxReplay` lines back. `hand` is the event the generator has
yielded, so the generator is suspended while it is set. `cache` is a record of
the deque and the set of `EventIdLruCache`. `accepted` and `received` are
history variables the properties refer to.

`Connect`, `ConnectFails`, `ConnectionEnds`, `ReadLine`, `Sleep` and `Resume` are
`WikiEventsHandler.events`; `Discard`, `Accept`, `Publish` and `PublishFails` are the
loop of `run`; `CreateTopic`, `CreateSubscription` and `ConsumerEnsuresTopic` are
the two processes in `ensure_topic`. `Die` is the end of the process and the loss
of its memory, after a failed publish or a kill at any point.

### SilverPipeline, DqRules and the code

A row is a record of the columns the rules and the deduplication read; `Content`
gives each bronze row its record, so several rows may carry one event.
`BronzeAppend` is the bronze stream, `StagingBatch` one micro-batch of
`silver_recentchange_staging_py` (watermark, deduplication, tagging, append),
`ReadSilver` and `ReadRejected` one micro-batch of each downstream query; every
query has progress of its own (`batchOf`, `silverRead`, `rejectedRead`) and `Tick`
moves the clock that `current_timestamp` reads.

Spark is not in the repository. Its part in the model follows the documented and
observable behaviour of `withWatermark` and `dropDuplicatesWithinWatermark`: the
watermark a row is compared with is one micro-batch old, states are evicted at the
end of a micro-batch by that batch's own watermark, and a missing event time is
never late.

Column expressions are three-valued: `AllOf` is `&`, `AnyOf` is `|`, `Given` a
comparison with a column that may be missing. `Satisfies` states the rules of the
specification document on rows without missing values, and `Completions` the
values a missing column could have had: the rules are checked against these two.

### StorageClient, StorageConfig and the code

`environ` is a process's `os.environ`, fixed at its start; `client` is the handler's
`_client`; `pc` says where in `write` or `read` a thread stands. `_get_client` is
`ReuseClient`, `MissingVariable`, `BuildClient`, `BucketExists`, `MakeBucket` and
`KeepClient`: between any two of them another thread of the process may run, since
the handler has no lock. `PutObject`, `GetObject` and `Refused` are the answers of the
service, `Unreachable` a request or an answer that is lost, so that a bucket or an
object may or may not be there although the call raised. `GrantBucket`, `Wipe` and
`Restart` are what happens around the handlers. `StorageConfig` holds the decisions
derived from `.env`: `ServiceOf` is the handler's (the endpoint decides, not the
backend's name), `Scheme` is `resolve_uri`'s, `SparkConf` the rendering's.

`ObjectStore` knows none of that: a call takes effect at one moment or raises, in
which case it may have taken effect. `StoresObjects` maps the handlers to it.

### CloudEnv, LocalPipeline and the code

`at` is the next command of the script that runs. Each command of `cloud_s3.sh` and
`cloud_gcs.sh` that changes something is one action; an existing resource makes it a
no-op where the script tests for one. `Break` ends a script there (`set -e` or
Ctrl+C), `Swallow` is a command with `|| true` that fails, and `S3KeyLost` a failing
`create-access-key`, which the shell does not see inside the here-string. `fine`,
`streak`, `halfEdit` and `torn` are history variables for the properties.

`Render` is `main` of `render_local_spark_config.py`, which may be interrupted
between its files; `Run` a `spark-pipelines run`, whose Python files resolve paths
from the `.env` of that moment, while the SQL variant of the dimension has the path
that was rendered. A run that cannot read one of its paths changes nothing.

### CloudJob and the code

`TakeTime`, `FetchSitematrix`, `WriteSnapshot` and `FetchRaises` are the steps of
`fetch_wiki_sitematrix.py`; `Close` is a wiki that closes meanwhile. `Refuse`,
`Confirm`, `UpdateJobDefinition`, `TriggerRun` and the two `...Raises` are
`deploy_databricks_job.py` and its handler: a call that raises may have taken
effect. `LoadDimension` is the job's run as far as the dimension goes: it is
recomputed from every snapshot. `updates` and `ran` are history variables.

## Runs

| Run | Checks | Shows |
|---|---|---|
| `consumer_safety` | `TypeOK`, `NoSilentLoss`, `FinalFlushKeepsAcked`, `NoEventCopied`, `BufferOverrunBounded`, `DeliversAtLeastOnce` | the buffer changes hands safely between its threads, with any one fault, and each step is one of at-least-once delivery |
| `consumer_liveness` | `BufferDrains`, `ServedEventReachesRaw`, `ShutdownCompletes` | with storage that works, events leave the buffer, also after a restart, and shutdown ends |
| `producer` | `TypeOK`, `CacheIsWindow`, `NoRepeatWithinWindow`, `SeenIsPublished`, `LossPerDeath`, `PublishedIsRetained`, `BackoffIsExponential`, `Reconnects` | the cache is a window, hides no unpublished event; the source reconnects |
| `dq_tagging` | `RejectedIffHopeless`, `AcceptedForGood` | the rules treat missing values as undecided; the clock only helps a row |
| `silver` | `TypeOK`, `SameIdFarApart`, `DroppedForAReason`, `RoutedOnce`, `StagedRowsAreRouted` | deduplication is safe under eviction, and the split is exact |
| `storage` | `TypeOK`, `StaleOnlyIfOutlived`, `OnlyGrantedCloudBuckets`, `RaceLossesBounded`, `StoresObjects`, `WritesGetThrough` | racing first uses and failures cost a bounded number of calls; a kept client has its bucket unless it lived through a wipe; writes made after the last fault get through |
| `local_pipeline` | `TypeOK`, `NameMatchesService`, `CloudKeyIsLive`, `FreshStart`, `ReadsWhatIsWritten`, `OnlyTwinsAreConfused` | however scripts break off, `.env` names a service with a live key, `down` and `up` start afresh, and Spark reads where the handlers write |
| `cloud_job` | `TypeOK`, `RowsAreTrue`, `KeyIsWikiAndTime`, `RunsWhatWasDeployed` | overlapping fetches keep the dimension true; overlapping deployments run only what was deployed |
| `stop_loses_acked` | `StoppedConsumerLostNothing` | finding 1 |
| `duplicates_across_flushes` | `NoDuplicateIdInRaw` | finding 2 |
| `flusher_dies` | `BufferDrains`, with one write that raises | finding 3 |
| `late_rows_vanish` | `EveryIdIsRouted` | finding 4 |

The first eight pass, the other four are violated.

### Bounds

- Consumer: three messages in two partitions, two of them with one id and one
  without a partition, two callback threads, `FlushSize` 2. Two threads that pass
  the size test together are the smallest case in which the buffer overruns, a
  batch of two partitions the smallest that can be half written. Four deliveries
  allow one redelivery, two starts one restart; one fault of any kind may happen
  anywhere. The liveness run has two messages, one restart, no failing write and no
  redelivery of a message that a callback still holds; four deliveries let
  both messages come again after a kill. About 1.1 million and 203 thousand states.
- Producer: three ids through a cache of two, so that ids leave it; one id sent
  twice; replays that reach three lines back, three connections that end, two runs.
  Backoff 1, 2, 3 has a value below, at and above the doubling of the cap.
- Tagging: all rows over two titles (one with a control character), three types
  (one invalid), two lengths, three times on two days, each column also missing.
- Silver: two copies of one event, two events of one id further apart than the
  delay, the later of them ahead of the clock, and a row without event time that
  breaks a rule; four micro-batches, enough for a state to be made, to expire and
  for a row to arrive after it. 88 thousand states.
- Storage: two threads of one process, enough to race for client and bucket, and a
  reader in another; seven pairs of environments, which cover each service, both
  ways in which name and endpoint disagree, and a missing key; two faults of any
  kind. 118 thousand states.
- Local pipeline: two access keys (symmetric) and two service accounts, so that
  each cloud can go up, down and up again; one failure or interruption anywhere.
  1.5 million states. The same with two failures (9 million states) holds too;
  the run keeps to one for its time.
- Cloud job: two fetches over two ticks with a wiki that may close between any two
  steps and a special one; three deployers, one without `--confirm`, two notebook
  paths. 2.8 million states.

Deadlock is not checked: the feed, the deliveries, the micro-batches, the faults
and the time are bounded, and a process that was stopped stays stopped.

### Fairness

- `RawConsumer`: weak fairness for each thread (the main thread, the flush thread,
  every callback, every flush), because the operating system schedules each of
  them; for the delivery of each message, because the server sends again what is
  not acknowledged. None for faults, Ctrl+C or starts.
- `WikiProducer`: weak fairness of the process's own steps. Nothing forces a
  connection to fail or to succeed; the connections that end are bounded by `MaxDrops`,
  which says that Wikipedia does not refuse for ever.
- `SilverPipeline`: weak fairness of the three queries: the pipeline is run again
  and again, and a run drains every query. None for arrivals and the clock.
- `StorageClient`: weak fairness for each thread's steps inside a call: the thread is
  scheduled, and a request is answered or raises. None for making a call: a raise ends
  the flush thread, and `run` too when it happens in a callback, so that nothing
  makes a thread write again. `WritesGetThrough` therefore speaks of the writes that are
  made. None for faults, for the operator or for restarts.

## Findings

1. **Ctrl+C loses acknowledged events** (`src/consumer/main.py:116`). The runbook
   promises a final flush; it covers the buffer and not the batch that the daemon
   flush thread holds, which dies with the interpreter.
2. **Repeated ids reach the raw files** (`src/consumer/main.py:55`). Deduplication
   looks at one batch; the phase 1 specification describes just that, "within the
   current buffer", and still calls it definitive and promises unique ids in raw.
3. **The flush thread dies on the first error** (`src/consumer/main.py:99`). After
   a write that raises nothing is flushed by time.
4. **Late rows are in neither table**
   (`pipelines/silver/silver_recentchange_staging.py:148`). The reconciliation
   invariant of the phase 3 specification excepts repeated ids only, but the
   deduplication operator also drops first copies that are late.

Divergences met while modelling that need no run to be seen:

- Completeness does not test `type` (`pipelines/silver/dq_rules.py:97`), though the
  phase 3 specification lists it (`docs/SPEC-phase3-silver-cdf.md:60`); the rules
  that read it evaluate to null.
- A triggered run "always executes what's on `main`, not a stale copy"
  (`src/handlers/deploy/databricks_jobs_handler.py:24`). Nothing in the repository
  updates the Git folder, so it runs what is checked out there.
- `create-access-key` runs in a here-string (`scripts/cloud_s3.sh:65`): when it fails,
  empty credentials are written and the script reports a new key.
- After `cloud_s3.sh down`, `.env` selects MinIO again (`docs/RUNBOOK.md:120`) with
  the deleted AWS key in it (`scripts/cloud_s3.sh:94`): MinIO refuses it until
  the key is edited by hand.
- `cloud_s3.sh up` with an existing access key ends well and leaves `.env` alone
  (`scripts/cloud_s3.sh:61`), where the runbook (`docs/RUNBOOK.md:96`) says that it
  selects S3.
- `EventIdLruCache` is called an LRU cache, by its name, by its docstring
  (`src/producer/dedup_cache.py:1`) and by the phase 1 specification
  (`docs/SPEC-phase1-ingestion.md:98`). It is a FIFO window: a repeat does not refresh
  its id (`src/producer/dedup_cache.py:22`), so an id that keeps coming is let through
  again after `maxsize` others. `CacheIsWindow` is the property it has.
- `wiki_code` is called the natural key of the dimension
  (`contracts/dim_wiki_reference.contract.yaml:19`), which keeps the rows of every
  snapshot: `KeyIsWikiAndTime` is the key it has.

## Proofs

TLAPS checks 171 lemmas and theorems in eight modules; `PROJECT.json` lists the results. They hold
for every value of the constants that satisfies the named assumptions, without
the bounds above.

- **Consumer.** `NoSilentLoss` and `FinalFlushKeepsAcked` follow from
  `LossInv`: dropping repeated ids leaves an event of every id in the buffer
  (`BufferKept`), an id a callback has added and not yet acknowledged is in memory,
  in the raw layer or counted as lost (`HeldKnown`), so is every acknowledged one
  (`AckedKnown`), and after the final flush nothing acknowledged is in the buffer
  alone (`FinalSettled`). `HeldKnown` is the strengthening: the acknowledgement
  comes after the append, so a property of acknowledged messages is not inductive
  by itself. Each flush step moves ids between three places; `IdsMove` proves that
  for all the steps at once. `BufferOverrunBounded` is inductive, given the types;
  `BufferHasAStaticBound` turns it into a bound by `FlushSize` and the number of threads.
- **Copies of an event.** `NoEventCopied` follows from `CopyInv`, in which a
  delivery takes at most one place: a worker about to add it (`Adding`), the
  buffer, one thread's batch, or the raw files. `Adding` is the
  strengthening: between `Deliver` and `Add` the delivery is in none of the other
  places, and its copy is still to come. The places in batches are pairs of thread and
  position, so that one finite set is counted and no sum over threads is needed.
- **Flushes can go on.** `FlushesCanGoOn` is the part of the consumer's liveness that is
  safety: whatever has happened, a thread inside a flush can write its next
  partition or end, and the waiting flush thread can wait on, flush or end. It needs
  `ProgressInv`: a batch under way has a partition for each event that is kept, and the
  flush thread has not sat out more than its interval. That these steps are taken in
  the end is left to TLC.
- **Refinement of the consumer.** `ImplementsAtLeastOnce` takes the invariants above
  and shows action by action that a step receives, acknowledges or settles, or
  changes nothing the abstract specification sees. `AtLeastOnceLosesNothing` proves of the
  abstract specification itself that nothing is lost silently. An acknowledgement is allowed
  because of `HeldKnown`; the failure of a flush is a `Settle` whose ids go to the
  account of failures.
- **Producer.** `CacheHoldsLastIds` and `RepeatsAreSpaced` need each other: that
  the deque is the window of the last accepted ids needs that they are distinct,
  and that repeats are spaced needs that the set is the window. `CacheAddSlides`
  proves both for the cache alone, and the invariant lifts them to the
  process. `SeenIsPublished` is inductive, given the types; `RetainedInv` adds to
  `PublishedIsRetained` how far `ensure_topic` has come at each point.
  `LossPerDeath` rests on `DeathInv`: only the event in hand can join the lost ones, by
  a death; an event the loop leaves behind was published, and one it discards has
  its id in the topic by `SeenIsPublished`. `BackoffDoubles` states `BackoffIsExponential` with a power
  defined by recursion on the naturals (`PowerOfTwo`), whose equations are derived
  from the induction principle in its set form (`NatIsInductive`).
  `LargeCacheForbidsRepeats`: with a cache as large as the set of ids, no run
  accepts an id twice.
- **Rules.** Each rule is characterised exactly: it is false if and only if no
  completion of the row satisfies the documented rule. One direction reads the
  violation off the columns that are present, the other builds the completion.
- **Silver.** `SameIdFarApart` rests on `Remembered`: a staged row is remembered
  by the state of its id until the lateness filter rejects whatever that state
  would have rejected. `DroppedForAReason` rests on `ReachedBefore`: each of the
  two watermarks was reached by a row of a batch that is old enough, and every
  state belongs to a staged row. `RoutedOnce` rests on `SplitInv`: a table is what its
  filter makes of the rows its query has read, since tags never change;
  `RowsReconcile` is the same as an equation of row counts, the form in which the
  phase 3 specification has it.

- **Storage.** `StorageInv` is `StaleOnlyIfOutlived`, `OnlyGrantedCloudBuckets`, what
  a thread that looked knows (`Looked`), and `RaceLeft`: calls lost so far plus
  threads about to make a bucket that is there already stay below the number of
  threads, because the one that made it is not among them. The refinement maps
  every call in progress to `busy`.
- **Local pipeline.** `.env` is only wrong between two edits, so each invariant says
  what holds at each label of a script. `NameInv` does so for backend and endpoint,
  `AwsKeyInv` and `GcsKeyInv` for the key, and six more for `FreshStart`: what a
  `down` without failures has already removed, and what an `up` after it has made.
  `ReadersAgree` is the lemma that the three readings of `.env` name one service.
- **Cloud job.** `RowInv` says of the response in hand, of each snapshot and of the
  dimension that its rows are true for their time: the time is taken before the
  response, so a wiki shown as open was open then. A snapshot holds one row per
  wiki, all of its own second. `DeployInv` says that the task is the path of the last
  update, and that a deployer about to start a run is among the updates.
- **Where the findings end.** Each finding has a theorem that bounds it. Finding 1: what
  a stop loses is the flush thread's batch and nothing else
  (`StopLosesFlushersBatchOnly`), and where no write raises, no event lacks a partition
  and nobody kills the process, nothing leaves memory unwritten at any other time
  (`FaultFreeLoss`). Finding 2: with an id for each event and one delivery of each, no two
  flushes write the same id (`OneDeliveryOneCopy`). Finding 3: under the assumptions of
  `FaultFreeLoss` the flush thread serves until `run` stops it
  (`FlusherServesToTheEnd`). Finding 4: as long as no row is overtaken by the delay,
  every id reaches a table (`TimelyIdsAreRouted`).

TLC checked `LossInv`, `CopyInv`, `NobodyIsStuck`, the step of
`StopLosesFlushersBatchOnly`, `DeathInv`, `DedupInv`, `DropInv`, `SplitInv`, and
what `RowsReconcile` and `TimelyIdsAreRouted` say, on the instances above before they
were proved.

Only model-checked: the six liveness properties (`BufferDrains`,
`ServedEventReachesRaw`, `ShutdownCompletes`, `Reconnects`, `StagedRowsAreRouted`,
`WritesGetThrough`), whose proofs need ENABLED, which the prover does not reach. Every
other property of a passing run is a theorem.

## Not modelled

- The content of events, Parquet and Delta files, logging, contracts, the mapping of
  Parquet fields to the bronze schema: tables of names, or functions of their input
  without state.
- The SQL variant of staging, which does not deduplicate at all, and NFC
  normalization, which changes text the rules do not tell apart.
- A read of the feed that hangs without an error: it cannot be told from a quiet
  feed.
- `cloud_pubsub.sh`, which sets variables of the messaging backend with the same
  helpers, and the lines of the Spark configuration that are the same for
  every `.env`.
- The inspection scripts, which query tables and print.

Assumed where the code leaves it open: wikis close and do not open again; one
operator runs the cloud scripts one after the other, with the project and region
set; the metadata of a wiki other than its being closed does not change.

Coarser than the code, on purpose: `S3SetEnv` makes the edits of `cloud_s3.sh:70-74` in
one step, so an interruption between two of them is not modelled (the endpoint, which
decides which service is meant, is a step of its own). A row's `_snapshot_fetched_at` has
microseconds and the file name seconds; `CloudJob` has one stamp in seconds for both, which
makes two fetches share a stamp more often than they do.

## Plan

The work left, with the statements worth making.

1. `Ingestion`: producer, topic and consumer composed, as an implementation of an
   abstract at-least-once channel from feed to raw layer, with the events
   without an id, which all have the id "", as an instance.
2. Proofs: that `Ingestion` implements that channel; the safety halves of the other
   liveness properties, as `FlushesCanGoOn` is for the consumer; the boundaries of the
   divergences in the scripts.
