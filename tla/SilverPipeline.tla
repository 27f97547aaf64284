---------------------------- MODULE SilverPipeline ----------------------------
(***************************************************************************)
(* The silver flows (pipelines/silver): one streaming query reads what     *)
(* bronze has appended, drops repeated ids within a watermark, tags every  *)
(* row and appends it to the staging table; two more read staging and keep *)
(* the rows without and with failure reasons.                              *)
(*                                                                         *)
(* Spark is external.  What is modelled of it: a query handles its input   *)
(* in micro-batches of its own, each of them exactly once.  The watermark  *)
(* of a batch is the latest event time of the batches before it minus the  *)
(* delay.  dropDuplicatesWithinWatermark compares rows with the watermark  *)
(* of the batch before and drops those at or below it; the first row of an *)
(* id that has no state passes and leaves a state that expires the delay   *)
(* after the row's event time; a batch ends with the eviction of the       *)
(* states its own watermark has reached.  A missing event time is 0 to the *)
(* state and below no watermark.                                           *)
(***************************************************************************)
EXTENDS DqRules

CONSTANTS
  BronzeRow,  \* the rows bronze_recentchange ever holds
  Content,    \* BronzeRow -> Row: several rows may carry one event
  Delay,      \* the watermark delay, "2 hours"
  MaxNow,     \* bound on the clock
  MaxBatches  \* bound on the staging query's micro-batches

ASSUME PipelineAssumption ==
  /\ Content \in [BronzeRow -> Row]
  /\ \A r \in BronzeRow : Content[r].metaDt # 0 /\ Content[r].id # Null
  /\ Delay \in Nat \ {0}
  /\ {MaxNow, MaxBatches} \subseteq Nat

VARIABLES
  bronze,          \* the rows appended so far
  now,             \* the cluster's clock
  batches,         \* micro-batches the staging query has run
  batchOf,         \* the micro-batch that read a row, 0 before
  watermark,       \* the watermark of the next micro-batch
  lateWatermark,   \* the watermark of the one before
  expiry,          \* dedup state: when the state of an id expires, 0 for none
  staged,          \* the rows of the staging table
  reasons,         \* `_dq_failure_reasons` of the staged rows
  silverRead,      \* staged rows the silver query has read
  silver,          \* the silver table
  rejectedRead,    \* staged rows the rejected query has read
  rejected         \* the rejected table

stagingVars == <<batches, batchOf, watermark, lateWatermark, expiry, staged, reasons>>
tableVars == <<silverRead, silver, rejectedRead, rejected>>
vars == <<bronze, now, stagingVars, tableVars>>

IdOf(r) == Content[r].id
TimeOf(r) == Content[r].metaDt
StateTime(r) == IF TimeOf(r) = Null THEN 0 ELSE TimeOf(r)

EventIds == {IdOf(r) : r \in BronzeRow}

Consumed == {r \in BronzeRow : batchOf[r] # 0}

-----------------------------------------------------------------------------
Init ==
  /\ bronze = {} /\ now = 0
  /\ batches = 0 /\ batchOf = [r \in BronzeRow |-> 0]
  /\ watermark = 0 /\ lateWatermark = 0
  /\ expiry = [id \in EventIds |-> 0]
  /\ staged = {} /\ reasons = [r \in BronzeRow |-> {}]
  /\ silverRead = {} /\ silver = {} /\ rejectedRead = {} /\ rejected = {}

\* The bronze query appends a row of the raw layer, in any order.
BronzeAppend ==
  /\ \E r \in BronzeRow \ bronze : bronze' = bronze \cup {r}
  /\ UNCHANGED <<now, stagingVars, tableVars>>

Tick ==
  /\ now < MaxNow
  /\ now' = now + 1
  /\ UNCHANGED <<bronze, stagingVars, tableVars>>

-----------------------------------------------------------------------------
(* silver_recentchange_staging_py.                                         *)

\* Mutant of IsLate: the row is compared with the batch's own watermark.
IsLateEarly(r) == TimeOf(r) # Null /\ TimeOf(r) <= watermark

IsLate(r) == TimeOf(r) # Null /\ TimeOf(r) <= lateWatermark

\* What dropDuplicatesWithinWatermark lets pass of a batch: one row of every id
\* that has no state, whichever comes first.
Passes(batch, kept) ==
  LET timely == {r \in batch : ~IsLate(r) /\ expiry[IdOf(r)] = 0}
  IN  /\ kept \subseteq timely
      /\ {IdOf(r) : r \in kept} = {IdOf(r) : r \in timely}
      /\ \A r, s \in kept : IdOf(r) = IdOf(s) => r = s

Evict(expires) == [id \in EventIds |-> IF expires[id] <= watermark THEN 0 ELSE expires[id]]

\* Mutant of WithStates: ids are compared within a micro-batch only.
WithoutStates(kept) == expiry

\* The rows that passed leave a state of their id.
WithStates(kept) ==
  [id \in EventIds |->
     IF \E r \in kept : IdOf(r) = id
     THEN StateTime(CHOOSE r \in kept : IdOf(r) = id) + Delay
     ELSE expiry[id]]

LatestOf(times) == {t \in times : \A s \in times : s <= t}

\* Mutant of Advanced: the watermark follows the last batch.
AdvancedOrBack(batch) ==
  LET reached == {StateTime(r) - Delay : r \in batch}
  IN  IF batch = {} THEN {watermark} ELSE LatestOf(reached)

\* The watermark follows the latest event time of the batch, never backwards.
Advanced(batch) == LatestOf({watermark} \cup {StateTime(r) - Delay : r \in batch})

\* A micro-batch reads some of the unread rows; one without rows runs when only
\* the watermark has moved.
StagingBatch ==
  /\ batches < MaxBatches
  /\ \E batch \in SUBSET (bronze \ Consumed) :
        /\ batch # {} \/ watermark # lateWatermark
        /\ \E kept \in SUBSET batch :
              /\ Passes(batch, kept)
              /\ staged' = staged \cup kept
              /\ reasons' = [r \in BronzeRow |->
                               IF r \in kept THEN FailureReasons(Content[r], now) ELSE reasons[r]]
              /\ expiry' = Evict(WithStates(kept))
        /\ batchOf' = [r \in BronzeRow |-> IF r \in batch THEN batches + 1 ELSE batchOf[r]]
        /\ watermark' \in Advanced(batch)
  /\ batches' = batches + 1
  /\ lateWatermark' = watermark
  /\ UNCHANGED <<bronze, now, tableVars>>

-----------------------------------------------------------------------------
(* silver_recentchange_py and silver_recentchange_rejected_py.             *)

\* Mutant of ReadSilver: the rules are evaluated by the reader.
ReadSilverRetagging ==
  /\ silverRead # staged
  /\ silver' = silver \cup {r \in staged \ silverRead : FailureReasons(Content[r], now) = {}}
  /\ silverRead' = staged
  /\ UNCHANGED <<bronze, now, stagingVars, rejectedRead, rejected>>

ReadSilver ==
  /\ silverRead # staged
  /\ silver' = silver \cup {r \in staged \ silverRead : reasons[r] = {}}
  /\ silverRead' = staged
  /\ UNCHANGED <<bronze, now, stagingVars, rejectedRead, rejected>>

\* Mutant of ReadRejected: the query starts from the other query's progress.
ReadRejectedAfterSilver ==
  /\ rejectedRead # staged
  /\ rejected' = rejected \cup {r \in staged \ silverRead : reasons[r] # {}}
  /\ rejectedRead' = staged
  /\ UNCHANGED <<bronze, now, stagingVars, silverRead, silver>>

ReadRejected ==
  /\ rejectedRead # staged
  /\ rejected' = rejected \cup {r \in staged \ rejectedRead : reasons[r] # {}}
  /\ rejectedRead' = staged
  /\ UNCHANGED <<bronze, now, stagingVars, silverRead, silver>>

-----------------------------------------------------------------------------
Next == BronzeAppend \/ Tick \/ StagingBatch \/ ReadSilver \/ ReadRejected

Spec == Init /\ [][Next]_vars

\* The pipeline is run again and again, and a run drains every query.
FairSpec == Spec /\ WF_vars(StagingBatch) /\ WF_vars(ReadSilver) /\ WF_vars(ReadRejected)

-----------------------------------------------------------------------------
\* Every variable has its type, and a table holds only what its query has read.
TypeOK ==
  /\ bronze \subseteq BronzeRow
  /\ now \in Nat /\ batches \in Nat
  /\ batchOf \in [BronzeRow -> 0 .. batches]
  /\ watermark \in Nat /\ lateWatermark \in 0 .. watermark
  /\ expiry \in [EventIds -> Nat]
  /\ Consumed \subseteq bronze /\ staged \subseteq Consumed
  /\ reasons \in [BronzeRow -> SUBSET Dimension]
  /\ silverRead \subseteq staged /\ silver \subseteq silverRead
  /\ rejectedRead \subseteq staged /\ rejected \subseteq rejectedRead

\* Two staged rows of one id are further apart in event time than the delay.
\* In particular the copies of one event, which carry one time, are staged once,
\* although the state that filters them is evicted again and again.
SameIdFarApart ==
  \A r, s \in staged :
     (r # s /\ IdOf(r) = IdOf(s) /\ TimeOf(r) # Null /\ TimeOf(s) # Null)
        => (TimeOf(r) > TimeOf(s) + Delay \/ TimeOf(s) > TimeOf(r) + Delay)

\* A row that was read but not staged repeats a staged id, or a row later by the
\* delay or more was read two batches before it.  Rows of the same batch and of
\* the batch before never make a row late, whatever their order.
DroppedForAReason ==
  \A r \in Consumed \ staged :
     \/ \E s \in staged : IdOf(s) = IdOf(r)
     \/ /\ TimeOf(r) # Null
        /\ \E q \in Consumed :
              /\ batchOf[q] + 1 < batchOf[r]
              /\ TimeOf(q) # Null /\ TimeOf(q) >= TimeOf(r) + Delay

\* The two filters split the staging table: a row both queries have read is in
\* exactly one of the tables, although the queries run at different times.
RoutedOnce ==
  \A r \in silverRead \cap rejectedRead : r \in silver <=> r \notin rejected

\* Every staged row reaches a table.
StagedRowsAreRouted == \A r \in BronzeRow : (r \in staged) ~> (r \in silver \cup rejected)

-----------------------------------------------------------------------------
\* "`input_rows == valid_count + rejected_count` (P4), without exception"
\* (docs/SPEC-phase3-silver-cdf.md line 137; repeated ids are the one disclosed
\* exception): when everything is read, the id of every row is in one of the tables.
EveryIdIsRouted ==
  (bronze = Consumed /\ silverRead = staged /\ rejectedRead = staged)
     => {IdOf(r) : r \in bronze} \subseteq {IdOf(r) : r \in silver \cup rejected}
=============================================================================
