------------------------------- MODULE DqRules -------------------------------
(***************************************************************************)
(* The row-wise data quality rules of pipelines/silver/dq_rules.py as the   *)
(* column expressions Spark evaluates: a comparison with a missing value   *)
(* is neither true nor false but Null, and when() names a dimension only   *)
(* when its rule is false.                                                 *)
(***************************************************************************)
EXTENDS Integers

CONSTANTS
  Null,
  Id, Title, Wiki, Type,  \* values of these columns
  Time,                   \* seconds: values of meta_dt, timestamp and _ingested_at
  Length,                 \* values of length.old
  ControlTitle,           \* the titles CONTROL_CHAR_PATTERN matches
  ValidType,              \* VALID_TYPES
  New,                    \* the type "new"
  DayLength,              \* seconds of a day: the session's time zone is UTC
  ClockSkew,              \* spark.wikicdc.clock_skew_tolerance_seconds
  LatencyLimit            \* spark.wikicdc.timeliness_watermark_seconds

ASSUME RulesAssumption ==
  /\ ControlTitle \subseteq Title /\ ControlTitle # Title
  /\ New \in ValidType /\ ValidType \subseteq Type /\ Type # {New}
  /\ Time \subseteq Nat /\ 0 \in Time /\ Length \subseteq Nat
  /\ DayLength \in Nat \ {0}
  /\ {ClockSkew, LatencyLimit} \subseteq Nat

ASSUME NullAssumption == Null \notin Id \cup Title \cup Wiki \cup Type \cup Int \cup BOOLEAN

DayOf(seconds) == seconds \div DayLength

Day == {DayOf(t) : t \in Time}

Row == [id : Id \cup {Null}, title : Title \cup {Null}, wiki : Wiki \cup {Null},
        type : Type \cup {Null}, metaDt : Time \cup {Null}, timestamp : Time \cup {Null},
        lengthOld : Length \cup {Null}, dt : Day \cup {Null}, ingestedAt : Time]

-----------------------------------------------------------------------------
(* Column expressions.                                                     *)

AllOf(truths) ==
  IF FALSE \in truths THEN FALSE ELSE IF Null \in truths THEN Null ELSE TRUE

AnyOf(truths) ==
  IF TRUE \in truths THEN TRUE ELSE IF Null \in truths THEN Null ELSE FALSE

\* A comparison that reads the column `value`.
Given(value, truth) == IF value = Null THEN Null ELSE truth

-----------------------------------------------------------------------------
(* The rules.                                                              *)

CompletenessOk(row) == AllOf({row.id # Null, row.title # Null, row.wiki # Null, row.metaDt # Null})

ValidityOk(row) ==
  AllOf({Given(row.type, row.type \in ValidType),
         Given(row.title, row.title \notin ControlTitle)})

LengthOldOk(row) ==
  AnyOf({Given(row.type, row.type # New), row.lengthOld = Null,
         Given(row.lengthOld, row.lengthOld = 0)})

\* Mutant of AccuracyOk: the comparison is the wrong way round.
AccuracyOkSwapped(row, now) ==
  AllOf({LengthOldOk(row), Given(row.timestamp, now <= row.timestamp + ClockSkew)})

AccuracyOk(row, now) ==
  AllOf({LengthOldOk(row), Given(row.timestamp, row.timestamp <= now + ClockSkew)})

ConsistencyOk(row) ==
  Given(row.dt, Given(row.timestamp, row.dt = DayOf(row.timestamp)))

Dimension == {"completeness", "validity", "accuracy", "consistency"}

RuleOk(dimension, row, now) ==
  CASE dimension = "completeness" -> CompletenessOk(row)
    [] dimension = "validity"     -> ValidityOk(row)
    [] dimension = "accuracy"     -> AccuracyOk(row, now)
    [] dimension = "consistency"  -> ConsistencyOk(row)

\* Mutant of FailureReasons: a rule that is not true names its dimension.
FailureReasonsUnlessTrue(row, now) == {d \in Dimension : RuleOk(d, row, now) # TRUE}

\* tag_dq_failures: `_dq_failure_reasons`.
FailureReasons(row, now) == {d \in Dimension : RuleOk(d, row, now) = FALSE}

\* tag_timeliness: `_is_late_arrival`.
IsLateArrival(row) == Given(row.metaDt, row.ingestedAt - row.metaDt > LatencyLimit)

-----------------------------------------------------------------------------
(* What the rules should say.                                              *)

\* The row with values for the columns that validity, accuracy and consistency
\* read and that are missing.  A missing `length_old` is a value of its own.
Completions(row) ==
  {c \in [title : Title, type : Type, timestamp : Time, dt : Day, lengthOld : {row.lengthOld}] :
     /\ row.title # Null => c.title = row.title
     /\ row.type # Null => c.type = row.type
     /\ row.timestamp # Null => c.timestamp = row.timestamp
     /\ row.dt # Null => c.dt = row.dt}

\* The rules of docs/SPEC-phase3-silver-cdf.md, section 5, on a completed row.
Satisfies(dimension, row, now) ==
  CASE dimension = "validity"     -> row.type \in ValidType /\ row.title \notin ControlTitle
    [] dimension = "accuracy"     -> /\ row.type = New => row.lengthOld \in {Null, 0}
                                     /\ row.timestamp <= now + ClockSkew
    [] dimension = "consistency"  -> row.dt = DayOf(row.timestamp)
=============================================================================
