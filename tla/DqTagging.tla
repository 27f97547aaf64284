------------------------------ MODULE DqTagging ------------------------------
(***************************************************************************)
(* tag_dq_failures on every row there is: the staging query evaluates the  *)
(* rules against the clock, and evaluates them again when the pipeline's   *)
(* tables are refreshed later.                                             *)
(***************************************************************************)
EXTENDS DqRules

CONSTANT MaxNow  \* the last second a refresh happens

ASSUME MaxNowAssumption == MaxNow \in Nat

VARIABLES
  row,      \* a row of the staging query
  now,      \* the cluster's clock
  reasons   \* `_dq_failure_reasons`

vars == <<row, now, reasons>>

Init ==
  /\ row \in Row
  /\ now = 0
  /\ reasons = FailureReasons(row, now)

Refresh ==
  /\ now < MaxNow
  /\ now' \in now + 1 .. MaxNow
  /\ reasons' = FailureReasons(row, now')
  /\ UNCHANGED row

Next == Refresh

Spec == Init /\ [][Next]_vars

-----------------------------------------------------------------------------
\* A rule rejects a row exactly when no values of the row's missing columns
\* could satisfy it: missing values alone never make a row invalid, inaccurate
\* or inconsistent, and no missing value hides a violation that is certain.
RejectedIffHopeless ==
  \A d \in Dimension \ {"completeness"} :
     d \in reasons <=> \A c \in Completions(row) : ~Satisfies(d, c, now)

\* A row that was accepted is accepted by every later refresh: rows leave the
\* rejected table with time, never the silver table.
AcceptedForGood == [][reasons' \subseteq reasons]_vars

=============================================================================
