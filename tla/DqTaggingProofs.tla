---------------------------- MODULE DqTaggingProofs ----------------------------
(***************************************************************************)
(* Theorems about the rules of DqRules and their re-evaluation, for all     *)
(* values of the columns, with days and tolerances of any length.          *)
(***************************************************************************)
EXTENDS DqTagging, TLAPS

\* What the columns of a row may hold, and what they may be completed with.
LEMMA Columns ==
  ASSUME NEW r \in Row
  PROVE  /\ r.title \in Title \cup {Null} /\ r.type \in Type \cup {Null}
         /\ r.timestamp \in Time \cup {Null} /\ r.dt \in Day \cup {Null}
         /\ r.lengthOld \in Length \cup {Null}
BY DEF Row

LEMMA NullIsNoValue ==
  /\ Null # TRUE /\ Null # FALSE
  /\ Null \notin Title /\ Null \notin Type /\ Null \notin Time /\ Null \notin Length /\ Null \notin Int
<1>1. Null \notin Title /\ Null \notin Type /\ Null \notin Int /\ Null \notin BOOLEAN
  BY NullAssumption
<1>2. Time \subseteq Int /\ Length \subseteq Int
  BY RulesAssumption
<1> QED
  BY <1>1, <1>2

\* A conjunction is false when one side is, whatever the other side lacks.
LEMMA AllOfTwo ==
  ASSUME NEW a, NEW b
  PROVE  AllOf({a, b}) = FALSE <=> a = FALSE \/ b = FALSE
<1>1. Null # FALSE
  BY NullIsNoValue
<1> QED
  BY <1>1 DEF AllOf

LEMMA GivenFalse ==
  ASSUME NEW value, NEW truth
  PROVE  Given(value, truth) = FALSE <=> value # Null /\ truth = FALSE
<1>1. Null # FALSE
  BY NullIsNoValue
<1> QED
  BY <1>1 DEF Given

LEMMA DaysAreDays == \A t \in Time : DayOf(t) \in Day /\ DayOf(t) \in Int
<1>1. Time \subseteq Nat /\ DayLength \in Nat \ {0}
  BY RulesAssumption
<1> QED
  BY <1>1 DEF DayOf, Day

\* A completion is any choice of values for the missing columns.
LEMMA CompletionExists ==
  ASSUME NEW r \in Row, NEW title \in Title, NEW type \in Type, NEW time \in Time, NEW day \in Day,
         r.title # Null => title = r.title, r.type # Null => type = r.type,
         r.timestamp # Null => time = r.timestamp, r.dt # Null => day = r.dt
  PROVE  [title |-> title, type |-> type, timestamp |-> time, dt |-> day,
          lengthOld |-> r.lengthOld] \in Completions(r)
BY DEF Completions

\* Some values for the columns a dimension does not read.
LEMMA AnyValues ==
  ASSUME NEW r \in Row
  PROVE  /\ \E title \in Title : r.title # Null => title = r.title
         /\ \E type \in Type : r.type # Null => type = r.type
         /\ \E time \in Time : r.timestamp # Null => time = r.timestamp
         /\ \E day \in Day : r.dt # Null => day = r.dt
<1>1. 0 \in Time /\ New \in Type /\ \E title \in Title : title \notin ControlTitle
  BY RulesAssumption
<1>2. DayOf(0) \in Day
  BY <1>1, DaysAreDays
<1> QED
  BY <1>1, <1>2, Columns

-----------------------------------------------------------------------------
(* A rule is false exactly for the rows that no completion satisfies.      *)

LEMMA ValidityExact ==
  ASSUME NEW r \in Row, NEW n \in Nat
  PROVE  ValidityOk(r) = FALSE <=> \A c \in Completions(r) : ~Satisfies("validity", c, n)
<1>1. ValidityOk(r) = FALSE <=> \/ r.type # Null /\ r.type \notin ValidType
                                \/ r.title # Null /\ r.title \in ControlTitle
  <2>1. Given(r.type, r.type \in ValidType) = FALSE
           <=> r.type # Null /\ (r.type \in ValidType) = FALSE
    BY GivenFalse
  <2>2. Given(r.title, r.title \notin ControlTitle) = FALSE
           <=> r.title # Null /\ (r.title \notin ControlTitle) = FALSE
    BY GivenFalse
  <2>3. /\ (r.type \in ValidType) = FALSE <=> r.type \notin ValidType
        /\ (r.title \notin ControlTitle) = FALSE <=> r.title \in ControlTitle
    OBVIOUS
  <2>4. ValidityOk(r) = FALSE <=> \/ Given(r.type, r.type \in ValidType) = FALSE
                                  \/ Given(r.title, r.title \notin ControlTitle) = FALSE
    BY AllOfTwo DEF ValidityOk
  <2> QED
    BY <2>1, <2>2, <2>3, <2>4
<1>2. \A c : Satisfies("validity", c, n) <=> c.type \in ValidType /\ c.title \notin ControlTitle
  BY DEF Satisfies
<1>3. ASSUME ValidityOk(r) = FALSE, NEW c \in Completions(r)
      PROVE  ~Satisfies("validity", c, n)
  BY <1>1, <1>2, <1>3 DEF Completions
<1>4. ASSUME ValidityOk(r) # FALSE
      PROVE  \E c \in Completions(r) : Satisfies("validity", c, n)
  <2>1. PICK title \in Title : title \notin ControlTitle /\ (r.title # Null => title = r.title)
    BY <1>1, <1>4, RulesAssumption, Columns
  <2>2. PICK type \in Type : type \in ValidType /\ (r.type # Null => type = r.type)
    BY <1>1, <1>4, RulesAssumption, Columns
  <2>3. PICK time \in Time, day \in Day :
           (r.timestamp # Null => time = r.timestamp) /\ (r.dt # Null => day = r.dt)
    BY AnyValues
  <2> DEFINE c == [title |-> title, type |-> type, timestamp |-> time, dt |-> day,
                   lengthOld |-> r.lengthOld]
  <2>4. c \in Completions(r)
    BY <2>1, <2>2, <2>3, CompletionExists
  <2>5. Satisfies("validity", c, n)
    BY <1>2, <2>1, <2>2
  <2> QED
    BY <2>4, <2>5
<1> QED
  BY <1>3, <1>4

LEMMA AccuracyFalse ==
  ASSUME NEW r \in Row, NEW n \in Nat
  PROVE  AccuracyOk(r, n) = FALSE <=>
            \/ LengthOldOk(r) = FALSE
            \/ r.timestamp # Null /\ ~(r.timestamp <= n + ClockSkew)
<1>1. Given(r.timestamp, r.timestamp <= n + ClockSkew) = FALSE
         <=> r.timestamp # Null /\ (r.timestamp <= n + ClockSkew) = FALSE
  BY GivenFalse
<1>2. (r.timestamp <= n + ClockSkew) = FALSE <=> ~(r.timestamp <= n + ClockSkew)
  OBVIOUS
<1> QED
  BY <1>1, <1>2, AllOfTwo DEF AccuracyOk

LEMMA AccuracyExact ==
  ASSUME NEW r \in Row, NEW n \in Nat
  PROVE  AccuracyOk(r, n) = FALSE <=> \A c \in Completions(r) : ~Satisfies("accuracy", c, n)
<1> DEFINE longer == r.lengthOld # Null /\ r.lengthOld # 0
<1>1. LengthOldOk(r) = FALSE <=> r.type = New /\ longer
  <2>1. New # Null
    BY NullIsNoValue, RulesAssumption
  <2> QED
    BY <2>1, NullIsNoValue DEF LengthOldOk, AnyOf, Given
<1>2. AccuracyOk(r, n) = FALSE <=> \/ r.type = New /\ longer
                                   \/ r.timestamp # Null /\ ~(r.timestamp <= n + ClockSkew)
  BY <1>1, AccuracyFalse
<1>3. \A c : Satisfies("accuracy", c, n) <=> /\ c.type = New => c.lengthOld \in {Null, 0}
                                             /\ c.timestamp <= n + ClockSkew
  BY DEF Satisfies
<1>4. ASSUME AccuracyOk(r, n) = FALSE, NEW c \in Completions(r)
      PROVE  ~Satisfies("accuracy", c, n)
  <2>1. /\ r.type # Null => c.type = r.type
        /\ r.timestamp # Null => c.timestamp = r.timestamp
        /\ c.lengthOld = r.lengthOld
    BY <1>4 DEF Completions
  <2>2. New # Null
    BY NullIsNoValue, RulesAssumption
  <2> QED
    BY <1>2, <1>3, <1>4, <2>1, <2>2
<1>5. ASSUME AccuracyOk(r, n) # FALSE
      PROVE  \E c \in Completions(r) : Satisfies("accuracy", c, n)
  <2>1. PICK type \in Type : (type = New => ~longer) /\ (r.type # Null => type = r.type)
    <3>1. \E type \in Type : type # New
      BY RulesAssumption
    <3> QED
      BY <1>2, <1>5, <3>1, Columns
  <2>2. PICK time \in Time : time <= n + ClockSkew /\ (r.timestamp # Null => time = r.timestamp)
    <3>1. 0 \in Time /\ 0 <= n + ClockSkew
      BY RulesAssumption
    <3> QED
      BY <1>2, <1>5, <3>1, Columns
  <2>3. PICK title \in Title, day \in Day :
           (r.title # Null => title = r.title) /\ (r.dt # Null => day = r.dt)
    BY AnyValues
  <2> DEFINE c == [title |-> title, type |-> type, timestamp |-> time, dt |-> day,
                   lengthOld |-> r.lengthOld]
  <2>4. c \in Completions(r)
    BY <2>1, <2>2, <2>3, CompletionExists
  <2>5. Satisfies("accuracy", c, n)
    BY <1>3, <2>1, <2>2
  <2> QED
    BY <2>4, <2>5
<1> QED
  BY <1>4, <1>5

LEMMA ConsistencyExact ==
  ASSUME NEW r \in Row, NEW n \in Nat
  PROVE  ConsistencyOk(r) = FALSE <=> \A c \in Completions(r) : ~Satisfies("consistency", c, n)
<1>1. ConsistencyOk(r) = FALSE <=> r.dt # Null /\ r.timestamp # Null /\ r.dt # DayOf(r.timestamp)
  BY NullIsNoValue DEF ConsistencyOk, Given
<1>2. \A c : Satisfies("consistency", c, n) <=> c.dt = DayOf(c.timestamp)
  BY DEF Satisfies
<1>3. ASSUME ConsistencyOk(r) = FALSE, NEW c \in Completions(r)
      PROVE  ~Satisfies("consistency", c, n)
  BY <1>1, <1>2, <1>3 DEF Completions
<1>4. ASSUME ConsistencyOk(r) # FALSE
      PROVE  \E c \in Completions(r) : Satisfies("consistency", c, n)
  <2>1. PICK time \in Time : /\ r.timestamp # Null => time = r.timestamp
                             /\ r.dt # Null => DayOf(time) = r.dt
    <3>1. CASE r.timestamp # Null
      BY <1>1, <1>4, <3>1, Columns
    <3>2. CASE r.timestamp = Null /\ r.dt # Null
      BY <3>2, Columns DEF Day
    <3>3. CASE r.timestamp = Null /\ r.dt = Null
      BY <3>3, RulesAssumption
    <3> QED
      BY <3>1, <3>2, <3>3
  <2>2. DayOf(time) \in Day
    BY DaysAreDays
  <2>3. PICK title \in Title, type \in Type :
           (r.title # Null => title = r.title) /\ (r.type # Null => type = r.type)
    BY AnyValues
  <2> DEFINE c == [title |-> title, type |-> type, timestamp |-> time, dt |-> DayOf(time),
                   lengthOld |-> r.lengthOld]
  <2>4. c \in Completions(r)
    BY <2>1, <2>2, <2>3, CompletionExists
  <2>5. Satisfies("consistency", c, n)
    BY <1>2
  <2> QED
    BY <2>4, <2>5
<1> QED
  BY <1>3, <1>4

-----------------------------------------------------------------------------
(* The clock only ever helps a row.                                        *)

LEMMA AccuracyIsForGood ==
  ASSUME NEW r \in Row, NEW n \in Nat, NEW later \in Nat, n <= later,
         AccuracyOk(r, later) = FALSE
  PROVE  AccuracyOk(r, n) = FALSE
<1>1. ClockSkew \in Nat /\ (r.timestamp # Null => r.timestamp \in Nat)
  BY RulesAssumption, Columns
<1>2. \A m \in Nat : AccuracyOk(r, m) = FALSE <=>
                        \/ LengthOldOk(r) = FALSE
                        \/ r.timestamp # Null /\ ~(r.timestamp <= m + ClockSkew)
  BY AccuracyFalse
<1> QED
  BY <1>1, <1>2

TaggingInv == row \in Row /\ now \in Nat /\ reasons = FailureReasons(row, now)

LEMMA TaggingInvariant == Spec => []TaggingInv
<1>1. Init => TaggingInv
  BY DEF Init, TaggingInv
<1>2. TaggingInv /\ [Next]_vars => TaggingInv'
  BY MaxNowAssumption DEF TaggingInv, Next, Refresh, vars
<1> QED
  BY <1>1, <1>2, PTL DEF Spec

\* A blocking rule other than completeness rejects a row exactly when no values
\* of the row's missing columns could satisfy it.
THEOREM RejectionIsExact == Spec => []RejectedIffHopeless
<1>1. ASSUME TaggingInv PROVE RejectedIffHopeless
  <2>1. SUFFICES ASSUME NEW d \in {"validity", "accuracy", "consistency"}
                 PROVE  d \in reasons <=> \A c \in Completions(row) : ~Satisfies(d, c, now)
    BY DEF RejectedIffHopeless, Dimension
  <2>2. row \in Row /\ now \in Nat /\ (d \in reasons <=> RuleOk(d, row, now) = FALSE)
    BY <1>1 DEF TaggingInv, FailureReasons, Dimension
  <2>3. CASE d = "validity"
    BY <2>2, <2>3, ValidityExact DEF RuleOk
  <2>4. CASE d = "accuracy"
    BY <2>2, <2>4, AccuracyExact DEF RuleOk
  <2>5. CASE d = "consistency"
    BY <2>2, <2>5, ConsistencyExact DEF RuleOk
  <2> QED
    BY <2>1, <2>3, <2>4, <2>5
<1> QED
  BY <1>1, TaggingInvariant, PTL

\* Whatever the clock skew, evaluating the rules later adds no failure reason.
THEOREM AcceptanceIsForGood == Spec => AcceptedForGood
<1>1. ASSUME TaggingInv, TaggingInv', [Next]_vars PROVE [reasons' \subseteq reasons]_vars
  <2>1. CASE UNCHANGED vars
    BY <2>1
  <2>2. CASE Refresh
    <3>1. row' = row /\ now' \in Nat /\ now <= now'
      BY <1>1, <2>2, MaxNowAssumption DEF Refresh, TaggingInv
    <3>2. SUFFICES ASSUME NEW d \in Dimension, RuleOk(d, row, now') = FALSE
                   PROVE  RuleOk(d, row, now) = FALSE
      BY <1>1, <3>1 DEF TaggingInv, FailureReasons
    <3>3. CASE d = "accuracy"
      BY <1>1, <3>1, <3>2, <3>3, AccuracyIsForGood DEF RuleOk, TaggingInv
    <3>4. CASE d # "accuracy"
      BY <3>2, <3>4 DEF RuleOk, Dimension
    <3> QED
      BY <3>3, <3>4
  <2> QED
    BY <1>1, <2>1, <2>2 DEF Next
<1> QED
  BY <1>1, TaggingInvariant, PTL DEF Spec, AcceptedForGood
=============================================================================
