------------------------- MODULE SilverPipelineProofs -------------------------
(***************************************************************************)
(* Theorems about SilverPipeline, for every set of rows, every watermark    *)
(* delay and every clock.                                                  *)
(***************************************************************************)
EXTENDS SilverPipeline, FiniteSetTheorems, TLAPS

\* The columns the staging query compares.
LEMMA RowTimes ==
  \A r \in BronzeRow : /\ IdOf(r) \in EventIds
                       /\ TimeOf(r) \in Nat \cup {Null}
                       /\ TimeOf(r) # 0
                       /\ StateTime(r) \in Nat
                       /\ TimeOf(r) # Null => StateTime(r) = TimeOf(r)
<1>1. \A r \in BronzeRow : Content[r] \in Row /\ Content[r].metaDt # 0
  BY PipelineAssumption
<1>2. \A r \in BronzeRow : Content[r].metaDt \in Time \cup {Null}
  BY <1>1 DEF Row
<1>3. Time \subseteq Nat
  BY RulesAssumption
<1> QED
  BY <1>1, <1>2, <1>3 DEF IdOf, TimeOf, StateTime, EventIds

-----------------------------------------------------------------------------
(* What a micro-batch does to the watermark and to the states.             *)

LEMMA AdvancedFacts ==
  ASSUME watermark \in Nat, NEW batch \in SUBSET BronzeRow, NEW to \in Advanced(batch)
  PROVE  /\ to \in Nat /\ watermark <= to
         /\ to = watermark \/ \E r \in batch : TimeOf(r) # Null /\ to = TimeOf(r) - Delay
<1>1. /\ to \in {watermark} \cup {StateTime(r) - Delay : r \in batch}
      /\ watermark <= to
  BY DEF Advanced, LatestOf
<1>2. CASE to = watermark
  BY <1>2
<1>3. CASE to # watermark
  <2>1. PICK r \in batch : to = StateTime(r) - Delay
    BY <1>1, <1>3
  <2>2. Delay \in Nat /\ Delay > 0
    BY PipelineAssumption
  <2>3. TimeOf(r) # Null
    <3>1. SUFFICES ASSUME TimeOf(r) = Null PROVE FALSE
      OBVIOUS
    <3>2. StateTime(r) = 0
      BY <3>1 DEF StateTime
    <3> QED
      BY <1>1, <2>1, <2>2, <3>2
  <2>4. StateTime(r) = TimeOf(r) /\ StateTime(r) \in Nat
    BY <2>3, RowTimes
  <2> QED
    BY <1>1, <2>1, <2>2, <2>3, <2>4
<1> QED
  BY <1>2, <1>3

\* The states after a micro-batch that let `kept` pass.
LEMMA StateFacts ==
  ASSUME expiry \in [EventIds -> Nat], watermark \in Nat,
         NEW kept \in SUBSET BronzeRow,
         \A r, s \in kept : IdOf(r) = IdOf(s) => r = s,
         \A r \in kept : expiry[IdOf(r)] = 0
  PROVE  LET after == Evict(WithStates(kept)) IN
         /\ after \in [EventIds -> Nat]
         /\ \A r \in kept : \/ after[IdOf(r)] = StateTime(r) + Delay
                            \/ StateTime(r) + Delay <= watermark
         /\ \A id \in EventIds :
               expiry[id] # 0 => \/ after[id] = expiry[id]
                                 \/ expiry[id] <= watermark
         /\ \A id \in EventIds :
               after[id] # 0 => expiry[id] # 0 \/ \E r \in kept : IdOf(r) = id
<1> DEFINE states == WithStates(kept)
           after == Evict(states)
<1>1. Delay \in Nat
  BY PipelineAssumption
<1>2. \A id \in EventIds :
         IF \E r \in kept : IdOf(r) = id
         THEN \E r \in kept : IdOf(r) = id /\ states[id] = StateTime(r) + Delay
         ELSE states[id] = expiry[id]
  BY DEF WithStates
<1>3. \A id \in EventIds : states[id] \in Nat
  <2>1. SUFFICES ASSUME NEW id \in EventIds PROVE states[id] \in Nat
    OBVIOUS
  <2>2. CASE \E r \in kept : IdOf(r) = id
    <3>1. PICK r \in kept : states[id] = StateTime(r) + Delay
      BY <1>2, <2>2
    <3> QED
      BY <1>1, <3>1, RowTimes
  <2>3. CASE ~\E r \in kept : IdOf(r) = id
    BY <1>2, <2>3
  <2> QED
    BY <2>2, <2>3
<1>4. \A r \in kept : states[IdOf(r)] = StateTime(r) + Delay
  BY <1>2, RowTimes
<1>5. \A id \in EventIds : expiry[id] # 0 => states[id] = expiry[id]
  BY <1>2
<1>6. /\ after \in [EventIds -> Nat]
      /\ \A id \in EventIds : after[id] = IF states[id] <= watermark THEN 0 ELSE states[id]
  BY <1>3 DEF Evict
<1>7. \A id \in EventIds : after[id] # 0 => expiry[id] # 0 \/ \E r \in kept : IdOf(r) = id
  <2>1. SUFFICES ASSUME NEW id \in EventIds, after[id] # 0, ~\E r \in kept : IdOf(r) = id
                 PROVE  expiry[id] # 0
    OBVIOUS
  <2> QED
    BY <1>2, <1>6, <2>1
<1> HIDE DEF states, after
<1>8. \A r \in kept : after[IdOf(r)] = StateTime(r) + Delay \/ StateTime(r) + Delay <= watermark
  BY <1>4, <1>6, RowTimes
<1>9. \A id \in EventIds : expiry[id] # 0 => after[id] = expiry[id] \/ expiry[id] <= watermark
  BY <1>5, <1>6
<1> QED
  BY <1>6, <1>7, <1>8, <1>9 DEF after, states

-----------------------------------------------------------------------------
(* What StagingBatch does once it has chosen its rows.                     *)

Ran(batch, kept) ==
  /\ batch \subseteq bronze \ Consumed /\ kept \subseteq batch
  /\ Passes(batch, kept)
  /\ staged' = staged \cup kept
  /\ reasons' = [r \in BronzeRow |->
                   IF r \in kept THEN FailureReasons(Content[r], now) ELSE reasons[r]]
  /\ expiry' = Evict(WithStates(kept))
  /\ batchOf' = [r \in BronzeRow |-> IF r \in batch THEN batches + 1 ELSE batchOf[r]]
  /\ watermark' \in Advanced(batch)
  /\ batches' = batches + 1
  /\ lateWatermark' = watermark
  /\ UNCHANGED <<bronze, now, tableVars>>

LEMMA BatchStep ==
  ASSUME TypeOK, StagingBatch
  PROVE  \E batch, kept \in SUBSET BronzeRow : Ran(batch, kept)
<1>1. PICK batch \in SUBSET (bronze \ Consumed) :
         /\ \E kept \in SUBSET batch :
              /\ Passes(batch, kept)
              /\ staged' = staged \cup kept
              /\ reasons' = [r \in BronzeRow |->
                               IF r \in kept THEN FailureReasons(Content[r], now) ELSE reasons[r]]
              /\ expiry' = Evict(WithStates(kept))
         /\ batchOf' = [r \in BronzeRow |-> IF r \in batch THEN batches + 1 ELSE batchOf[r]]
         /\ watermark' \in Advanced(batch)
  BY DEF StagingBatch
<1>2. PICK kept \in SUBSET batch :
         /\ Passes(batch, kept)
         /\ staged' = staged \cup kept
         /\ reasons' = [r \in BronzeRow |->
                          IF r \in kept THEN FailureReasons(Content[r], now) ELSE reasons[r]]
         /\ expiry' = Evict(WithStates(kept))
  BY <1>1
<1>3. batch \in SUBSET BronzeRow /\ kept \in SUBSET BronzeRow
  BY <1>1, <1>2 DEF TypeOK
<1>4. Ran(batch, kept)
  BY <1>1, <1>2 DEF Ran, StagingBatch
<1> QED
  BY <1>3, <1>4

-----------------------------------------------------------------------------
(* Types.                                                                  *)

LEMMA TypeInit == Init => TypeOK
BY DEF Init, TypeOK, Consumed

LEMMA TypeBatch == TypeOK /\ StagingBatch => TypeOK'
<1>1. SUFFICES ASSUME TypeOK, StagingBatch PROVE TypeOK'
  OBVIOUS
<1>2. PICK batch, kept \in SUBSET BronzeRow : Ran(batch, kept)
  BY <1>1, BatchStep
<1>3. /\ batches' = batches + 1 /\ lateWatermark' = watermark
      /\ UNCHANGED <<bronze, now, tableVars>>
      /\ batch \subseteq bronze \ Consumed /\ kept \subseteq batch
      /\ Passes(batch, kept)
      /\ staged' = staged \cup kept
      /\ reasons' = [r \in BronzeRow |->
                       IF r \in kept THEN FailureReasons(Content[r], now) ELSE reasons[r]]
      /\ expiry' = Evict(WithStates(kept))
      /\ batchOf' = [r \in BronzeRow |-> IF r \in batch THEN batches + 1 ELSE batchOf[r]]
      /\ watermark' \in Advanced(batch)
  BY <1>2 DEF Ran
<1>4. /\ bronze \subseteq BronzeRow /\ now \in Nat /\ batches \in Nat
      /\ batchOf \in [BronzeRow -> 0 .. batches] /\ watermark \in Nat
      /\ expiry \in [EventIds -> Nat] /\ Consumed \subseteq bronze /\ staged \subseteq Consumed
      /\ reasons \in [BronzeRow -> SUBSET Dimension]
      /\ silverRead \subseteq staged /\ silver \subseteq silverRead
      /\ rejectedRead \subseteq staged /\ rejected \subseteq rejectedRead
  BY <1>1 DEF TypeOK
<1>5. kept \subseteq BronzeRow /\ batch \subseteq BronzeRow
  BY <1>2
<1>6. batches' \in Nat /\ batchOf' \in [BronzeRow -> 0 .. batches']
  <2>1. \A r \in BronzeRow : batchOf'[r] \in 0 .. batches + 1
    BY <1>3, <1>4
  <2> QED
    BY <1>3, <1>4, <2>1
<1>7. Consumed' = Consumed \cup batch
  BY <1>3, <1>4, <1>5 DEF Consumed
<1>8. watermark' \in Nat /\ lateWatermark' \in 0 .. watermark'
  BY <1>3, <1>4, <1>5, AdvancedFacts
<1>9. expiry' \in [EventIds -> Nat]
  <2>1. /\ \A r, s \in kept : IdOf(r) = IdOf(s) => r = s
        /\ \A r \in kept : expiry[IdOf(r)] = 0
    BY <1>3 DEF Passes
  <2> QED
    BY <1>3, <1>4, <1>5, <2>1, StateFacts
<1>10. reasons' \in [BronzeRow -> SUBSET Dimension]
  <2>1. \A r \in BronzeRow : FailureReasons(Content[r], now) \in SUBSET Dimension
    BY DEF FailureReasons
  <2> QED
    BY <1>3, <1>4, <2>1
<1>11. Consumed' \subseteq bronze' /\ staged' \subseteq Consumed'
  BY <1>3, <1>4, <1>7
<1>12. /\ silverRead' \subseteq staged' /\ silver' \subseteq silverRead'
       /\ rejectedRead' \subseteq staged' /\ rejected' \subseteq rejectedRead'
  BY <1>3, <1>4 DEF tableVars
<1> QED
  BY <1>3, <1>4, <1>6, <1>8, <1>9, <1>10, <1>11, <1>12 DEF TypeOK

LEMMA TypeStep == TypeOK /\ [Next]_vars => TypeOK'
<1> USE DEF TypeOK, Consumed, stagingVars, tableVars
<1>1. TypeOK /\ BronzeAppend => TypeOK'
  BY DEF BronzeAppend
<1>2. TypeOK /\ Tick => TypeOK'
  BY DEF Tick
<1>3. TypeOK /\ ReadSilver => TypeOK'
  BY DEF ReadSilver
<1>4. TypeOK /\ ReadRejected => TypeOK'
  BY DEF ReadRejected
<1>5. TypeOK /\ UNCHANGED vars => TypeOK'
  BY DEF vars
<1> QED
  BY <1>1, <1>2, <1>3, <1>4, <1>5, TypeBatch DEF Next

\* The variables keep their types whatever bronze holds, and the tables hold
\* only what their queries have read.
THEOREM TypeCorrect == Spec => []TypeOK
<1>1. Init => TypeOK
  BY TypeInit
<1>2. TypeOK /\ [Next]_vars => TypeOK'
  BY TypeStep
<1> QED
  BY <1>1, <1>2, PTL DEF Spec

-----------------------------------------------------------------------------
(* Every invariant below changes in StagingBatch only, the tables apart.   *)

LEMMA OtherSteps ==
  ASSUME [Next]_vars
  PROVE  StagingBatch \/ UNCHANGED stagingVars
BY DEF Next, BronzeAppend, Tick, ReadSilver, ReadRejected, vars, stagingVars

-----------------------------------------------------------------------------
(* Repeated ids.                                                           *)

\* A staged row is remembered by the state of its id until the lateness filter
\* rejects whatever that state would reject: this is why eviction is safe.
Remembered ==
  \A r \in staged : TimeOf(r) # Null =>
     \/ expiry[IdOf(r)] = TimeOf(r) + Delay
     \/ TimeOf(r) + Delay <= lateWatermark

DedupInv == TypeOK /\ Remembered /\ SameIdFarApart

LEMMA DedupInit == Init => DedupInv
BY TypeInit DEF Init, DedupInv, Remembered, SameIdFarApart

LEMMA DedupStep == DedupInv /\ [Next]_vars => DedupInv'
<1>1. SUFFICES ASSUME DedupInv, [Next]_vars PROVE DedupInv'
  OBVIOUS
<1>2. TypeOK /\ Remembered /\ SameIdFarApart /\ TypeOK'
  BY <1>1, TypeStep DEF DedupInv
<1>3. CASE UNCHANGED stagingVars
  BY <1>2, <1>3 DEF DedupInv, Remembered, SameIdFarApart, stagingVars
<1>4. CASE StagingBatch
  <2>1. PICK batch, kept \in SUBSET BronzeRow : Ran(batch, kept)
    BY <1>2, <1>4, BatchStep
  <2>2. /\ staged' = staged \cup kept
        /\ expiry' = Evict(WithStates(kept))
        /\ lateWatermark' = watermark
        /\ Passes(batch, kept)
    BY <2>1 DEF Ran
  <2>3. /\ staged \subseteq BronzeRow
        /\ expiry \in [EventIds -> Nat]
        /\ watermark \in Nat /\ lateWatermark \in Nat /\ lateWatermark <= watermark
    BY <1>2 DEF TypeOK, Consumed
  <2>4. Delay \in Nat \ {0}
    BY PipelineAssumption
  <2>5. /\ \A r, s \in kept : IdOf(r) = IdOf(s) => r = s
        /\ \A r \in kept : expiry[IdOf(r)] = 0
        /\ \A r \in kept : TimeOf(r) # Null => ~(TimeOf(r) <= lateWatermark)
    BY <2>2 DEF Passes, IsLate
  <2>6. /\ \A r \in kept : \/ expiry'[IdOf(r)] = StateTime(r) + Delay
                           \/ StateTime(r) + Delay <= watermark
        /\ \A id \in EventIds :
              expiry[id] # 0 => expiry'[id] = expiry[id] \/ expiry[id] <= watermark
    BY <2>2, <2>3, <2>5, StateFacts
  <2>7. Remembered'
    <3>1. SUFFICES ASSUME NEW r \in staged \cup kept, TimeOf(r) # Null
                   PROVE  \/ expiry'[IdOf(r)] = TimeOf(r) + Delay
                          \/ TimeOf(r) + Delay <= watermark
      BY <2>2 DEF Remembered
    <3>2. r \in BronzeRow /\ TimeOf(r) \in Nat /\ IdOf(r) \in EventIds /\ StateTime(r) = TimeOf(r)
      BY <2>3, <3>1, RowTimes
    <3>3. CASE r \in kept
      BY <2>6, <3>2, <3>3
    <3>4. CASE r \in staged /\ expiry[IdOf(r)] = TimeOf(r) + Delay
      <4>1. expiry[IdOf(r)] # 0
        BY <2>4, <3>2, <3>4
      <4> QED
        BY <2>6, <3>2, <3>4, <4>1
    <3>5. CASE r \in staged /\ TimeOf(r) + Delay <= lateWatermark
      BY <2>3, <2>4, <3>2, <3>5
    <3> QED
      BY <1>2, <3>1, <3>3, <3>4, <3>5 DEF Remembered
  <2>8. \A r \in kept, s \in staged :
           (IdOf(r) = IdOf(s) /\ TimeOf(r) # Null /\ TimeOf(s) # Null)
              => TimeOf(r) > TimeOf(s) + Delay
    <3>1. SUFFICES ASSUME NEW r \in kept, NEW s \in staged,
                          IdOf(r) = IdOf(s), TimeOf(r) # Null, TimeOf(s) # Null
                   PROVE  TimeOf(r) > TimeOf(s) + Delay
      OBVIOUS
    <3>2. TimeOf(r) \in Nat /\ TimeOf(s) \in Nat
      BY <2>3, <3>1, RowTimes
    <3>3. expiry[IdOf(s)] = 0
      BY <2>5, <3>1
    <3>4. TimeOf(s) + Delay <= lateWatermark
      BY <1>2, <2>4, <3>1, <3>2, <3>3 DEF Remembered
    <3> QED
      BY <2>3, <2>4, <2>5, <3>1, <3>2, <3>4
  <2>9. SameIdFarApart'
    <3>1. SUFFICES ASSUME NEW r \in staged \cup kept, NEW s \in staged \cup kept,
                          r # s, IdOf(r) = IdOf(s), TimeOf(r) # Null, TimeOf(s) # Null
                   PROVE  TimeOf(r) > TimeOf(s) + Delay \/ TimeOf(s) > TimeOf(r) + Delay
      BY <2>2 DEF SameIdFarApart
    <3>2. CASE r \in staged /\ s \in staged
      BY <1>2, <3>1, <3>2 DEF SameIdFarApart
    <3>3. CASE r \in kept /\ s \in kept
      BY <2>5, <3>1, <3>3
    <3> QED
      BY <2>8, <3>1, <3>2, <3>3
  <2> QED
    BY <1>2, <2>7, <2>9 DEF DedupInv
<1> QED
  BY <1>1, <1>3, <1>4, OtherSteps

\* An id is staged a second time only with an event time further away than the
\* delay, however batches and evictions fall: copies of one event never are.
THEOREM RepeatsAreFarApart == Spec => []SameIdFarApart
<1>1. DedupInv => SameIdFarApart
  BY DEF DedupInv
<1> QED
  BY <1>1, DedupInit, DedupStep, PTL DEF Spec

-----------------------------------------------------------------------------
(* Dropped rows.                                                           *)

\* The watermark of micro-batch `n` was reached by a row of an earlier one.
ReachedBefore(mark, n) ==
  \/ mark = 0
  \/ \E q \in Consumed : /\ batchOf[q] < n
                         /\ TimeOf(q) # Null /\ TimeOf(q) >= mark + Delay

StatesAreStaged == \A id \in EventIds : expiry[id] # 0 => \E s \in staged : IdOf(s) = id

DropInv ==
  /\ TypeOK
  /\ ReachedBefore(watermark, batches + 1)
  /\ ReachedBefore(lateWatermark, batches)
  /\ StatesAreStaged
  /\ DroppedForAReason

LEMMA DropInit == Init => DropInv
<1>1. SUFFICES ASSUME Init PROVE DropInv
  OBVIOUS
<1>2. TypeOK /\ Consumed = {}
  BY <1>1, TypeInit DEF Init, Consumed
<1> QED
  BY <1>1, <1>2 DEF Init, DropInv, ReachedBefore, StatesAreStaged, DroppedForAReason

LEMMA DropStep == DropInv /\ [Next]_vars => DropInv'
<1>1. SUFFICES ASSUME DropInv, [Next]_vars PROVE DropInv'
  OBVIOUS
<1>2. TypeOK /\ TypeOK' /\ ReachedBefore(watermark, batches + 1)
      /\ ReachedBefore(lateWatermark, batches) /\ StatesAreStaged /\ DroppedForAReason
  BY <1>1, TypeStep DEF DropInv
<1>3. CASE UNCHANGED stagingVars
  BY <1>2, <1>3 DEF DropInv, ReachedBefore, StatesAreStaged, DroppedForAReason, Consumed, stagingVars
<1>4. CASE StagingBatch
  <2>1. PICK batch, kept \in SUBSET BronzeRow : Ran(batch, kept)
    BY <1>2, <1>4, BatchStep
  <2>2. /\ batch \subseteq bronze \ Consumed /\ kept \subseteq batch
        /\ Passes(batch, kept)
        /\ staged' = staged \cup kept
        /\ expiry' = Evict(WithStates(kept))
        /\ batchOf' = [r \in BronzeRow |-> IF r \in batch THEN batches + 1 ELSE batchOf[r]]
        /\ watermark' \in Advanced(batch)
        /\ batches' = batches + 1
        /\ lateWatermark' = watermark
    BY <2>1 DEF Ran
  <2>3. /\ batches \in Nat /\ batchOf \in [BronzeRow -> 0 .. batches]
        /\ expiry \in [EventIds -> Nat]
        /\ watermark \in Nat /\ lateWatermark \in Nat
        /\ staged \subseteq BronzeRow /\ Consumed \subseteq BronzeRow
    BY <1>2 DEF TypeOK, Consumed
  <2>4. Delay \in Nat \ {0}
    BY PipelineAssumption
  <2>5. /\ Consumed' = Consumed \cup batch
        /\ \A r \in batch : batchOf'[r] = batches + 1
        /\ \A r \in Consumed : batchOf'[r] = batchOf[r]
    BY <2>2, <2>3 DEF Consumed
  <2>6. ReachedBefore(lateWatermark, batches)'
    BY <1>2, <2>2, <2>5 DEF ReachedBefore
  <2>7. ReachedBefore(watermark, batches + 1)'
    <3>1. CASE watermark' = watermark
      <4>1. \A q \in Consumed : batchOf[q] < batches + 1 => batchOf[q] < batches + 2
        BY <2>3
      <4> QED
        BY <1>2, <2>2, <2>3, <2>5, <3>1, <4>1 DEF ReachedBefore
    <3>2. CASE watermark' # watermark
      <4>1. PICK r \in batch : TimeOf(r) # Null /\ watermark' = TimeOf(r) - Delay
        BY <2>2, <2>3, <3>2, AdvancedFacts
      <4>2. TimeOf(r) \in Nat
        BY <4>1, RowTimes
      <4>3. TimeOf(r) >= watermark' + Delay /\ batchOf'[r] < batches' + 1 /\ r \in Consumed'
        BY <2>2, <2>3, <2>4, <2>5, <4>1, <4>2
      <4> QED
        BY <4>1, <4>3 DEF ReachedBefore
    <3> QED
      BY <3>1, <3>2
  <2>8. StatesAreStaged'
    <3>1. /\ \A r, s \in kept : IdOf(r) = IdOf(s) => r = s
          /\ \A r \in kept : expiry[IdOf(r)] = 0
      BY <2>2 DEF Passes
    <3>2. \A id \in EventIds : expiry'[id] # 0 => expiry[id] # 0 \/ \E r \in kept : IdOf(r) = id
      BY <2>2, <2>3, <3>1, StateFacts
    <3> QED
      BY <1>2, <2>2, <3>2 DEF StatesAreStaged
  <2>9. ASSUME NEW r \in batch \ kept, IsLate(r)
        PROVE  /\ TimeOf(r) # Null
               /\ \E q \in Consumed' : /\ batchOf'[q] + 1 < batchOf'[r]
                                       /\ TimeOf(q) # Null /\ TimeOf(q) >= TimeOf(r) + Delay
    <3>1. TimeOf(r) # Null /\ TimeOf(r) <= lateWatermark /\ TimeOf(r) \in Nat /\ TimeOf(r) # 0
      BY <2>9, RowTimes DEF IsLate
    <3>2. PICK q \in Consumed : /\ batchOf[q] < batches
                                /\ TimeOf(q) # Null /\ TimeOf(q) >= lateWatermark + Delay
      BY <1>2, <2>3, <3>1 DEF ReachedBefore
    <3>3. TimeOf(q) \in Nat
      BY <2>3, <3>2, RowTimes
    <3>4. TimeOf(q) >= TimeOf(r) + Delay
      BY <2>3, <2>4, <3>1, <3>2, <3>3
    <3>5. batchOf'[q] + 1 < batchOf'[r]
      BY <2>3, <2>5, <2>9, <3>2
    <3> QED
      BY <2>5, <3>1, <3>2, <3>4, <3>5
  <2>10. ASSUME NEW r \in batch \ kept, ~IsLate(r)
         PROVE  \E s \in staged' : IdOf(s) = IdOf(r)
    <3>1. CASE expiry[IdOf(r)] # 0
      BY <1>2, <2>2, <2>10, <3>1, RowTimes DEF StatesAreStaged
    <3>2. CASE expiry[IdOf(r)] = 0
      <4>1. IdOf(r) \in {IdOf(s) : s \in kept}
        BY <2>2, <2>10, <3>2 DEF Passes
      <4> QED
        BY <2>2, <4>1
    <3> QED
      BY <3>1, <3>2
  <2>11. DroppedForAReason'
    <3>1. SUFFICES ASSUME NEW r \in Consumed' \ staged'
                   PROVE  \/ \E s \in staged' : IdOf(s) = IdOf(r)
                          \/ /\ TimeOf(r) # Null
                             /\ \E q \in Consumed' :
                                   /\ batchOf'[q] + 1 < batchOf'[r]
                                   /\ TimeOf(q) # Null /\ TimeOf(q) >= TimeOf(r) + Delay
      BY DEF DroppedForAReason
    <3>2. CASE r \in batch
      BY <2>2, <2>9, <2>10, <3>1, <3>2
    <3>3. CASE r \in Consumed \ staged
      BY <1>2, <2>2, <2>5, <3>3 DEF DroppedForAReason
    <3> QED
      BY <2>2, <2>5, <3>1, <3>2, <3>3
  <2> QED
    BY <1>2, <2>6, <2>7, <2>8, <2>11 DEF DropInv
<1> QED
  BY <1>1, <1>3, <1>4, OtherSteps

\* The staging query drops a row only as a repeat of a staged id, or because a
\* row later by the delay was read two micro-batches before it.
THEOREM DropsHaveAReason == Spec => []DroppedForAReason
<1>1. DropInv => DroppedForAReason
  BY DEF DropInv
<1> QED
  BY <1>1, DropInit, DropStep, PTL DEF Spec

-----------------------------------------------------------------------------
(* The split.                                                              *)

\* Each table is what its filter makes of the rows its query has read: the tags
\* of a staged row never change.
SplitInv ==
  /\ TypeOK
  /\ silver = {r \in silverRead : reasons[r] = {}}
  /\ rejected = {r \in rejectedRead : reasons[r] # {}}

LEMMA SplitStep == SplitInv /\ [Next]_vars => SplitInv'
<1>1. SUFFICES ASSUME SplitInv, [Next]_vars PROVE SplitInv'
  OBVIOUS
<1>2. TypeOK /\ TypeOK'
  BY <1>1, TypeStep DEF SplitInv
<1>3. silverRead \subseteq staged /\ rejectedRead \subseteq staged /\ staged \subseteq Consumed
  BY <1>2 DEF TypeOK
<1>4. CASE StagingBatch
  <2>1. PICK batch, kept \in SUBSET BronzeRow : Ran(batch, kept)
    BY <1>2, <1>4, BatchStep
  <2>2. /\ \A r \in BronzeRow \ kept : reasons'[r] = reasons[r]
        /\ kept \cap Consumed = {}
        /\ UNCHANGED tableVars
    BY <2>1 DEF Ran
  <2>3. \A r \in staged : reasons'[r] = reasons[r]
    BY <1>3, <2>2 DEF Consumed
  <2> QED
    BY <1>1, <1>2, <1>3, <2>2, <2>3 DEF SplitInv, tableVars
<1>5. CASE ReadSilver
  BY <1>1, <1>2, <1>3, <1>5 DEF ReadSilver, SplitInv, stagingVars
<1>6. CASE ReadRejected
  BY <1>1, <1>2, <1>3, <1>6 DEF ReadRejected, SplitInv, stagingVars
<1>7. CASE BronzeAppend \/ Tick \/ UNCHANGED vars
  BY <1>1, <1>2, <1>7 DEF BronzeAppend, Tick, vars, SplitInv, stagingVars, tableVars
<1> QED
  BY <1>1, <1>4, <1>5, <1>6, <1>7 DEF Next

LEMMA SplitInvariant == Spec => []SplitInv
<1>1. Init => SplitInv
  BY TypeInit DEF Init, SplitInv
<1> QED
  BY <1>1, SplitStep, PTL DEF Spec

\* A row that both queries have read is in exactly one of the two tables,
\* whatever the clock and the progress of either query.
THEOREM SplitIsExact == Spec => []RoutedOnce
<1>1. SplitInv => RoutedOnce
  BY DEF SplitInv, RoutedOnce
<1> QED
  BY <1>1, SplitInvariant, PTL

\* The reconciliation of the phase 3 specification in its own form, rows in are
\* rows out: when both queries have read the staging table, the two tables
\* together have as many rows as it has.
THEOREM RowsReconcile ==
  ASSUME IsFiniteSet(BronzeRow)
  PROVE  Spec => []((silverRead = staged /\ rejectedRead = staged)
                      => Cardinality(silver) + Cardinality(rejected) = Cardinality(staged))
<1>1. SplitInv => ((silverRead = staged /\ rejectedRead = staged)
                     => Cardinality(silver) + Cardinality(rejected) = Cardinality(staged))
  <2> SUFFICES ASSUME SplitInv, silverRead = staged, rejectedRead = staged
               PROVE  Cardinality(silver) + Cardinality(rejected) = Cardinality(staged)
    OBVIOUS
  <2>1. silver \cup rejected = staged /\ silver \cap rejected = {}
    BY DEF SplitInv
  <2>2. staged \in SUBSET BronzeRow
    BY DEF SplitInv, TypeOK, Consumed
  <2>3. silver \in SUBSET BronzeRow /\ rejected \in SUBSET BronzeRow
    BY <2>1, <2>2
  <2>4. IsFiniteSet(silver) /\ IsFiniteSet(rejected)
    BY <2>3, FS_Subset
  <2>5. Cardinality(silver) \in Nat /\ Cardinality(rejected) \in Nat
    BY <2>4, FS_CardinalityType
  <2>6. Cardinality(staged) = Cardinality(silver) + Cardinality(rejected) - Cardinality({})
    BY <2>1, <2>4, FS_Union
  <2> QED
    BY <2>5, <2>6, FS_EmptySet
<1> QED
  BY <1>1, SplitInvariant, PTL

\* No row is read two batches after one that is later by the delay or more.
NoneOvertaken ==
  \A q, r \in Consumed :
     (batchOf[q] + 1 < batchOf[r] /\ TimeOf(q) # Null /\ TimeOf(r) # Null)
        => TimeOf(q) < TimeOf(r) + Delay

\* Lateness is all that stands between the code and the documented reconciliation:
\* as long as no row is overtaken by the delay, the id of every row reaches
\* one of the two tables.
THEOREM TimelyIdsAreRouted == Spec => [](NoneOvertaken => EveryIdIsRouted)
<1>1. TypeOK /\ SplitInv /\ DroppedForAReason => (NoneOvertaken => EveryIdIsRouted)
  <2> SUFFICES ASSUME TypeOK, SplitInv, DroppedForAReason, NoneOvertaken,
                      bronze = Consumed, silverRead = staged, rejectedRead = staged,
                      NEW r \in bronze
               PROVE  \E s \in silver \cup rejected : IdOf(s) = IdOf(r)
    BY DEF EveryIdIsRouted
  <2>1. silver \cup rejected = staged
    BY DEF SplitInv
  <2>2. r \in Consumed /\ r \in BronzeRow
    BY DEF Consumed
  <2>3. ASSUME NEW q \in Consumed, batchOf[q] + 1 < batchOf[r], TimeOf(r) # Null,
               TimeOf(q) # Null, TimeOf(q) >= TimeOf(r) + Delay
        PROVE  FALSE
    <3>1. TimeOf(q) < TimeOf(r) + Delay
      BY <2>2, <2>3 DEF NoneOvertaken
    <3>2. TimeOf(q) \in Nat /\ TimeOf(r) \in Nat /\ Delay \in Nat
      BY <2>2, <2>3, RowTimes, PipelineAssumption DEF Consumed
    <3> QED
      BY <2>3, <3>1, <3>2
  <2>4. r \in staged \/ \E s \in staged : IdOf(s) = IdOf(r)
    BY <2>2, <2>3 DEF DroppedForAReason
  <2> QED
    BY <2>1, <2>4
<1> QED
  BY <1>1, TypeCorrect, SplitInvariant, DropsHaveAReason, PTL
=============================================================================
