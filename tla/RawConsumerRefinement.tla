------------------------- MODULE RawConsumerRefinement -------------------------
(***************************************************************************)
(* RawConsumer implements AtLeastOnce: every step of the threads either    *)
(* leaves the abstract state alone or is one abstract step.                *)
(***************************************************************************)
EXTENDS RawConsumerProofs

\* The ids that WritePartition(t) stores.
PartitionIds(t, p) ==
  {IdOf[batch[t][k]] : k \in {j \in Unwritten(t) : PartOf[batch[t][j]] = p}}

AllPending == UNION {PendingIds(t) : t \in Thread}

LEMMA MemoryIsBufferAndPending == MemoryIds = Ids(buffer) \cup AllPending
  BY DEF MemoryIds, AllPending

\* What the four abstract variables depend on.
LEMMA UnchangedAbstract ==
  ASSUME UNCHANGED <<backlog, buffer, batch, written, raw, discarded>>
  PROVE  UNCHANGED Delivery!vars
  BY DEF Delivery!vars, MemoryIds, PendingIds, Unwritten, RawIds

\* One write adds exactly the ids of its partition to the raw layer.
LEMMA RawWithPartition ==
  ASSUME TypeOK, NEW t \in Thread, NEW p, raw' = RawWith(t, p)
  PROVE  RawIds' = RawIds \cup PartitionIds(t, p)
<1>1. \A k \in Unwritten(t) : batch[t][k] \in Message
  BY DEF Unwritten, Kept, TypeOK
<1>2. \A m \in Message :
         raw'[m] > 0 <=> \/ raw[m] > 0
                         \/ \E k \in Unwritten(t) : batch[t][k] = m /\ PartOf[m] = p
  <2> TAKE m \in Message
  <2>1. raw[m] \in Nat
    BY DEF TypeOK
  <2>2. raw'[m] = IF \E k \in Unwritten(t) : batch[t][k] = m /\ PartOf[m] = p
                  THEN raw[m] + 1 ELSE raw[m]
    BY DEF RawWith
  <2> QED
    BY <2>1, <2>2
<1>3. RawIds' \subseteq RawIds \cup PartitionIds(t, p)
  BY <1>2 DEF RawIds, PartitionIds
<1>4. RawIds \subseteq RawIds'
  BY <1>2 DEF RawIds
<1>5. PartitionIds(t, p) \subseteq RawIds'
  BY <1>1, <1>2 DEF RawIds, PartitionIds
<1> QED
  BY <1>3, <1>4, <1>5

LEMMA PartitionIsPending ==
  ASSUME NEW t \in Thread, NEW p
  PROVE  PartitionIds(t, p) \subseteq MemoryIds /\ PendingIds(t) \subseteq MemoryIds
<1>1. PendingIds(t) \subseteq MemoryIds
  BY DEF MemoryIds
<1> QED
  BY <1>1 DEF PartitionIds, PendingIds

-----------------------------------------------------------------------------
(* One lemma per step that the abstract state notices.                     *)

LEMMA AddRefines ==
  ASSUME TypeOK, NEW w \in Worker, Add(w)
  PROVE  Delivery!Next
<1>1. /\ current[w] \in Message
      /\ buffer \in Seq(Message)
  BY DataAssumption DEF Add, TypeOK, HoldsWhatItWorksOn
<1>2. /\ buffer' = Append(buffer, current[w])
      /\ UNCHANGED <<backlog, batch, written, raw, discarded>>
  BY DEF Add, server
<1>3. Ids(buffer') = Ids(buffer) \cup {IdOf[current[w]]}
  BY <1>1, <1>2 DEF Ids
<1>4. AllPending' = AllPending /\ RawIds' = RawIds
  BY <1>2 DEF AllPending, PendingIds, Unwritten, RawIds
<1>5. MemoryIds' = MemoryIds \cup {IdOf[current[w]]}
  BY <1>3, <1>4 DEF MemoryIds, AllPending
<1>6. Delivery!Receive(current[w])
  BY <1>2, <1>4, <1>5 DEF Delivery!Receive
<1> QED
  BY <1>1, <1>6 DEF Delivery!Next

LEMMA AckRefines ==
  ASSUME LossInv, NEW w \in Worker, Ack(w)
  PROVE  Delivery!Next \/ UNCHANGED Delivery!vars
<1>1. UNCHANGED <<buffer, batch, written, raw, discarded>>
  BY DEF Ack
<1>2. backlog' = backlog \/ backlog' = backlog \ {current[w]}
  BY DEF Ack
<1>3. /\ current[w] \in Message
      /\ IdOf[current[w]] \in Known
  BY DataAssumption DEF Ack, LossInv, TypeOK, HoldsWhatItWorksOn, HeldKnown
<1>4. Known = Delivery!Accounted
  BY DEF Known, Settled, Delivery!Accounted, MemoryIds
<1>5. CASE backlog' = backlog
  BY <1>1, <1>5, UnchangedAbstract
<1>6. CASE backlog' = backlog \ {current[w]}
  <2>1. MemoryIds' = MemoryIds /\ RawIds' = RawIds
    BY <1>1 DEF MemoryIds, PendingIds, Unwritten, RawIds
  <2>2. Delivery!Acknowledge(current[w])
    BY <1>1, <1>3, <1>4, <1>6, <2>1 DEF Delivery!Acknowledge
  <2> QED
    BY <1>3, <2>2 DEF Delivery!Next
<1> QED
  BY <1>2, <1>5, <1>6

\* Ids that leave memory go where Settle puts them.
LEMMA SettleRefines ==
  ASSUME NEW kept \in SUBSET MemoryIds, NEW failed \in SUBSET MemoryIds,
         RawIds' = RawIds \cup kept, discarded' = discarded \cup failed,
         MemoryIds' \subseteq MemoryIds, MemoryIds \ (kept \cup failed) \subseteq MemoryIds',
         backlog' = backlog
  PROVE  Delivery!Next
<1>1. Delivery!Settle(kept, failed)
  BY DEF Delivery!Settle
<1> QED
  BY <1>1 DEF Delivery!Next

LEMMA TakeBatchRefines ==
  ASSUME LossInv, NEW t \in Thread, TakeBatch(t)
  PROVE  Delivery!Next \/ UNCHANGED Delivery!vars
<1>1. backlog' = backlog /\ raw' = raw /\ buffer' = <<>> /\ TypeOK /\ BufferKept
  BY DEF TakeBatch, server, LossInv
<1>2. RawIds' = RawIds /\ Ids(buffer') = {}
  BY <1>1 DEF RawIds, Ids
<1>3. CASE buffer = <<>> /\ UNCHANGED <<batch, written, discarded>>
  BY <1>1, <1>3, UnchangedAbstract
<1>4. CASE /\ batch' = [batch EXCEPT ![t] = buffer]
           /\ written' = [written EXCEPT ![t] = {}]
           /\ discarded' = discarded
  <2>1. PendingIds(t) = {}
    BY DEF TakeBatch, LossInv, TypeOK, HoldsWhatItWorksOn, PendingIds, Unwritten, Kept
  <2>2. ASSUME NEW u \in Thread, u # t PROVE PendingIds(u)' = PendingIds(u)
    BY <1>1, <1>4, <2>2 DEF PendingIds, Unwritten, TypeOK
  <2>3. PendingIds(t)' = Ids(buffer)
    <3>1. Unwritten(t)' = Kept(buffer)
      BY <1>1, <1>4 DEF Unwritten, TypeOK
    <3>2. PendingIds(t)' = {IdOf[buffer[k]] : k \in Kept(buffer)}
      BY <1>1, <1>4, <3>1 DEF PendingIds, TypeOK
    <3>3. Kept(buffer) \subseteq DOMAIN buffer
      BY DEF Kept
    <3> QED
      BY <1>1, <3>2, <3>3 DEF Ids, BufferKept
  <2>4. AllPending' = AllPending \cup Ids(buffer)
    BY <2>1, <2>2, <2>3 DEF AllPending
  <2>5. MemoryIds' = MemoryIds
    BY <1>2, <2>4 DEF MemoryIds, AllPending
  <2> QED
    BY <1>1, <1>2, <1>4, <2>5 DEF Delivery!vars
<1>5. CASE discarded' = discarded \cup Ids(buffer) /\ UNCHANGED <<batch, written>>
  <2>1. AllPending' = AllPending
    BY <1>5 DEF AllPending, PendingIds, Unwritten
  <2>2. MemoryIds' = AllPending /\ MemoryIds = Ids(buffer) \cup AllPending
    BY <1>2, <2>1 DEF MemoryIds, AllPending
  <2> QED
    BY <1>1, <1>2, <1>5, <2>2, SettleRefines
<1> QED
  BY <1>3, <1>4, <1>5 DEF TakeBatch

LEMMA WritePartitionRefines ==
  ASSUME TypeOK, NEW t \in Thread, WritePartition(t)
  PROVE  Delivery!Next
<1>1. PICK p \in Partition :
         /\ raw' = RawWith(t, p)
         /\ written' = [written EXCEPT ![t] = @ \cup {p}]
  BY DEF WritePartition
<1>2. UNCHANGED <<backlog, batch, buffer, discarded>>
  BY DEF WritePartition, server
<1>3. RawIds' = RawIds \cup PartitionIds(t, p)
  BY <1>1, RawWithPartition
<1>4. ASSUME NEW u \in Thread, u # t PROVE PendingIds(u)' = PendingIds(u)
  BY <1>1, <1>2, <1>4 DEF PendingIds, Unwritten, TypeOK
<1>5. Unwritten(t)' = {k \in Unwritten(t) : PartOf[batch[t][k]] # p}
  BY <1>1, <1>2 DEF Unwritten, TypeOK
<1>6. /\ PendingIds(t)' \subseteq PendingIds(t)
      /\ PendingIds(t) \subseteq PendingIds(t)' \cup PartitionIds(t, p)
  BY <1>2, <1>5 DEF PendingIds, PartitionIds
<1>7. /\ AllPending' \subseteq AllPending
      /\ AllPending \subseteq AllPending' \cup PartitionIds(t, p)
  BY <1>4, <1>6 DEF AllPending
<1>8. Ids(buffer') = Ids(buffer)
  BY <1>2
<1>9. /\ MemoryIds = Ids(buffer) \cup AllPending
      /\ MemoryIds' = Ids(buffer') \cup AllPending'
  BY DEF MemoryIds, AllPending
<1>10. /\ MemoryIds' \subseteq MemoryIds
       /\ MemoryIds \ PartitionIds(t, p) \subseteq MemoryIds'
  BY <1>7, <1>8, <1>9
<1>11. /\ discarded' = discarded \cup {}
       /\ MemoryIds \ (PartitionIds(t, p) \cup {}) \subseteq MemoryIds'
       /\ {} \in SUBSET MemoryIds
       /\ PartitionIds(t, p) \in SUBSET MemoryIds
  BY <1>2, <1>10, PartitionIsPending
<1> QED
  BY <1>2, <1>3, <1>10, <1>11, SettleRefines

LEMMA FailWriteRefines ==
  ASSUME TypeOK, NEW t \in Thread, FailWrite(t)
  PROVE  Delivery!Next
<1>1. PICK p \in Partition : raw' \in {raw, RawWith(t, p)}
  BY DEF FailWrite
<1>2. /\ batch' = [batch EXCEPT ![t] = <<>>]
      /\ written' = [written EXCEPT ![t] = {}]
      /\ discarded' = discarded \cup PendingIds(t)
      /\ buffer' = buffer
      /\ backlog' = backlog
  BY DEF FailWrite, server
<1>3. \E kept \in SUBSET MemoryIds : RawIds' = RawIds \cup kept /\ kept \subseteq PendingIds(t)
  <2>1. CASE raw' = raw
    <3>1. RawIds' = RawIds \cup {}
      BY <2>1 DEF RawIds
    <3>2. {} \in SUBSET MemoryIds /\ {} \subseteq PendingIds(t)
      OBVIOUS
    <3> QED
      BY <3>1, <3>2
  <2>2. CASE raw' = RawWith(t, p)
    <3>1. PartitionIds(t, p) \subseteq PendingIds(t)
      BY DEF PartitionIds, PendingIds
    <3> QED
      BY <2>2, <3>1, RawWithPartition, PartitionIsPending
  <2> QED
    BY <1>1, <2>1, <2>2
<1>4. ASSUME NEW u \in Thread, u # t PROVE PendingIds(u)' = PendingIds(u)
  BY <1>2, <1>4 DEF PendingIds, Unwritten, TypeOK
<1>5. PendingIds(t)' = {}
  BY <1>2 DEF PendingIds, Unwritten, Kept, TypeOK
<1>6. /\ AllPending' \subseteq AllPending
      /\ AllPending \subseteq AllPending' \cup PendingIds(t)
  BY <1>4, <1>5 DEF AllPending
<1>7. /\ MemoryIds = Ids(buffer) \cup AllPending
      /\ MemoryIds' = Ids(buffer') \cup AllPending'
  BY DEF MemoryIds, AllPending
<1>8. /\ MemoryIds' \subseteq MemoryIds
      /\ MemoryIds \ PendingIds(t) \subseteq MemoryIds'
  BY <1>2, <1>6, <1>7
<1>9. PICK kept \in SUBSET MemoryIds : RawIds' = RawIds \cup kept /\ kept \subseteq PendingIds(t)
  BY <1>3
<1>10. MemoryIds \ (kept \cup PendingIds(t)) \subseteq MemoryIds'
  BY <1>8
<1>11. PendingIds(t) \in SUBSET MemoryIds
  BY DEF MemoryIds
<1> QED
  BY <1>2, <1>8, <1>9, <1>10, <1>11, SettleRefines

LEMMA FinishFlushRefines ==
  ASSUME TypeOK, NEW t \in Thread, FinishFlush(t)
  PROVE  UNCHANGED Delivery!vars
<1>1. /\ batch' = [batch EXCEPT ![t] = <<>>]
      /\ written' = [written EXCEPT ![t] = {}]
      /\ PendingIds(t) = {}
      /\ UNCHANGED <<backlog, buffer, raw, discarded>>
  BY DEF FinishFlush, PendingIds, server
<1>2. ASSUME NEW u \in Thread, u # t PROVE PendingIds(u)' = PendingIds(u)
  BY <1>1, <1>2 DEF PendingIds, Unwritten, TypeOK
<1>3. PendingIds(t)' = {}
  BY <1>1 DEF PendingIds, Unwritten, Kept, TypeOK
<1>4. AllPending' = AllPending
  BY <1>1, <1>2, <1>3 DEF AllPending
<1>5. MemoryIds' = MemoryIds /\ RawIds' = RawIds
  BY <1>1, <1>4 DEF MemoryIds, AllPending, RawIds
<1> QED
  BY <1>1, <1>5 DEF Delivery!vars

LEMMA VanishRefines ==
  ASSUME Vanish
  PROVE  Delivery!Next
<1>1. /\ RawIds' = RawIds
      /\ discarded' = discarded \cup MemoryIds
      /\ backlog' = backlog
      /\ buffer' = <<>>
      /\ batch' = [t \in Thread |-> <<>>]
  BY DEF Vanish, server, RawIds
<1>2. \A t \in Thread : PendingIds(t)' = {}
  BY <1>1 DEF PendingIds, Unwritten, Kept
<1>3. MemoryIds' = {}
  BY <1>1, <1>2 DEF MemoryIds, Ids
<1>4. RawIds' = RawIds \cup {}
  BY <1>1
<1> QED
  BY <1>1, <1>3, <1>4, SettleRefines

-----------------------------------------------------------------------------
LEMMA InitRefines == Init => Delivery!Init
<1> SUFFICES ASSUME Init PROVE Delivery!Init
  OBVIOUS
<1>1. RawIds = {}
  BY DEF Init, RawIds
<1>2. MemoryIds = {}
  BY DEF Init, MemoryIds, Ids, PendingIds, Unwritten, Kept
<1> QED
  BY <1>1, <1>2 DEF Init, Delivery!Init

LEMMA StepRefines ==
  ASSUME LossInv, [Next]_vars
  PROVE  [Delivery!Next]_(Delivery!vars)
<1>1. TypeOK
  BY DEF LossInv
<1>2. CASE \/ Start \/ Subscribe \/ ResultRaises \/ SetStopEvent \/ Interrupt
           \/ Tick \/ StopFlusher \/ UNCHANGED vars
  BY <1>2, UnchangedAbstract
     DEF Start, Subscribe, ResultRaises, SetStopEvent, Interrupt, Tick, StopFlusher,
         vars, process, server
<1>3. ASSUME NEW w \in Worker, NEW m \in Message, Deliver(w, m)
      PROVE  UNCHANGED Delivery!vars
  BY <1>3, UnchangedAbstract DEF Deliver
<1>4. ASSUME NEW w \in Worker, WorkerStep(w)
      PROVE  Delivery!Next \/ UNCHANGED Delivery!vars
  BY <1>1, <1>4, AddRefines, AckRefines DEF WorkerStep
<1>5. ASSUME NEW t \in Thread, FlushStep(t) \/ FailWrite(t)
      PROVE  Delivery!Next \/ UNCHANGED Delivery!vars
  BY <1>1, <1>5, TakeBatchRefines, WritePartitionRefines, FinishFlushRefines, FailWriteRefines
     DEF FlushStep
<1>6. CASE ProcessExit \/ Kill
  BY <1>6, VanishRefines DEF ProcessExit, Kill
<1> QED
  BY <1>2, <1>3, <1>4, <1>5, <1>6 DEF Next, MainStep

\* The threads, the lock and the flushes implement at-least-once delivery, for
\* any number of workers, messages, ids, partitions and faults.
THEOREM ImplementsAtLeastOnce == Spec => DeliversAtLeastOnce
<1>1. Spec => []LossInv
  BY LossInvariant
<1> QED
  BY <1>1, InitRefines, StepRefines, PTL DEF Spec, DeliversAtLeastOnce, Delivery!Spec

-----------------------------------------------------------------------------
(* What the abstract specification is good for.                            *)

\* At-least-once delivery by itself, for any of its implementations, loses nothing
\* silently: an acknowledgement needs an id that is accounted for, and no step
\* takes an id out of the account.
THEOREM AtLeastOnceLosesNothing == Delivery!Spec => []Delivery!NothingLostSilently
<1>1. Delivery!Init => Delivery!NothingLostSilently
  BY DEF Delivery!Init, Delivery!NothingLostSilently
<1>2. Delivery!NothingLostSilently /\ [Delivery!Next]_(Delivery!vars)
        => Delivery!NothingLostSilently'
  <2> SUFFICES ASSUME Delivery!NothingLostSilently, [Delivery!Next]_(Delivery!vars)
               PROVE  Delivery!NothingLostSilently'
    OBVIOUS
  <2> USE DEF Delivery!NothingLostSilently, Delivery!Accounted
  <2>1. ASSUME NEW m \in Message, Delivery!Receive(m)
        PROVE  Delivery!NothingLostSilently'
    BY <2>1 DEF Delivery!Receive
  <2>2. ASSUME NEW m \in Message, Delivery!Acknowledge(m)
        PROVE  Delivery!NothingLostSilently'
    BY <2>2 DEF Delivery!Acknowledge
  <2>3. ASSUME NEW kept \in SUBSET MemoryIds, NEW failed \in SUBSET MemoryIds,
               Delivery!Settle(kept, failed)
        PROVE  Delivery!NothingLostSilently'
    BY <2>3 DEF Delivery!Settle
  <2>4. CASE UNCHANGED Delivery!vars
    BY <2>4 DEF Delivery!vars
  <2> QED
    BY <2>1, <2>2, <2>3, <2>4 DEF Delivery!Next
<1> QED
  BY <1>1, <1>2, PTL DEF Delivery!Spec
=============================================================================
