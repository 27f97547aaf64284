-------------------------- MODULE RawConsumerProofs --------------------------
(***************************************************************************)
(* Theorems about RawConsumer, for any number of messages and workers, any *)
(* flush size and interval, and any choice and number of faults.           *)
(***************************************************************************)
EXTENDS RawConsumer, FiniteSetTheorems, WellFoundedInduction, TLAPS

\* What a thread has still to write, and what the process holds, are event ids.
LEMMA PendingType ==
  ASSUME TypeOK
  PROVE  /\ Ids(buffer) \subseteq EventId
         /\ \A t \in Thread : PendingIds(t) \subseteq EventId
         /\ MemoryIds \subseteq EventId
<1>1. Ids(buffer) \subseteq EventId
  BY DataAssumption DEF Ids, TypeOK
<1>2. ASSUME NEW t \in Thread PROVE PendingIds(t) \subseteq EventId
  <2>1. batch[t] \in Seq(Message)
    BY DEF TypeOK
  <2> QED
    BY <2>1, DataAssumption DEF PendingIds, Unwritten, Kept
<1> QED
  BY <1>1, <1>2 DEF MemoryIds

LEMMA InitType == Init => TypeOK
<1> SUFFICES ASSUME Init PROVE TypeOK
  OBVIOUS
<1> USE DataAssumption, ThreadAssumption, BoundAssumption DEF Init
<1>1. PcType
  BY DEF PcType, PowerOff, Thread, WorkerLabel, FlusherLabel, MainLabel
<1>2. HoldsWhatItWorksOn
  BY DEF HoldsWhatItWorksOn, PowerOff, Thread
<1>3. /\ batch \in [Thread -> Seq(Message)]
      /\ written \in [Thread -> SUBSET Partition]
      /\ buffer \in Seq(Message)
  OBVIOUS
<1>4. /\ current \in [Worker -> Message \cup {NoMessage}]
      /\ raw \in [Message -> Nat]
      /\ deliveries \in [Message -> Nat]
  OBVIOUS
<1>5. ticks \in 0 .. FlushTicks /\ discarded \subseteq EventId
  OBVIOUS
<1> QED
  BY <1>1, <1>2, <1>3, <1>4, <1>5 DEF TypeOK

LEMMA StepType == TypeOK /\ [Next]_vars => TypeOK'
<1> SUFFICES ASSUME TypeOK, [Next]_vars PROVE TypeOK'
  OBVIOUS
<1> USE DataAssumption, ThreadAssumption, BoundAssumption DEF TypeOK, server
<1>1. CASE Start
  <2>1. PcType'
    BY <1>1 DEF Start, PcType, Thread, WorkerLabel, FlusherLabel, MainLabel
  <2>2. HoldsWhatItWorksOn'
    BY <1>1 DEF Start, HoldsWhatItWorksOn, PcType, Thread
  <2> QED
    BY <1>1, <2>1, <2>2 DEF Start, Thread
<1>2. CASE Subscribe
  <2>1. PcType'
    BY <1>2 DEF Subscribe, Goto, PcType, Thread, WorkerLabel, FlusherLabel, MainLabel
  <2>2. HoldsWhatItWorksOn'
    BY <1>2 DEF Subscribe, Goto, HoldsWhatItWorksOn, PcType, Thread
  <2> QED
    BY <1>2, <2>1, <2>2 DEF Subscribe, Goto, Thread
<1>3. CASE ResultRaises
  <2>1. PcType'
    BY <1>3 DEF ResultRaises, Goto, PcType, Thread, WorkerLabel, FlusherLabel, MainLabel
  <2>2. HoldsWhatItWorksOn'
    BY <1>3 DEF ResultRaises, Goto, HoldsWhatItWorksOn, PcType, Thread
  <2> QED
    BY <1>3, <2>1, <2>2 DEF ResultRaises, Goto, Thread
<1>4. CASE SetStopEvent
  <2>1. PcType'
    BY <1>4 DEF SetStopEvent, Goto, PcType, Thread, WorkerLabel, FlusherLabel, MainLabel
  <2>2. HoldsWhatItWorksOn'
    BY <1>4 DEF SetStopEvent, Goto, HoldsWhatItWorksOn, PcType, Thread
  <2> QED
    BY <1>4, <2>1, <2>2 DEF SetStopEvent, Goto, Thread
<1>5. CASE Interrupt
  <2>1. PcType'
    BY <1>5 DEF Interrupt, Goto, PcType, Thread, WorkerLabel, FlusherLabel, MainLabel
  <2>2. HoldsWhatItWorksOn'
    BY <1>5 DEF Interrupt, Goto, HoldsWhatItWorksOn, PcType, Thread
  <2> QED
    BY <1>5, <2>1, <2>2 DEF Interrupt, Goto, Thread
<1>6. CASE Tick
  <2>1. PcType'
    BY <1>6 DEF Tick, Goto, PcType, Thread, WorkerLabel, FlusherLabel, MainLabel
  <2>2. HoldsWhatItWorksOn'
    BY <1>6 DEF Tick, Goto, HoldsWhatItWorksOn, PcType, Thread
  <2> QED
    BY <1>6, <2>1, <2>2 DEF Tick, Goto, Thread
<1>7. CASE StopFlusher
  <2>1. PcType'
    BY <1>7 DEF StopFlusher, Goto, PcType, Thread, WorkerLabel, FlusherLabel, MainLabel
  <2>2. HoldsWhatItWorksOn'
    BY <1>7 DEF StopFlusher, Goto, HoldsWhatItWorksOn, PcType, Thread
  <2> QED
    BY <1>7, <2>1, <2>2 DEF StopFlusher, Goto, Thread
<1>8. ASSUME NEW w \in Worker, NEW m \in Message, Deliver(w, m) PROVE TypeOK'
  <2>1. PcType'
    BY <1>8 DEF Deliver, Fault, Goto, PcType, Thread, WorkerLabel, FlusherLabel, MainLabel
  <2>2. HoldsWhatItWorksOn'
    BY <1>8 DEF Deliver, Fault, Goto, HoldsWhatItWorksOn, PcType, Thread
  <2>3. current' \in [Worker -> Message \cup {NoMessage}]
    BY <1>8 DEF Deliver
  <2>4. deliveries' \in [Message -> Nat]
    BY <1>8 DEF Deliver
  <2>5. faults' \in Nat
    BY <1>8 DEF Deliver, Fault
  <2> QED
    BY <1>8, <2>1, <2>2, <2>3, <2>4, <2>5 DEF Deliver
<1>9. ASSUME NEW w \in Worker, Add(w) PROVE TypeOK'
  <2>1. PcType'
    BY <1>9 DEF Add, Goto, PcType, Thread, WorkerLabel, FlusherLabel, MainLabel
  <2>2. HoldsWhatItWorksOn'
    BY <1>9 DEF Add, Goto, HoldsWhatItWorksOn, PcType, Thread
  <2>3. buffer' \in Seq(Message)
    <3>1. current[w] \in Message
      BY <1>9 DEF Add, HoldsWhatItWorksOn
    <3> QED
      BY <1>9, <3>1 DEF Add
  <2> QED
    BY <1>9, <2>1, <2>2, <2>3 DEF Add
<1>10. ASSUME NEW w \in Worker, Ack(w) PROVE TypeOK'
  <2>1. PcType'
    BY <1>10 DEF Ack, Fault, Goto, PcType, Thread, WorkerLabel, FlusherLabel, MainLabel
  <2>2. HoldsWhatItWorksOn'
    BY <1>10 DEF Ack, Fault, Goto, HoldsWhatItWorksOn, PcType, Thread
  <2> QED
    BY <1>10, <2>1, <2>2 DEF Ack, Fault, Goto, Thread
<1>11. ASSUME NEW t \in Thread, TakeBatch(t) PROVE TypeOK'
  <2>1. PcType'
    <3>1. PICK label : /\ Goto(t, label)
                       /\ t \in Worker => label \in {"ack", "idle", "write"}
                       /\ t = Flusher => label \in {"wait", "off", "write"}
                       /\ t = Main => label \in {"exiting", "write"}
      BY <1>11 DEF TakeBatch, Return, Raise
    <3> QED
      BY <3>1 DEF Goto, PcType, Thread, WorkerLabel, FlusherLabel, MainLabel
  <2>2. HoldsWhatItWorksOn'
    <3>1. CASE Return(t) /\ UNCHANGED batch
      BY <1>11, <3>1 DEF TakeBatch, Goto, Return, HoldsWhatItWorksOn, PcType, Thread
    <3>2. CASE Goto(t, "write") /\ batch' = [batch EXCEPT ![t] = buffer] /\ UNCHANGED current
      BY <1>11, <3>2 DEF TakeBatch, Goto, HoldsWhatItWorksOn, PcType, Thread
    <3>3. CASE Raise(t) /\ UNCHANGED batch
      BY <1>11, <3>3 DEF TakeBatch, Goto, Raise, HoldsWhatItWorksOn, PcType, Thread
    <3> QED
      BY <1>11, <3>1, <3>2, <3>3 DEF TakeBatch
  <2>3. batch' \in [Thread -> Seq(Message)] /\ written' \in [Thread -> SUBSET Partition]
    <3>1. \/ UNCHANGED <<batch, written>>
          \/ /\ batch' = [batch EXCEPT ![t] = buffer]
             /\ written' = [written EXCEPT ![t] = {}]
      BY <1>11 DEF TakeBatch
    <3>2. [batch EXCEPT ![t] = buffer] \in [Thread -> Seq(Message)]
      OBVIOUS
    <3>3. [written EXCEPT ![t] = {}] \in [Thread -> SUBSET Partition]
      OBVIOUS
    <3> QED
      BY <3>1, <3>2, <3>3
  <2>4. current' \in [Worker -> Message \cup {NoMessage}] /\ ticks' \in 0 .. FlushTicks
    <3>1. \/ UNCHANGED current
          \/ t \in Worker /\ current' = [current EXCEPT ![t] = NoMessage]
      BY <1>11 DEF TakeBatch, Return, Raise
    <3>2. current' \in [Worker -> Message \cup {NoMessage}]
      BY <3>1
    <3>3. ticks' \in {0, ticks}
      BY <1>11 DEF TakeBatch, Return, Raise
    <3>4. ticks' \in 0 .. FlushTicks
      BY <3>3
    <3> QED
      BY <3>2, <3>4
  <2>5. callbackError' \in BOOLEAN
    BY <1>11 DEF TakeBatch, Return, Raise
  <2>6. discarded' \subseteq EventId
    BY <1>11, PendingType DEF TakeBatch
  <2> QED
    BY <1>11, <2>1, <2>2, <2>3, <2>4, <2>5, <2>6 DEF TakeBatch
<1>12. ASSUME NEW t \in Thread, WritePartition(t) PROVE TypeOK'
  <2>1. PcType'
    BY <1>12 DEF WritePartition, RawWith, PcType, Thread, WorkerLabel, FlusherLabel, MainLabel
  <2>2. HoldsWhatItWorksOn'
    BY <1>12 DEF WritePartition, RawWith, HoldsWhatItWorksOn, PcType, Thread
  <2>3. raw' \in [Message -> Nat]
    BY <1>12 DEF WritePartition, RawWith
  <2>4. written' \in [Thread -> SUBSET Partition]
    BY <1>12 DEF WritePartition
  <2> QED
    BY <1>12, <2>1, <2>2, <2>3, <2>4 DEF WritePartition
<1>13. ASSUME NEW t \in Thread, FinishFlush(t) PROVE TypeOK'
  <2>1. PcType'
    BY <1>13 DEF FinishFlush, Return, Goto, PcType, Thread, WorkerLabel, FlusherLabel, MainLabel
  <2>2. HoldsWhatItWorksOn'
    BY <1>13 DEF FinishFlush, Return, Goto, HoldsWhatItWorksOn, PcType, Thread
  <2> QED
    BY <1>13, <2>1, <2>2 DEF FinishFlush, Return, Goto, Thread
<1>14. ASSUME NEW t \in Thread, FailWrite(t) PROVE TypeOK'
  <2>1. PcType'
    BY <1>14 DEF FailWrite, Fault, Raise, Goto, RawWith, PcType, Thread, WorkerLabel, FlusherLabel, MainLabel
  <2>2. HoldsWhatItWorksOn'
    BY <1>14 DEF FailWrite, Fault, Raise, Goto, RawWith, HoldsWhatItWorksOn, PcType, Thread
  <2>3. raw' \in [Message -> Nat]
    <3>1. \A p \in Partition : RawWith(t, p) \in [Message -> Nat]
      BY DEF RawWith
    <3> QED
      BY <1>14, <3>1 DEF FailWrite
  <2>4. batch' \in [Thread -> Seq(Message)] /\ written' \in [Thread -> SUBSET Partition]
    BY <1>14 DEF FailWrite
  <2>5. current' \in [Worker -> Message \cup {NoMessage}] /\ callbackError' \in BOOLEAN
    BY <1>14 DEF FailWrite, Raise
  <2>6. discarded' \subseteq EventId
    BY <1>14, PendingType DEF FailWrite
  <2> QED
    BY <1>14, <2>1, <2>2, <2>3, <2>4, <2>5, <2>6 DEF FailWrite, Fault, Raise
<1>15. CASE Vanish /\ (UNCHANGED faults \/ Fault("kill"))
  <2>1. PcType'
    BY <1>15 DEF Vanish, PowerOff, Fault, PcType, Thread, WorkerLabel, FlusherLabel, MainLabel
  <2>2. HoldsWhatItWorksOn'
    BY <1>15 DEF Vanish, PowerOff, Fault, HoldsWhatItWorksOn, PcType, Thread
  <2>3. batch' \in [Thread -> Seq(Message)] /\ written' \in [Thread -> SUBSET Partition]
    BY <1>15 DEF Vanish
  <2>4. current' \in [Worker -> Message \cup {NoMessage}] /\ buffer' \in Seq(Message)
    BY <1>15 DEF Vanish
  <2>5. discarded' \subseteq EventId
    BY <1>15, PendingType DEF Vanish
  <2>6. ticks' \in 0 .. FlushTicks /\ faults' \in Nat
    BY <1>15 DEF Vanish, Fault
  <2> QED
    BY <1>15, <2>1, <2>2, <2>3, <2>4, <2>5, <2>6 DEF Vanish
<1>16. CASE UNCHANGED vars
  BY <1>16 DEF vars, process, PcType, HoldsWhatItWorksOn
<1> QED
  BY <1>1, <1>2, <1>3, <1>4, <1>5, <1>6, <1>7, <1>8, <1>9, <1>10, <1>11, <1>12, <1>13,
     <1>14, <1>15, <1>16
     DEF Next, MainStep, ProcessExit, Kill, WorkerStep, FlushStep

\* Every reachable state is well typed: in particular a worker holds a message
\* exactly while its callback runs, and a batch only while it writes.
THEOREM TypeCorrect == Spec => []TypeOK
  BY InitType, StepType, PTL DEF Spec

-----------------------------------------------------------------------------
(* No acknowledged event is lost silently.                                 *)

\* Ids that are out of the buffer's reach: stored, in a thread's hands, or
\* dropped by a failure.
Settled == RawIds \cup (UNION {PendingIds(t) : t \in Thread}) \cup discarded

Known == Ids(buffer) \cup Settled

\* Deduplication keeps one event of every id in the buffer.
BufferKept ==
  \A k \in DOMAIN buffer : \E j \in Kept(buffer) : IdOf[buffer[j]] = IdOf[buffer[k]]

\* A callback that is past add() may acknowledge at any time, so its event must
\* be accounted for already.
HeldKnown ==
  \A w \in Worker : pc[w] \in {"flush", "write", "ack"} => IdOf[current[w]] \in Known

AckedKnown == \A m \in Message \ backlog : IdOf[m] \in Known

\* From the final flush on nothing is acknowledged if the stream is closed.
FinalSettled ==
  (pc[Main] \in {"write", "exiting"} /\ stream = "closed") =>
     \A m \in Message \ backlog : IdOf[m] \in Settled

LossInv == TypeOK /\ BufferKept /\ HeldKnown /\ AckedKnown /\ FinalSettled

\* Appending an event leaves the kept positions kept, and keeps the new one
\* unless its id is there already.
LEMMA AppendKept ==
  ASSUME NEW s \in Seq(Message), NEW m \in Message,
         \A k \in DOMAIN s : \E j \in Kept(s) : IdOf[s[j]] = IdOf[s[k]]
  PROVE  \A k \in DOMAIN Append(s, m) :
            \E j \in Kept(Append(s, m)) : IdOf[Append(s, m)[j]] = IdOf[Append(s, m)[k]]
<1> DEFINE a == Append(s, m)
<1>1. /\ DOMAIN s = 1 .. Len(s) /\ Len(s) \in Nat
      /\ DOMAIN a = 1 .. Len(s) + 1
      /\ a[Len(s) + 1] = m
      /\ \A k \in DOMAIN s : a[k] = s[k]
  OBVIOUS
<1>2. Kept(s) \subseteq Kept(a)
  <2> SUFFICES ASSUME NEW k \in Kept(s)
               PROVE  k \in Kept(a)
    OBVIOUS
  <2>1. k \in DOMAIN s /\ \A j \in 1 .. k - 1 : IdOf[s[j]] # IdOf[s[k]]
    BY DEF Kept
  <2>2. k \in DOMAIN a /\ a[k] = s[k]
    BY <1>1, <2>1
  <2>3. \A j \in 1 .. k - 1 : a[j] = s[j]
    BY <1>1, <2>1
  <2> HIDE DEF a
  <2> QED BY <2>1, <2>2, <2>3 DEF Kept
<1>3. ASSUME NEW k \in DOMAIN a PROVE \E j \in Kept(a) : IdOf[a[j]] = IdOf[a[k]]
  <2>1. CASE k \in DOMAIN s
    <3>1. PICK j \in Kept(s) : IdOf[s[j]] = IdOf[s[k]]
      BY <2>1
    <3>2. j \in DOMAIN s
      BY DEF Kept
    <3> QED
      BY <1>1, <1>2, <2>1, <3>1, <3>2
  <2>2. CASE k = Len(s) + 1 /\ \E i \in DOMAIN s : IdOf[s[i]] = IdOf[m]
    <3>1. PICK i \in DOMAIN s : IdOf[s[i]] = IdOf[m]
      BY <2>2
    <3>2. PICK j \in Kept(s) : IdOf[s[j]] = IdOf[s[i]]
      OBVIOUS
    <3>3. j \in DOMAIN s
      BY DEF Kept
    <3> QED
      BY <1>1, <1>2, <2>2, <3>1, <3>2, <3>3
  <2>3. CASE k = Len(s) + 1 /\ \A i \in DOMAIN s : IdOf[s[i]] # IdOf[m]
    <3>1. \A j \in 1 .. k - 1 : j \in DOMAIN s /\ a[j] = s[j]
      BY <1>1, <2>3
    <3>2. k \in Kept(a)
      BY <1>1, <2>3, <3>1 DEF Kept
    <3> QED
      BY <3>2
  <2>4. k \in DOMAIN s \/ k = Len(s) + 1
    BY <1>1
  <2> QED
    BY <2>1, <2>2, <2>3, <2>4
<1> QED
  BY <1>3

\* What the ids depend on.
LEMMA UnchangedIds ==
  ASSUME UNCHANGED <<batch, written, raw, discarded>>
  PROVE  Settled' = Settled
  BY DEF Settled, RawIds, PendingIds, Unwritten

LEMMA RawGrows ==
  ASSUME TypeOK, NEW t \in Thread, NEW p, raw' \in {raw, RawWith(t, p)}
  PROVE  RawIds \subseteq RawIds'
<1>1. \A m \in Message : raw[m] > 0 => raw'[m] > 0
  <2>1. CASE raw' = raw
    BY <2>1
  <2>2. CASE raw' = RawWith(t, p)
    <3>1. \A m \in Message : raw'[m] \in {raw[m], raw[m] + 1} /\ raw[m] \in Nat
      BY <2>2 DEF TypeOK, RawWith
    <3> QED
      BY <3>1
  <2> QED
    BY <2>1, <2>2
<1> QED
  BY <1>1 DEF RawIds

\* No step takes an id away from Settled, and an id leaves the buffer for
\* Settled only.
LEMMA IdsMove ==
  ASSUME TypeOK, BufferKept, [Next]_vars
  PROVE  Settled \subseteq Settled' /\ Ids(buffer) \subseteq Ids(buffer') \cup Settled'
<1> DEFINE Goal == Settled \subseteq Settled' /\ Ids(buffer) \subseteq Ids(buffer') \cup Settled'
<1>1. ASSUME UNCHANGED <<buffer, batch, written, raw, discarded>> PROVE Goal
  BY <1>1, UnchangedIds
<1>2. ASSUME NEW w \in Worker, Add(w) PROVE Goal
  <2>1. current[w] \in Message /\ buffer \in Seq(Message)
    BY <1>2, DataAssumption DEF Add, TypeOK, HoldsWhatItWorksOn
  <2>2. Ids(buffer) \subseteq Ids(buffer')
    BY <1>2, <2>1 DEF Add, Ids
  <2> QED
    BY <1>2, <2>2, UnchangedIds DEF Add
<1>3. ASSUME NEW t \in Thread, TakeBatch(t) PROVE Goal
  <2>1. CASE buffer = <<>>
    <3>1. /\ UNCHANGED <<raw, batch, written>>
          /\ discarded' \in {discarded, discarded \cup Ids(buffer)}
      BY <1>3, <2>1 DEF TakeBatch
    <3>2. Ids(buffer) = {}
      BY <2>1 DEF Ids
    <3> QED
      BY <3>1, <3>2, UnchangedIds
  <2>2. CASE buffer # <<>> /\ ~Unpartitionable(buffer)
    <3>1. /\ batch' = [batch EXCEPT ![t] = buffer]
          /\ written' = [written EXCEPT ![t] = {}]
          /\ UNCHANGED <<raw, discarded>>
      BY <1>3, <2>2 DEF TakeBatch
    <3>2. batch[t] = <<>>
      BY <1>3 DEF TakeBatch, TypeOK, HoldsWhatItWorksOn
    <3>3. PendingIds(t) = {}
      BY <3>2 DEF PendingIds, Unwritten, Kept
    <3>4. ASSUME NEW u \in Thread, u # t PROVE PendingIds(u)' = PendingIds(u)
      BY <3>1, <3>4 DEF PendingIds, Unwritten, TypeOK
    <3>5. Ids(buffer) \subseteq PendingIds(t)'
      <4>1. Unwritten(t)' = Kept(buffer)
        BY <3>1 DEF Unwritten, TypeOK
      <4>2. PendingIds(t)' = {IdOf[buffer[k]] : k \in Kept(buffer)}
        BY <3>1, <4>1 DEF PendingIds, TypeOK
      <4> QED
        BY <4>2 DEF Ids, BufferKept
    <3>6. RawIds' = RawIds
      BY <3>1 DEF RawIds
    <3> QED
      BY <3>1, <3>3, <3>4, <3>5, <3>6 DEF Settled
  <2>3. CASE Unpartitionable(buffer)
    <3>1. discarded' = discarded \cup Ids(buffer) /\ UNCHANGED <<raw, batch, written>>
      BY <1>3, <2>3 DEF TakeBatch, Unpartitionable, Kept
    <3>2. \A u \in Thread : PendingIds(u)' = PendingIds(u)
      BY <3>1 DEF PendingIds, Unwritten
    <3>3. RawIds' = RawIds
      BY <3>1 DEF RawIds
    <3>4. discarded \subseteq discarded' /\ Ids(buffer) \subseteq discarded'
      BY <3>1
    <3> QED
      BY <3>2, <3>3, <3>4 DEF Settled
  <2> QED
    BY <2>1, <2>2, <2>3
<1>4. ASSUME NEW t \in Thread, WritePartition(t) PROVE Goal
  <2>1. PICK p \in Partition :
           /\ raw' = RawWith(t, p)
           /\ written' = [written EXCEPT ![t] = @ \cup {p}]
    BY <1>4 DEF WritePartition
  <2>2. UNCHANGED <<batch, buffer, discarded>>
    BY <1>4 DEF WritePartition
  <2>3. RawIds \subseteq RawIds'
    BY <2>1, RawGrows
  <2>4. ASSUME NEW u \in Thread, u # t PROVE PendingIds(u)' = PendingIds(u)
    BY <2>1, <2>2, <2>4 DEF PendingIds, Unwritten, TypeOK
  <2>5. PendingIds(t) \subseteq PendingIds(t)' \cup RawIds'
    <3>1. ASSUME NEW k \in Unwritten(t)
          PROVE  IdOf[batch[t][k]] \in PendingIds(t)' \cup RawIds'
      <4>1. k \in DOMAIN batch[t] /\ batch[t][k] \in Message
        BY DEF Unwritten, Kept, TypeOK
      <4>2. CASE PartOf[batch[t][k]] = p
        <5>1. raw'[batch[t][k]] > 0
          BY <2>1, <4>1, <4>2 DEF RawWith, TypeOK
        <5> QED
          BY <4>1, <5>1 DEF RawIds
      <4>3. CASE PartOf[batch[t][k]] # p
        <5>1. k \in Unwritten(t)'
          BY <2>1, <2>2, <4>3 DEF Unwritten, TypeOK
        <5> QED
          BY <2>2, <5>1 DEF PendingIds
      <4> QED
        BY <4>2, <4>3
    <3> QED
      BY <3>1 DEF PendingIds
  <2> QED
    BY <2>2, <2>3, <2>4, <2>5 DEF Settled
<1>5. ASSUME NEW t \in Thread, FailWrite(t) PROVE Goal
  <2>1. PICK p \in Partition : raw' \in {raw, RawWith(t, p)}
    BY <1>5 DEF FailWrite
  <2>2. /\ batch' = [batch EXCEPT ![t] = <<>>]
        /\ written' = [written EXCEPT ![t] = {}]
        /\ discarded' = discarded \cup PendingIds(t)
        /\ buffer' = buffer
    BY <1>5 DEF FailWrite
  <2>3. ASSUME NEW u \in Thread, u # t PROVE PendingIds(u)' = PendingIds(u)
    BY <2>2, <2>3 DEF PendingIds, Unwritten, TypeOK
  <2>4. discarded \subseteq discarded' /\ PendingIds(t) \subseteq discarded'
    BY <2>2
  <2>5. RawIds \subseteq RawIds'
    BY <2>1, RawGrows
  <2> QED
    BY <2>2, <2>3, <2>4, <2>5 DEF Settled
<1>6. ASSUME NEW t \in Thread, FinishFlush(t) PROVE Goal
  <2>1. /\ batch' = [batch EXCEPT ![t] = <<>>]
        /\ written' = [written EXCEPT ![t] = {}]
        /\ PendingIds(t) = {}
        /\ UNCHANGED <<buffer, raw, discarded>>
    BY <1>6 DEF FinishFlush, PendingIds
  <2>2. ASSUME NEW u \in Thread, u # t PROVE PendingIds(u)' = PendingIds(u)
    BY <2>1, <2>2 DEF PendingIds, Unwritten, TypeOK
  <2>3. RawIds' = RawIds
    BY <2>1 DEF RawIds
  <2> QED
    BY <2>1, <2>2, <2>3 DEF Settled
<1>7. ASSUME Vanish PROVE Goal
  <2>1. RawIds' = RawIds
    BY <1>7 DEF Vanish, RawIds
  <2>2. discarded \subseteq discarded' /\ MemoryIds \subseteq discarded'
    BY <1>7 DEF Vanish
  <2>3. Ids(buffer) \subseteq MemoryIds /\ UNION {PendingIds(t) : t \in Thread} \subseteq MemoryIds
    BY DEF MemoryIds
  <2> QED
    BY <2>1, <2>2, <2>3 DEF Settled
<1>8. CASE \/ Start \/ Subscribe \/ ResultRaises \/ SetStopEvent \/ Interrupt
           \/ Tick \/ StopFlusher \/ UNCHANGED vars
  BY <1>1, <1>8
     DEF Start, Subscribe, ResultRaises, SetStopEvent, Interrupt, Tick, StopFlusher,
         vars, process
<1>9. ASSUME NEW w \in Worker, Ack(w) \/ \E m \in Message : Deliver(w, m) PROVE Goal
  BY <1>1, <1>9 DEF Ack, Deliver
<1> QED
  BY <1>2, <1>3, <1>4, <1>5, <1>6, <1>7, <1>8, <1>9
     DEF Next, MainStep, ProcessExit, Kill, WorkerStep, FlushStep

LEMMA KnownGrows ==
  ASSUME TypeOK, BufferKept, [Next]_vars
  PROVE  Known \subseteq Known'
  BY IdsMove DEF Known

LEMMA InitLoss == Init => LossInv
<1> SUFFICES ASSUME Init PROVE LossInv
  OBVIOUS
<1>1. TypeOK
  BY InitType
<1>2. BufferKept /\ AckedKnown /\ FinalSettled
  BY DEF Init, BufferKept, AckedKnown, FinalSettled
<1>3. HeldKnown
  BY DEF Init, HeldKnown, PowerOff, Thread
<1> QED
  BY <1>1, <1>2, <1>3 DEF LossInv

LEMMA StepLoss == LossInv /\ [Next]_vars => LossInv'
<1> SUFFICES ASSUME LossInv, [Next]_vars PROVE LossInv'
  OBVIOUS
<1> USE DEF LossInv
<1>1. TypeOK'
  BY StepType
<1>2. BufferKept'
  <2>1. CASE buffer' = buffer
    BY <2>1 DEF BufferKept, Kept
  <2>2. CASE buffer' = <<>>
    BY <2>2 DEF BufferKept
  <2>3. ASSUME NEW w \in Worker, Add(w) PROVE BufferKept'
    <3>1. buffer \in Seq(Message) /\ current[w] \in Message
      BY <2>3, DataAssumption DEF Add, TypeOK, HoldsWhatItWorksOn
    <3>2. buffer' = Append(buffer, current[w])
      BY <2>3 DEF Add
    <3> QED
      <4> DEFINE a == Append(buffer, current[w])
      <4>1. \A k \in DOMAIN a : \E j \in Kept(a) : IdOf[a[j]] = IdOf[a[k]]
        BY <3>1, AppendKept DEF BufferKept
      <4>2. Kept(buffer)' = Kept(buffer')
        BY DEF Kept
      <4> QED
        BY <3>2, <4>1, <4>2 DEF BufferKept
  <2>4. \/ buffer' = buffer \/ buffer' = <<>> \/ \E w \in Worker : Add(w)
    BY DEF Next, MainStep, WorkerStep, FlushStep, ProcessExit, Kill, Vanish, Start, Subscribe,
           ResultRaises, SetStopEvent, Interrupt, Tick, StopFlusher, Deliver, Ack, TakeBatch,
           WritePartition, FailWrite, FinishFlush, vars, process
  <2> QED
    BY <2>1, <2>2, <2>3, <2>4
<1>3. Known \subseteq Known'
  BY KnownGrows
<1>4. HeldKnown'
  <2> SUFFICES ASSUME NEW w \in Worker, pc'[w] \in {"flush", "write", "ack"}
               PROVE  IdOf[current'[w]] \in Known'
    BY DEF HeldKnown
  <2>1. CASE pc[w] \in {"flush", "write", "ack"} /\ current'[w] = current[w]
    BY <1>3, <2>1 DEF HeldKnown
  <2>2. CASE Add(w)
    <3>1. buffer \in Seq(Message) /\ current[w] \in Message
      BY <2>2, DataAssumption DEF Add, TypeOK, HoldsWhatItWorksOn
    <3>2. IdOf[current[w]] \in Ids(buffer') /\ current' = current
      BY <2>2, <3>1 DEF Add, Ids
    <3> QED
      BY <3>2 DEF Known
  <2>3. (pc[w] \in {"flush", "write", "ack"} /\ current'[w] = current[w]) \/ Add(w)
    <3> USE ThreadAssumption DEF TypeOK, PcType, Thread, Goto
    <3>1. CASE UNCHANGED <<pc, current>>
      BY <3>1
    <3>2. CASE Start \/ Subscribe \/ ResultRaises \/ SetStopEvent \/ Interrupt \/ Tick
               \/ StopFlusher
      BY <3>2 DEF Start, Subscribe, ResultRaises, SetStopEvent, Interrupt, Tick, StopFlusher
    <3>3. CASE Vanish
      BY <3>3 DEF Vanish, PowerOff
    <3>4. ASSUME NEW v \in Worker, Add(v) \/ Ack(v) \/ \E m \in Message : Deliver(v, m)
          PROVE  (pc[w] \in {"flush", "write", "ack"} /\ current'[w] = current[w]) \/ Add(w)
      BY <3>4 DEF Add, Ack, Deliver
    <3>5. ASSUME NEW t \in Thread, TakeBatch(t) \/ FinishFlush(t)
          PROVE  pc[w] \in {"flush", "write", "ack"} /\ current'[w] = current[w]
      BY <3>5 DEF TakeBatch, FinishFlush, Return, Raise
    <3>6. ASSUME NEW t \in Thread, FailWrite(t)
          PROVE  pc[w] \in {"flush", "write", "ack"} /\ current'[w] = current[w]
      BY <3>6 DEF FailWrite, Raise
    <3>7. ASSUME NEW t \in Thread, WritePartition(t) PROVE UNCHANGED <<pc, current>>
      BY <3>7 DEF WritePartition
    <3> QED
      BY <3>1, <3>2, <3>3, <3>4, <3>5, <3>6, <3>7
         DEF Next, MainStep, ProcessExit, Kill, WorkerStep, FlushStep, vars, process
  <2> QED
    BY <2>1, <2>2, <2>3
<1>5. \/ backlog' = backlog
      \/ \E w \in Worker : Ack(w) /\ stream = "open" /\ backlog' = backlog \ {current[w]}
  <2>1. ASSUME NEW w \in Worker, Ack(w)
        PROVE  \/ backlog' = backlog
               \/ stream = "open" /\ backlog' = backlog \ {current[w]}
    BY <2>1 DEF Ack
  <2>2. backlog' = backlog \/ \E w \in Worker : Ack(w)
    BY DEF Next, MainStep, WorkerStep, FlushStep, ProcessExit, Kill, Vanish, Start, Subscribe,
           ResultRaises, SetStopEvent, Interrupt, Tick, StopFlusher, Deliver, Add, TakeBatch,
           WritePartition, FailWrite, FinishFlush, vars, server
  <2> QED
    BY <2>1, <2>2
<1>6. AckedKnown'
  <2>1. CASE backlog' = backlog
    BY <1>3, <2>1 DEF AckedKnown
  <2>2. ASSUME NEW w \in Worker, Ack(w), backlog' = backlog \ {current[w]}
        PROVE  AckedKnown'
    <3>1. IdOf[current[w]] \in Known
      BY <2>2 DEF Ack, HeldKnown
    <3> QED
      BY <1>3, <2>2, <3>1 DEF AckedKnown
  <2> QED
    BY <1>5, <2>1, <2>2
<1>7. FinalSettled'
  <2> SUFFICES ASSUME pc'[Main] \in {"write", "exiting"}, stream' = "closed"
               PROVE  \A m \in Message \ backlog' : IdOf[m] \in Settled'
    BY DEF FinalSettled
  <2>1. Settled \subseteq Settled'
    BY IdsMove
  <2>2. CASE pc[Main] \in {"write", "exiting"} /\ stream = "closed"
    BY <1>5, <2>1, <2>2 DEF FinalSettled
  <2>3. CASE TakeBatch(Main)
    <3>1. Ids(buffer') = {} /\ backlog' = backlog
      BY <2>3 DEF TakeBatch, Ids, server
    <3>2. Known \subseteq Settled'
      BY <1>3, <3>1 DEF Known
    <3> QED
      BY <3>1, <3>2 DEF AckedKnown
  <2>4. (pc[Main] \in {"write", "exiting"} /\ stream = "closed") \/ TakeBatch(Main)
    <3> USE ThreadAssumption DEF TypeOK, PcType, Thread, Goto
    <3>1. CASE UNCHANGED <<pc, stream>>
      BY <3>1
    <3>2. CASE Start \/ Subscribe \/ ResultRaises \/ SetStopEvent \/ Interrupt \/ Tick
               \/ StopFlusher
      BY <3>2 DEF Start, Subscribe, ResultRaises, SetStopEvent, Interrupt, Tick, StopFlusher
    <3>3. CASE Vanish
      BY <3>3 DEF Vanish, PowerOff
    <3>4. ASSUME NEW v \in Worker, Add(v) \/ Ack(v) \/ \E m \in Message : Deliver(v, m)
          PROVE  pc[Main] \in {"write", "exiting"} /\ stream = "closed"
      BY <3>4 DEF Add, Ack, Deliver
    <3>5. ASSUME NEW t \in Thread, TakeBatch(t) \/ FinishFlush(t)
          PROVE  (pc[Main] \in {"write", "exiting"} /\ stream = "closed") \/ TakeBatch(Main)
      BY <3>5 DEF TakeBatch, FinishFlush, Return, Raise
    <3>6. ASSUME NEW t \in Thread, FailWrite(t)
          PROVE  pc[Main] \in {"write", "exiting"} /\ stream = "closed"
      BY <3>6 DEF FailWrite, Raise
    <3>7. ASSUME NEW t \in Thread, WritePartition(t) PROVE UNCHANGED <<pc, stream>>
      BY <3>7 DEF WritePartition
    <3> QED
      BY <3>1, <3>2, <3>3, <3>4, <3>5, <3>6, <3>7
         DEF Next, MainStep, ProcessExit, Kill, WorkerStep, FlushStep, vars, process
  <2> QED
    BY <2>2, <2>3, <2>4
<1> QED
  BY <1>1, <1>2, <1>4, <1>6, <1>7

LEMMA LossInvariant == Spec => []LossInv
  BY InitLoss, StepLoss, PTL DEF Spec

\* An acknowledged event is in the raw layer, in the buffer, in a batch under
\* way, or a failure dropped its id: none falls between two flushers.
THEOREM AcknowledgedEventsAreKnown == Spec => []NoSilentLoss
<1>1. LossInv => NoSilentLoss
  BY DEF LossInv, AckedKnown, NoSilentLoss, Known, Settled, MemoryIds
<1> QED
  BY <1>1, LossInvariant, PTL

\* When the process stops after Ctrl+C, the buffer alone holds no acknowledged event.
THEOREM FinalFlushIsComplete == Spec => []FinalFlushKeepsAcked
<1>1. LossInv => FinalFlushKeepsAcked
  BY DEF LossInv, FinalSettled, FinalFlushKeepsAcked, Settled
<1> QED
  BY <1>1, LossInvariant, PTL

-----------------------------------------------------------------------------
(* The buffer outgrows flush_size only by the appends of workers about to  *)
(* flush it.                                                               *)

Flushing == {w \in Worker : pc[w] = "flush"}

LEMMA FlushingFinite == IsFiniteSet(Flushing) /\ Cardinality(Flushing) \in Nat
  BY ThreadAssumption, FS_Subset, FS_CardinalityType DEF Flushing

LEMMA StepOverrun ==
  ASSUME TypeOK, BufferOverrunBounded, [Next]_vars
  PROVE  BufferOverrunBounded'
<1> USE BoundAssumption, ThreadAssumption
<1>1. /\ IsFiniteSet(Flushing) /\ Cardinality(Flushing) \in Nat
      /\ IsFiniteSet(Flushing') /\ Cardinality(Flushing') \in Nat
      /\ buffer \in Seq(Message) /\ Len(buffer) \in Nat
      /\ FlushSize \in Nat /\ FlushSize > 0
  <2>1. IsFiniteSet(Flushing') /\ Cardinality(Flushing') \in Nat
    BY FS_Subset, FS_CardinalityType DEF Flushing
  <2> QED
    BY <2>1, FlushingFinite DEF TypeOK
<1>2. Len(buffer) + 1 <= FlushSize + Cardinality(Flushing)
  BY DEF BufferOverrunBounded, Flushing
<1>3. SUFFICES Len(buffer') + 1 <= FlushSize + Cardinality(Flushing')
  BY DEF BufferOverrunBounded, Flushing
<1>4. CASE buffer' = <<>>
  BY <1>1, <1>4
<1>5. CASE buffer' = buffer /\ Flushing' = Flushing
  BY <1>2, <1>5
<1>6. ASSUME NEW w \in Worker, Add(w)
      PROVE  Len(buffer') + 1 <= FlushSize + Cardinality(Flushing')
  <2>1. Len(buffer') = Len(buffer) + 1
    BY <1>1, <1>6, DataAssumption DEF Add, TypeOK, HoldsWhatItWorksOn
  <2>2. CASE ShouldFlush(buffer')
    <3>1. Flushing' = Flushing \cup {w} /\ w \notin Flushing
      BY <1>6, <2>2 DEF Add, Goto, Flushing, TypeOK, PcType, Thread
    <3>2. Cardinality(Flushing') = Cardinality(Flushing) + 1
      BY <1>1, <3>1, FS_AddElement
    <3> QED
      BY <1>1, <1>2, <2>1, <3>2
  <2>3. CASE ~ShouldFlush(buffer')
    BY <1>1, <2>1, <2>3 DEF ShouldFlush
  <2> QED
    BY <2>2, <2>3
<1>7. \/ buffer' = <<>>
      \/ buffer' = buffer /\ Flushing' = Flushing
      \/ \E w \in Worker : Add(w)
  <2> USE DEF TypeOK, PcType, Thread, Goto, Flushing
  <2>1. CASE UNCHANGED <<pc, buffer>>
    BY <2>1
  <2>2. CASE Start \/ Subscribe \/ ResultRaises \/ SetStopEvent \/ Interrupt \/ Tick
             \/ StopFlusher
    BY <2>2 DEF Start, Subscribe, ResultRaises, SetStopEvent, Interrupt, Tick, StopFlusher
  <2>3. ASSUME NEW v \in Worker, Ack(v) \/ \E m \in Message : Deliver(v, m)
        PROVE  buffer' = buffer /\ Flushing' = Flushing
    BY <2>3 DEF Ack, Deliver
  <2>4. ASSUME NEW t \in Thread, FinishFlush(t) \/ FailWrite(t)
        PROVE  buffer' = buffer /\ Flushing' = Flushing
    BY <2>4 DEF FinishFlush, FailWrite, Return, Raise
  <2>5. ASSUME NEW t \in Thread, WritePartition(t) PROVE UNCHANGED <<pc, buffer>>
    BY <2>5 DEF WritePartition
  <2>6. ASSUME NEW t \in Thread, TakeBatch(t) PROVE buffer' = <<>>
    BY <2>6 DEF TakeBatch
  <2>7. CASE Vanish
    BY <2>7 DEF Vanish
  <2> QED
    BY <2>1, <2>2, <2>3, <2>4, <2>5, <2>6, <2>7
       DEF Next, MainStep, ProcessExit, Kill, WorkerStep, FlushStep, vars, process
<1> QED
  BY <1>4, <1>5, <1>6, <1>7

\* The buffer holds fewer than flush_size events, and one more for each worker
\* that has appended past the limit and not flushed yet.
THEOREM BufferStaysBounded == Spec => []BufferOverrunBounded
<1>1. Init => BufferOverrunBounded
  <2> SUFFICES ASSUME Init PROVE Len(buffer) + 1 <= FlushSize + Cardinality(Flushing)
    BY DEF BufferOverrunBounded, Flushing
  <2> QED
    BY FlushingFinite, BoundAssumption DEF Init
<1>2. TypeOK /\ BufferOverrunBounded /\ [Next]_vars => BufferOverrunBounded'
  BY StepOverrun
<1> QED
  BY <1>1, <1>2, TypeCorrect, PTL DEF Spec

\* Whatever the workers do, the buffer holds less than flush_size events and one
\* for each of them.
THEOREM BufferHasAStaticBound == Spec => [](Len(buffer) < FlushSize + Cardinality(Worker))
<1>1. TypeOK /\ BufferOverrunBounded => Len(buffer) < FlushSize + Cardinality(Worker)
  <2> SUFFICES ASSUME TypeOK, BufferOverrunBounded
               PROVE  Len(buffer) < FlushSize + Cardinality(Worker)
    OBVIOUS
  <2>1. Flushing \in SUBSET Worker
    BY DEF Flushing
  <2>2. /\ Cardinality(Flushing) <= Cardinality(Worker)
        /\ Cardinality(Flushing) \in Nat /\ Cardinality(Worker) \in Nat
    BY <2>1, ThreadAssumption, FS_Subset, FS_CardinalityType
  <2>3. Len(buffer) + 1 <= FlushSize + Cardinality(Flushing)
    BY DEF BufferOverrunBounded, Flushing
  <2>4. Len(buffer) \in Nat /\ FlushSize \in Nat
    BY BoundAssumption DEF TypeOK
  <2> QED
    BY <2>2, <2>3, <2>4
<1> QED
  BY <1>1, TypeCorrect, BufferStaysBounded, PTL

-----------------------------------------------------------------------------
(* Every copy of a message has a delivery of its own: a delivery is first   *)
(* with the worker about to add it, then in the buffer, then in one         *)
(* thread's batch, then in a raw file.                                      *)

Adding(m) == {w \in Worker : pc[w] = "add" /\ current[w] = m}

Counted(m) ==
  /\ IsFiniteSet(InBatches(m))
  /\ Copies(m) + Cardinality(Adding(m)) <= deliveries[m]

CopyInv == \A m \in Message : Counted(m)

LEMMA PlacesFinite ==
  ASSUME TypeOK, NEW m \in Message
  PROVE  /\ IsFiniteSet(InBuffer(m)) /\ Cardinality(InBuffer(m)) \in Nat
         /\ IsFiniteSet(Adding(m)) /\ Cardinality(Adding(m)) \in Nat
<1>1. Len(buffer) \in Nat /\ DOMAIN buffer = 1 .. Len(buffer)
  BY DEF TypeOK
<1>2. IsFiniteSet(DOMAIN buffer)
  BY <1>1, FS_Interval
<1>3. InBuffer(m) \in SUBSET DOMAIN buffer
  BY DEF InBuffer
<1>4. Adding(m) \in SUBSET Worker
  BY DEF Adding
<1> QED
  BY <1>2, <1>3, <1>4, ThreadAssumption, FS_Subset, FS_CardinalityType

\* A subset of a finite set is finite and no larger.
LEMMA SubsetCount ==
  ASSUME NEW S, NEW T, IsFiniteSet(T), S \subseteq T
  PROVE  /\ IsFiniteSet(S) /\ Cardinality(S) \in Nat
         /\ Cardinality(T) \in Nat /\ Cardinality(S) <= Cardinality(T)
  BY FS_Subset, FS_CardinalityType

\* One more element makes a set larger by one at most.
LEMMA AddCount ==
  ASSUME NEW S, NEW x, IsFiniteSet(S)
  PROVE  /\ IsFiniteSet(S \cup {x})
         /\ Cardinality(S \cup {x}) <= Cardinality(S) + 1
<1>1. Cardinality(S) \in Nat
  BY FS_CardinalityType
<1>2. /\ IsFiniteSet(S \cup {x})
      /\ Cardinality(S \cup {x}) = IF x \in S THEN Cardinality(S) ELSE Cardinality(S) + 1
  BY FS_AddElement
<1> QED
  BY <1>1, <1>2

\* A step that moves no copy to a new place keeps the count.
LEMMA NothingArrives ==
  ASSUME TypeOK, NEW m \in Message, Counted(m),
         raw'[m] = raw[m], deliveries'[m] = deliveries[m],
         InBuffer(m)' \subseteq InBuffer(m), InBatches(m)' \subseteq InBatches(m),
         Adding(m)' \subseteq Adding(m)
  PROVE  Counted(m)'
<1>1. raw[m] \in Nat /\ deliveries[m] \in Nat
  BY DEF TypeOK
<1>2. /\ Cardinality(InBuffer(m)') <= Cardinality(InBuffer(m))
      /\ Cardinality(InBuffer(m)') \in Nat /\ Cardinality(InBuffer(m)) \in Nat
  BY PlacesFinite, SubsetCount
<1>3. /\ Cardinality(Adding(m)') <= Cardinality(Adding(m))
      /\ Cardinality(Adding(m)') \in Nat /\ Cardinality(Adding(m)) \in Nat
  BY PlacesFinite, SubsetCount
<1>4. /\ IsFiniteSet(InBatches(m)')
      /\ Cardinality(InBatches(m)') <= Cardinality(InBatches(m))
      /\ Cardinality(InBatches(m)') \in Nat /\ Cardinality(InBatches(m)) \in Nat
  BY SubsetCount DEF Counted
<1> QED
  BY <1>1, <1>2, <1>3, <1>4 DEF Counted, Copies

\* Writing the partition p from its batch costs thread t each place it copies.
LEMMA WriteMovesCopy ==
  ASSUME TypeOK, NEW m \in Message, Counted(m), NEW t \in Thread, NEW p \in Partition,
         raw' \in {raw, RawWith(t, p)}, deliveries'[m] = deliveries[m],
         InBuffer(m)' \subseteq InBuffer(m), Adding(m)' \subseteq Adding(m),
         InBatches(m)' \subseteq InBatches(m),
         \A k \in Unwritten(t) : PartOf[batch[t][k]] = p => <<t, k>> \notin InBatches(m)'
  PROVE  Counted(m)'
<1>1. CASE raw'[m] = raw[m]
  BY <1>1, NothingArrives
<1>2. CASE raw'[m] # raw[m]
  <2>1. /\ raw'[m] = raw[m] + 1
        /\ \E k \in Unwritten(t) : batch[t][k] = m /\ PartOf[m] = p
    BY <1>2 DEF RawWith
  <2>2. PICK k \in Unwritten(t) : batch[t][k] = m /\ PartOf[m] = p
    BY <2>1
  <2>3. <<t, k>> \in InBatches(m) /\ <<t, k>> \notin InBatches(m)'
    BY <2>2 DEF InBatches
  <2>4. /\ IsFiniteSet(InBatches(m) \ {<<t, k>>})
        /\ Cardinality(InBatches(m) \ {<<t, k>>}) = Cardinality(InBatches(m)) - 1
    BY <2>3, FS_RemoveElement DEF Counted
  <2>5. InBatches(m)' \subseteq InBatches(m) \ {<<t, k>>}
    BY <2>3
  <2>6. /\ IsFiniteSet(InBatches(m)') /\ Cardinality(InBatches(m)') \in Nat
        /\ Cardinality(InBatches(m)) \in Nat
        /\ Cardinality(InBatches(m)') <= Cardinality(InBatches(m)) - 1
    BY <2>4, <2>5, SubsetCount, FS_CardinalityType DEF Counted
  <2>7. /\ Cardinality(InBuffer(m)') <= Cardinality(InBuffer(m))
        /\ Cardinality(InBuffer(m)') \in Nat /\ Cardinality(InBuffer(m)) \in Nat
        /\ Cardinality(Adding(m)') <= Cardinality(Adding(m))
        /\ Cardinality(Adding(m)') \in Nat /\ Cardinality(Adding(m)) \in Nat
    BY PlacesFinite, SubsetCount
  <2>8. raw[m] \in Nat /\ deliveries[m] \in Nat
    BY DEF TypeOK
  <2> QED
    BY <2>1, <2>6, <2>7, <2>8 DEF Counted, Copies
<1> QED
  BY <1>1, <1>2

\* A callback hands its delivery to the buffer.
LEMMA AddMovesCopy ==
  ASSUME TypeOK, NEW w \in Worker, Add(w), NEW m \in Message, Counted(m)
  PROVE  Counted(m)'
<1>1. /\ pc[w] = "add" /\ current[w] \in Message /\ buffer' = Append(buffer, current[w])
      /\ UNCHANGED <<raw, deliveries, batch, written, current>>
  BY DataAssumption DEF Add, TypeOK, HoldsWhatItWorksOn, server
<1>2. \E label \in {"flush", "ack"} : pc' = [pc EXCEPT ![w] = label]
  BY DEF Add, Goto
<1>3. Adding(m)' = Adding(m) \ {w}
  BY <1>1, <1>2 DEF Adding, TypeOK, PcType, Thread
<1>4. InBatches(m)' = InBatches(m)
  BY <1>1 DEF InBatches, Unwritten
<1>5. /\ buffer \in Seq(Message) /\ Len(buffer) \in Nat
      /\ DOMAIN buffer = 1 .. Len(buffer) /\ DOMAIN buffer' = 1 .. Len(buffer) + 1
      /\ \A k \in DOMAIN buffer : buffer'[k] = buffer[k]
      /\ buffer'[Len(buffer) + 1] = current[w]
  BY <1>1 DEF TypeOK
<1>6. CASE current[w] # m
  <2>1. InBuffer(m)' \subseteq InBuffer(m)
    BY <1>5, <1>6 DEF InBuffer
  <2> QED
    BY <1>1, <1>3, <1>4, <2>1, NothingArrives
<1>7. CASE current[w] = m
  <2>1. InBuffer(m)' \subseteq InBuffer(m) \cup {Len(buffer) + 1}
    BY <1>5 DEF InBuffer
  <2>2. /\ IsFiniteSet(InBuffer(m) \cup {Len(buffer) + 1})
        /\ Cardinality(InBuffer(m) \cup {Len(buffer) + 1}) <= Cardinality(InBuffer(m)) + 1
    BY PlacesFinite, AddCount
  <2>3. /\ Cardinality(InBuffer(m)') \in Nat
        /\ Cardinality(InBuffer(m)') <= Cardinality(InBuffer(m)) + 1
    BY <2>1, <2>2, PlacesFinite, SubsetCount
  <2>4. w \in Adding(m)
    BY <1>1, <1>7 DEF Adding
  <2>5. Cardinality(Adding(m)') = Cardinality(Adding(m)) - 1
    BY <1>3, <2>4, PlacesFinite, FS_RemoveElement
  <2>6. Cardinality(InBatches(m)) \in Nat /\ raw[m] \in Nat /\ deliveries[m] \in Nat
    BY FS_CardinalityType DEF Counted, TypeOK
  <2>7. Cardinality(InBuffer(m)) \in Nat /\ Cardinality(Adding(m)) \in Nat
    BY PlacesFinite
  <2>8. /\ raw'[m] = raw[m] /\ deliveries'[m] = deliveries[m]
        /\ Cardinality(InBatches(m)') = Cardinality(InBatches(m))
        /\ IsFiniteSet(InBatches(m)')
    BY <1>1, <1>4 DEF Counted
  <2> QED
    BY <2>3, <2>5, <2>6, <2>7, <2>8 DEF Copies, Counted
<1> QED
  BY <1>6, <1>7

\* A delivery begins as one more callback about to add its message.
LEMMA DeliverCounts ==
  ASSUME TypeOK, NEW w \in Worker, NEW n \in Message, Deliver(w, n),
         NEW m \in Message, Counted(m)
  PROVE  Counted(m)'
<1>1. /\ pc[w] = "idle" /\ pc' = [pc EXCEPT ![w] = "add"]
      /\ current' = [current EXCEPT ![w] = n]
      /\ deliveries' = [deliveries EXCEPT ![n] = @ + 1]
      /\ UNCHANGED <<buffer, batch, written, raw>>
  BY DEF Deliver, Goto
<1>2. InBatches(m)' = InBatches(m) /\ InBuffer(m)' = InBuffer(m)
  BY <1>1 DEF InBatches, Unwritten, InBuffer
<1>3. CASE n # m
  <2>1. Adding(m)' \subseteq Adding(m) /\ deliveries'[m] = deliveries[m]
    BY <1>1, <1>3 DEF Adding, TypeOK, PcType, Thread
  <2> QED
    BY <1>1, <1>2, <2>1, NothingArrives
<1>4. CASE n = m
  <2>1. Adding(m)' \subseteq Adding(m) \cup {w} /\ deliveries'[m] = deliveries[m] + 1
    BY <1>1, <1>4 DEF Adding, TypeOK, PcType, Thread
  <2>2. /\ IsFiniteSet(Adding(m) \cup {w})
        /\ Cardinality(Adding(m) \cup {w}) <= Cardinality(Adding(m)) + 1
    BY PlacesFinite, AddCount
  <2>3. /\ Cardinality(Adding(m)') \in Nat
        /\ Cardinality(Adding(m)') <= Cardinality(Adding(m)) + 1
    BY <2>1, <2>2, PlacesFinite, SubsetCount
  <2>4. Cardinality(InBatches(m)) \in Nat /\ raw[m] \in Nat /\ deliveries[m] \in Nat
    BY FS_CardinalityType DEF Counted, TypeOK
  <2> QED
    BY <1>1, <1>2, <2>1, <2>3, <2>4, PlacesFinite DEF Counted, Copies
<1> QED
  BY <1>3, <1>4

\* A flush takes the buffer's copies into the batch of one thread, which had none.
LEMMA TakeMovesCopies ==
  ASSUME TypeOK, NEW t \in Thread, TakeBatch(t), NEW m \in Message, Counted(m)
  PROVE  Counted(m)'
<1>1. /\ pc[t] = "flush" /\ buffer' = <<>> /\ batch[t] = <<>>
      /\ UNCHANGED <<raw, deliveries>>
  BY DEF TakeBatch, TypeOK, HoldsWhatItWorksOn, server
<1>2. InBuffer(m)' = {}
  BY <1>1 DEF InBuffer
<1>3. Adding(m)' \subseteq Adding(m)
  <2>1. /\ \E label : label # "add" /\ pc' = [pc EXCEPT ![t] = label]
        /\ current' = current \/ (t \in Worker /\ current' = [current EXCEPT ![t] = NoMessage])
    BY DEF TakeBatch, Return, Raise, Goto
  <2> QED
    BY <2>1, DataAssumption DEF Adding, TypeOK, PcType, Thread
<1>4. CASE UNCHANGED <<batch, written>>
  <2>1. InBatches(m)' = InBatches(m)
    BY <1>4 DEF InBatches, Unwritten
  <2> QED
    BY <1>1, <1>2, <1>3, <2>1, NothingArrives
<1>5. CASE /\ batch' = [batch EXCEPT ![t] = buffer]
           /\ written' = [written EXCEPT ![t] = {}]
  <2> DEFINE taken == {t} \X InBuffer(m)
  <2>1. InBatches(m)' \subseteq InBatches(m) \cup taken
    <3> SUFFICES ASSUME NEW u \in Thread, NEW k \in Unwritten(u)', batch'[u][k] = m
                 PROVE  <<u, k>> \in InBatches(m) \cup taken
      BY DEF InBatches
    <3>1. CASE u = t
      <4>1. batch'[u] = buffer
        BY <1>5, <3>1 DEF TypeOK
      <4>2. k \in InBuffer(m)
        BY <4>1 DEF Unwritten, Kept, InBuffer
      <4> QED
        BY <3>1, <4>2
    <3>2. CASE u # t
      <4>1. batch'[u] = batch[u] /\ written'[u] = written[u]
        BY <1>5, <3>2 DEF TypeOK
      <4>2. k \in Unwritten(u) /\ batch[u][k] = m
        BY <4>1 DEF Unwritten
      <4> QED
        BY <4>2 DEF InBatches
    <3> QED
      BY <3>1, <3>2
  <2>2. /\ IsFiniteSet(taken) /\ Cardinality(taken) = Cardinality(InBuffer(m))
    <3>1. IsFiniteSet({t}) /\ Cardinality({t}) = 1
      BY FS_Singleton
    <3>2. IsFiniteSet(taken) /\ Cardinality(taken) = 1 * Cardinality(InBuffer(m))
      BY <3>1, PlacesFinite, FS_Product
    <3> HIDE DEF taken
    <3> QED
      BY <3>2, PlacesFinite
  <2>3. /\ IsFiniteSet(InBatches(m) \cup taken)
        /\ Cardinality(InBatches(m) \cup taken) <= Cardinality(InBatches(m)) + Cardinality(taken)
    <3> HIDE DEF taken
    <3>1. IsFiniteSet(InBatches(m)) /\ IsFiniteSet(InBatches(m) \cap taken)
      BY SubsetCount DEF Counted
    <3>2. /\ Cardinality(InBatches(m)) \in Nat /\ Cardinality(taken) \in Nat
          /\ Cardinality(InBatches(m) \cap taken) \in Nat
      BY <2>2, <3>1, FS_CardinalityType
    <3>3. /\ IsFiniteSet(InBatches(m) \cup taken)
          /\ Cardinality(InBatches(m) \cup taken)
                = Cardinality(InBatches(m)) + Cardinality(taken)
                    - Cardinality(InBatches(m) \cap taken)
      BY <2>2, <3>1, FS_Union
    <3> QED
      BY <3>2, <3>3
  <2>4. /\ IsFiniteSet(InBatches(m)') /\ Cardinality(InBatches(m)') \in Nat
        /\ Cardinality(InBatches(m)') <= Cardinality(InBatches(m)) + Cardinality(InBuffer(m))
    <3> HIDE DEF taken
    <3>1. /\ IsFiniteSet(InBatches(m)') /\ Cardinality(InBatches(m)') \in Nat
          /\ Cardinality(InBatches(m) \cup taken) \in Nat
          /\ Cardinality(InBatches(m)') <= Cardinality(InBatches(m) \cup taken)
      BY <2>1, <2>3, SubsetCount
    <3>2. Cardinality(InBatches(m)) \in Nat
      BY FS_CardinalityType DEF Counted
    <3> QED
      BY <2>2, <2>3, <3>1, <3>2, PlacesFinite
  <2>5. /\ Cardinality(Adding(m)') \in Nat
        /\ Cardinality(Adding(m)') <= Cardinality(Adding(m))
        /\ Cardinality(InBuffer(m)') = 0
    BY <1>2, <1>3, PlacesFinite, SubsetCount, FS_EmptySet
  <2>6. Cardinality(InBatches(m)) \in Nat /\ raw[m] \in Nat /\ deliveries[m] \in Nat
    BY FS_CardinalityType DEF Counted, TypeOK
  <2>7. /\ raw'[m] = raw[m] /\ deliveries'[m] = deliveries[m]
        /\ Cardinality(InBuffer(m)) \in Nat /\ Cardinality(Adding(m)) \in Nat
    BY <1>1, PlacesFinite
  <2> HIDE DEF taken
  <2> QED
    BY <2>4, <2>5, <2>6, <2>7 DEF Counted, Copies
<1> QED
  BY <1>4, <1>5 DEF TakeBatch

LEMMA CopyStep == TypeOK /\ CopyInv /\ [Next]_vars => CopyInv'
<1> SUFFICES ASSUME TypeOK, CopyInv, [Next]_vars, NEW m \in Message
             PROVE  Counted(m)'
  BY DEF CopyInv
<1>1. Counted(m)
  BY DEF CopyInv
<1>2. ASSUME NEW w \in Worker, Add(w) PROVE Counted(m)'
  BY <1>1, <1>2, AddMovesCopy
<1>3. ASSUME NEW w \in Worker, NEW n \in Message, Deliver(w, n) PROVE Counted(m)'
  BY <1>1, <1>3, DeliverCounts
<1>4. ASSUME NEW t \in Thread, TakeBatch(t) PROVE Counted(m)'
  BY <1>1, <1>4, TakeMovesCopies
<1>5. ASSUME NEW t \in Thread, WritePartition(t) PROVE Counted(m)'
  <2>1. PICK p \in Partition : /\ raw' = RawWith(t, p)
                               /\ written' = [written EXCEPT ![t] = @ \cup {p}]
    BY <1>5 DEF WritePartition
  <2>2. UNCHANGED <<batch, buffer, deliveries, pc, current>>
    BY <1>5 DEF WritePartition, server
  <2>3. \A u \in Thread : written[u] \subseteq written'[u]
    BY <2>1 DEF TypeOK
  <2>4. InBatches(m)' \subseteq InBatches(m)
    <3>1. \A u \in Thread : Unwritten(u)' \subseteq Unwritten(u)
      BY <2>2, <2>3 DEF Unwritten
    <3> QED
      BY <2>2, <3>1 DEF InBatches
  <2>5. ASSUME NEW k \in Unwritten(t), PartOf[batch[t][k]] = p
        PROVE  <<t, k>> \notin InBatches(m)'
    <3>1. k \notin Unwritten(t)'
      BY <2>1, <2>2, <2>5 DEF Unwritten, TypeOK
    <3> QED
      BY <3>1 DEF InBatches
  <2>6. InBuffer(m)' = InBuffer(m) /\ Adding(m)' = Adding(m)
    BY <2>2 DEF InBuffer, Adding
  <2> QED
    BY <1>1, <2>1, <2>2, <2>4, <2>5, <2>6, WriteMovesCopy
<1>6. ASSUME NEW t \in Thread, FailWrite(t) PROVE Counted(m)'
  <2>1. PICK p \in Partition : raw' \in {raw, RawWith(t, p)}
    BY <1>6 DEF FailWrite
  <2>2. /\ batch' = [batch EXCEPT ![t] = <<>>]
        /\ written' = [written EXCEPT ![t] = {}]
        /\ UNCHANGED <<buffer, deliveries>>
    BY <1>6 DEF FailWrite, server
  <2>3. Unwritten(t)' = {}
    BY <2>2 DEF Unwritten, Kept, TypeOK
  <2>4. \A u \in Thread : u # t => batch'[u] = batch[u] /\ Unwritten(u)' = Unwritten(u)
    BY <2>2 DEF Unwritten, TypeOK
  <2>5. InBatches(m)' \subseteq InBatches(m) /\ \A k : <<t, k>> \notin InBatches(m)'
    BY <2>3, <2>4 DEF InBatches
  <2>6. InBuffer(m)' = InBuffer(m)
    BY <2>2 DEF InBuffer
  <2>7. Adding(m)' \subseteq Adding(m)
    <3>1. /\ \E label : label # "add" /\ pc' = [pc EXCEPT ![t] = label]
          /\ current' = current \/ (t \in Worker /\ current' = [current EXCEPT ![t] = NoMessage])
      BY <1>6 DEF FailWrite, Raise, Goto
    <3> QED
      BY <3>1, DataAssumption DEF Adding, TypeOK, PcType, Thread
  <2> QED
    BY <1>1, <2>1, <2>2, <2>5, <2>6, <2>7, WriteMovesCopy
<1>7. ASSUME NEW t \in Thread, FinishFlush(t) PROVE Counted(m)'
  <2>1. /\ batch' = [batch EXCEPT ![t] = <<>>]
        /\ written' = [written EXCEPT ![t] = {}]
        /\ UNCHANGED <<buffer, deliveries, raw, current>>
        /\ \E label : label # "add" /\ pc' = [pc EXCEPT ![t] = label]
    BY <1>7 DEF FinishFlush, Return, Goto, server
  <2>2. Unwritten(t)' = {}
    BY <2>1 DEF Unwritten, Kept, TypeOK
  <2>3. \A u \in Thread : u # t => batch'[u] = batch[u] /\ Unwritten(u)' = Unwritten(u)
    BY <2>1 DEF Unwritten, TypeOK
  <2>4. InBatches(m)' \subseteq InBatches(m)
    BY <2>2, <2>3 DEF InBatches
  <2>5. InBuffer(m)' = InBuffer(m) /\ Adding(m)' \subseteq Adding(m)
    BY <2>1 DEF InBuffer, Adding, TypeOK, PcType, Thread
  <2> QED
    BY <1>1, <2>1, <2>4, <2>5, NothingArrives
<1>8. CASE Vanish
  <2>1. /\ buffer' = <<>> /\ batch' = [t \in Thread |-> <<>>] /\ pc' = PowerOff
        /\ UNCHANGED <<raw, deliveries>>
    BY <1>8 DEF Vanish, server
  <2>2. InBuffer(m)' = {} /\ InBatches(m)' = {}
    BY <2>1 DEF InBuffer, InBatches, Unwritten, Kept
  <2>3. Adding(m)' = {}
    BY <2>1 DEF Adding, PowerOff, Thread
  <2> QED
    BY <1>1, <2>1, <2>2, <2>3, NothingArrives
<1>9. ASSUME NEW w \in Worker, Ack(w) PROVE Counted(m)'
  <2>1. /\ pc' = [pc EXCEPT ![w] = "idle"] /\ current' = [current EXCEPT ![w] = NoMessage]
        /\ UNCHANGED <<buffer, batch, written, raw, deliveries>>
    BY <1>9 DEF Ack, Goto
  <2>2. InBuffer(m)' = InBuffer(m) /\ InBatches(m)' = InBatches(m)
    BY <2>1 DEF InBuffer, InBatches, Unwritten
  <2>3. Adding(m)' \subseteq Adding(m)
    BY <2>1, DataAssumption DEF Adding, TypeOK, PcType, Thread
  <2> QED
    BY <1>1, <2>1, <2>2, <2>3, NothingArrives
<1>10. CASE \/ Start \/ Subscribe \/ ResultRaises \/ SetStopEvent \/ Interrupt
            \/ Tick \/ StopFlusher \/ UNCHANGED vars
  <2>1. UNCHANGED <<buffer, batch, written, raw, deliveries, current>>
    BY <1>10 DEF Start, Subscribe, ResultRaises, SetStopEvent, Interrupt, Tick, StopFlusher,
                 vars, server, process
  <2>2. \A w \in Worker : pc'[w] = pc[w]
    BY <1>10, ThreadAssumption
       DEF Start, Subscribe, ResultRaises, SetStopEvent, Interrupt, Tick, StopFlusher, Goto,
           vars, process, TypeOK, PcType, Thread
  <2>3. /\ InBuffer(m)' = InBuffer(m) /\ InBatches(m)' = InBatches(m)
        /\ Adding(m)' = Adding(m)
    BY <2>1, <2>2 DEF InBuffer, InBatches, Unwritten, Adding
  <2> QED
    BY <1>1, <2>1, <2>3, NothingArrives
<1> QED
  BY <1>2, <1>3, <1>4, <1>5, <1>6, <1>7, <1>8, <1>9, <1>10
     DEF Next, MainStep, ProcessExit, Kill, WorkerStep, FlushStep

LEMMA CopyInvariant == Spec => []CopyInv
<1>1. Init => CopyInv
  <2> SUFFICES ASSUME Init, NEW m \in Message
               PROVE  Counted(m)
    BY DEF CopyInv
  <2>1. InBuffer(m) = {} /\ InBatches(m) = {} /\ Adding(m) = {}
    BY DEF Init, InBuffer, InBatches, Unwritten, Kept, Adding, PowerOff, Thread
  <2>2. raw[m] = 0 /\ deliveries[m] = 0
    BY DEF Init
  <2> QED
    BY <2>1, <2>2, FS_EmptySet DEF Counted, Copies
<1>2. Init => TypeOK
  BY InitType
<1>3. (TypeOK /\ CopyInv) /\ [Next]_vars => (TypeOK /\ CopyInv)'
  BY StepType, CopyStep
<1> QED
  BY <1>1, <1>2, <1>3, PTL DEF Spec

\* Whatever threads flush at once, and whatever fails, the copies of a message in
\* the raw files, the buffer and the batches are no more than its deliveries.
THEOREM CopiesAreDeliveries == Spec => []NoEventCopied
<1>1. TypeOK /\ CopyInv => NoEventCopied
  <2> SUFFICES ASSUME TypeOK, NEW m \in Message, Counted(m)
               PROVE  Copies(m) <= deliveries[m]
    BY DEF CopyInv, NoEventCopied
  <2>1. /\ Cardinality(InBatches(m)) \in Nat /\ Cardinality(InBuffer(m)) \in Nat
        /\ Cardinality(Adding(m)) \in Nat /\ raw[m] \in Nat /\ deliveries[m] \in Nat
    BY PlacesFinite, FS_CardinalityType DEF Counted, TypeOK
  <2> QED
    BY <2>1 DEF Counted, Copies
<1> QED
  BY <1>1, TypeCorrect, CopyInvariant, PTL

\* The phase 1 promise of unique ids in the raw layer holds as long as the topic
\* itself keeps it: every message has an id of its own and is delivered once.
\* Then no two flushes write the same event.
THEOREM OneDeliveryOneCopy ==
  ASSUME \A m, n \in Message : IdOf[m] = IdOf[n] => m = n
  PROVE  Spec => []((\A m \in Message : deliveries[m] <= 1) => NoDuplicateIdInRaw)
<1>1. TypeOK /\ NoEventCopied /\ CopyInv
        => ((\A m \in Message : deliveries[m] <= 1) => NoDuplicateIdInRaw)
  <2> SUFFICES ASSUME TypeOK, NoEventCopied, CopyInv, \A m \in Message : deliveries[m] <= 1,
                      NEW m \in Message, raw[m] > 0
               PROVE  raw[m] = 1
    BY DEF NoDuplicateIdInRaw
  <2>1. raw[m] \in Nat /\ deliveries[m] \in Nat /\ Cardinality(InBuffer(m)) \in Nat
    BY PlacesFinite DEF TypeOK
  <2>2. Cardinality(InBatches(m)) \in Nat
    BY FS_CardinalityType DEF CopyInv, Counted
  <2>3. Copies(m) <= deliveries[m] /\ deliveries[m] <= 1
    BY DEF NoEventCopied
  <2> QED
    BY <2>1, <2>2, <2>3 DEF Copies
<1> QED
  BY <1>1, TypeCorrect, CopiesAreDeliveries, CopyInvariant, PTL

-----------------------------------------------------------------------------
(* What Ctrl+C can lose.                                                   *)

\* When the process ends after Ctrl+C, every acknowledged event is in the raw
\* layer, in the flush thread's batch, or was given up by a failure before.
StopKeepsAllButFlushersBatch ==
  [][(ProcessExit /\ stream = "closed") =>
        \A m \in Message \ backlog :
           IdOf[m] \in RawIds' \cup PendingIds(Flusher) \cup discarded]_vars

LEMMA StopKeeps ==
  ASSUME LossInv, ProcessExit, stream = "closed", NEW m \in Message \ backlog
  PROVE  IdOf[m] \in RawIds' \cup PendingIds(Flusher) \cup discarded
<1>1. pc[Main] = "exiting" /\ (\A w \in Worker : pc[w] = "idle") /\ raw' = raw
  BY DEF ProcessExit, Vanish
<1>2. IdOf[m] \in Settled
  BY <1>1 DEF LossInv, FinalSettled
<1>3. ASSUME NEW t \in Thread, t # Flusher
      PROVE  PendingIds(t) = {}
  <2>1. batch[t] = <<>>
    BY <1>1, <1>3 DEF Thread, LossInv, TypeOK, HoldsWhatItWorksOn
  <2> QED
    BY <2>1 DEF PendingIds, Unwritten, Kept
<1>4. RawIds' = RawIds
  BY <1>1 DEF RawIds
<1> QED
  BY <1>2, <1>3, <1>4 DEF Settled

\* The acknowledged events a consumer loses when Ctrl+C ends it are in the batch
\* that the daemon thread is writing: the callbacks are joined, and the final
\* flush covers the buffer.
THEOREM StopLosesFlushersBatchOnly == Spec => StopKeepsAllButFlushersBatch
<1>1. LossInv /\ [Next]_vars
        => [(ProcessExit /\ stream = "closed") =>
              \A m \in Message \ backlog :
                 IdOf[m] \in RawIds' \cup PendingIds(Flusher) \cup discarded]_vars
  BY StopKeeps
<1> QED
  BY <1>1, LossInvariant, PTL DEF Spec, StopKeepsAllButFlushersBatch

\* No write raises, nobody kills the process and every event has a partition;
\* acknowledgements may get lost and messages come again.
FaultFree ==
  /\ Faults \cap {"kill", "failedWrite"} = {}
  /\ \A m \in Message : PartOf[m] # NoPartition

\* Without a failure no callback raises, so only Ctrl+C ends the wait in run(),
\* and what follows it finds the streaming pull closed.
CalmInv ==
  /\ ~callbackError
  /\ pc[Main] \in {"finally", "flush", "write", "exiting"} => stream = "closed"

FlusherLives == pc[Flusher] = "off" => (pc[Main] = "down" \/ stopEvent)

LEMMA CalmStep ==
  ASSUME FaultFree, TypeOK, CalmInv, [Next]_vars
  PROVE  CalmInv' /\ (discarded' # discarded => ProcessExit)
<1> USE ThreadAssumption DEF TypeOK, PcType, Thread, Goto
<1>1. CASE \/ Start \/ Subscribe \/ ResultRaises \/ SetStopEvent \/ Interrupt
           \/ Tick \/ StopFlusher
  BY <1>1 DEF CalmInv, Start, Subscribe, ResultRaises, SetStopEvent, Interrupt, Tick, StopFlusher
<1>2. ASSUME NEW w \in Worker, Add(w) \/ Ack(w) \/ \E m \in Message : Deliver(w, m)
      PROVE  CalmInv' /\ discarded' = discarded
  BY <1>2 DEF CalmInv, Add, Ack, Deliver
<1>3. ASSUME NEW t \in Thread, TakeBatch(t)
      PROVE  CalmInv' /\ discarded' = discarded
  <2>1. ~Unpartitionable(buffer)
    BY DEF FaultFree, Unpartitionable, Kept
  <2> QED
    BY <1>3, <2>1 DEF CalmInv, TakeBatch, Return
<1>4. ASSUME NEW t \in Thread, WritePartition(t) \/ FinishFlush(t)
      PROVE  CalmInv' /\ discarded' = discarded
  BY <1>4 DEF CalmInv, WritePartition, FinishFlush, Return
<1>5. ASSUME NEW t \in Thread
      PROVE  ~FailWrite(t) /\ ~Kill
  BY DEF FaultFree, FailWrite, Kill, Fault
<1>6. CASE ProcessExit
  BY <1>6 DEF CalmInv, ProcessExit, Vanish, PowerOff
<1>7. CASE UNCHANGED vars
  BY <1>7 DEF CalmInv, vars, process
<1> QED
  BY <1>1, <1>2, <1>3, <1>4, <1>5, <1>6, <1>7 DEF Next, MainStep, WorkerStep, FlushStep

\* Where storage works, no event lacks its partition and nobody kills the process,
\* nothing leaves memory unwritten but at the end of the process, and of
\* what was acknowledged only the batch of the flush thread.
THEOREM FaultFreeLoss ==
  ASSUME FaultFree
  PROVE  Spec => [][/\ discarded' # discarded => ProcessExit
                    /\ ProcessExit =>
                         \A m \in Message \ backlog :
                            IdOf[m] \in RawIds' \cup PendingIds(Flusher) \cup discarded]_vars
<1>1. Init => LossInv /\ CalmInv
  <2>1. Init => CalmInv
    BY ThreadAssumption DEF Init, CalmInv, PowerOff, Thread
  <2> QED
    BY <2>1, InitLoss
<1>2. (LossInv /\ CalmInv) /\ [Next]_vars => (LossInv /\ CalmInv)'
  BY StepLoss, CalmStep DEF LossInv
<1>3. (LossInv /\ CalmInv) /\ [Next]_vars
        => [/\ discarded' # discarded => ProcessExit
            /\ ProcessExit =>
                 \A m \in Message \ backlog :
                    IdOf[m] \in RawIds' \cup PendingIds(Flusher) \cup discarded]_vars
  <2>1. ASSUME CalmInv, ProcessExit
        PROVE  stream = "closed"
    BY <2>1 DEF CalmInv, ProcessExit
  <2> QED
    BY <2>1, StopKeeps, CalmStep DEF LossInv
<1> QED
  BY <1>1, <1>2, <1>3, PTL DEF Spec

LEMMA FlusherStep ==
  ASSUME FaultFree, TypeOK, FlusherLives, [Next]_vars
  PROVE  FlusherLives'
<1> USE ThreadAssumption DEF TypeOK, PcType, Thread, Goto, FlusherLives
<1>1. CASE \/ Start \/ Subscribe \/ ResultRaises \/ SetStopEvent \/ Interrupt
           \/ Tick \/ StopFlusher
  BY <1>1 DEF Start, Subscribe, ResultRaises, SetStopEvent, Interrupt, Tick, StopFlusher
<1>2. ASSUME NEW w \in Worker, Add(w) \/ Ack(w) \/ \E m \in Message : Deliver(w, m)
      PROVE  FlusherLives'
  BY <1>2 DEF Add, Ack, Deliver
<1>3. ASSUME NEW t \in Thread, TakeBatch(t)
      PROVE  FlusherLives'
  <2>1. ~Unpartitionable(buffer)
    BY DEF FaultFree, Unpartitionable, Kept
  <2> QED
    BY <1>3, <2>1 DEF TakeBatch, Return
<1>4. ASSUME NEW t \in Thread, WritePartition(t) \/ FinishFlush(t)
      PROVE  FlusherLives'
  BY <1>4 DEF WritePartition, FinishFlush, Return
<1>5. ASSUME NEW t \in Thread
      PROVE  ~FailWrite(t) /\ ~Kill
  BY DEF FaultFree, FailWrite, Kill, Fault
<1>6. CASE ProcessExit
  BY <1>6 DEF ProcessExit, Vanish, PowerOff
<1>7. CASE UNCHANGED vars
  BY <1>7 DEF vars, process
<1> QED
  BY <1>1, <1>2, <1>3, <1>4, <1>5, <1>6, <1>7 DEF Next, MainStep, WorkerStep, FlushStep

\* The flush thread dies of failures only: where nothing fails it serves until
\* the finally block of run() tells it to stop.
THEOREM FlusherServesToTheEnd ==
  ASSUME FaultFree
  PROVE  Spec => []FlusherLives
<1>1. Init => FlusherLives
  BY ThreadAssumption DEF Init, FlusherLives, PowerOff, Thread
<1>2. (TypeOK /\ FlusherLives) /\ [Next]_vars => (TypeOK /\ FlusherLives)'
  BY StepType, FlusherStep
<1> QED
  BY <1>1, <1>2, InitType, PTL DEF Spec

-----------------------------------------------------------------------------
(* No flush is ever stuck.  The guards below are those of WritePartition,   *)
(* FinishFlush, Tick and StopFlusher; the other steps of a callback and of  *)
(* the flush thread have no guard but pc.  Only the main thread waits for   *)
(* others, when the interpreter joins the callbacks.                       *)

CanFlush(t) == Unwritten(t) = {} \/ \E p \in Partition : NextPartition(t, p)

NobodyIsStuck ==
  /\ \A t \in Thread : pc[t] = "write" => CanFlush(t)
  /\ pc[Flusher] = "wait" => stopEvent \/ ticks < FlushTicks

\* A batch was grouped before it was written, and the flush thread does not sit
\* out more than its interval.
ProgressInv ==
  /\ \A t \in Thread : ~Unpartitionable(batch[t])
  /\ pc[Flusher] = "wait" => ticks < FlushTicks

LEMMA LeastPosition ==
  ASSUME NEW S \in SUBSET Nat, S # {}
  PROVE  \E k \in S : \A j \in S : k <= j
<1>1. PICK k \in S : \A j \in S : ~(<<j, k>> \in OpToRel(<, Nat))
  BY NatLessThanWellFounded, WFMin
<1>2. ASSUME NEW j \in S
      PROVE  k <= j
  <2>1. j \in Nat /\ k \in Nat
    OBVIOUS
  <2>2. ~(j < k)
    BY <1>1, <2>1 DEF OpToRel
  <2> QED
    BY <2>1, <2>2
<1> QED
  BY <1>2

LEMMA ProgressIsEnough ==
  ASSUME TypeOK, ProgressInv
  PROVE  NobodyIsStuck
<1>1. ASSUME NEW t \in Thread, Unwritten(t) # {}
      PROVE  \E p \in Partition : NextPartition(t, p)
  <2>1. batch[t] \in Seq(Message)
    BY DEF TypeOK
  <2>2. Unwritten(t) \in SUBSET Nat /\ Unwritten(t) \subseteq Kept(batch[t])
    BY <2>1 DEF Unwritten, Kept
  <2>3. PICK k \in Unwritten(t) : \A j \in Unwritten(t) : k <= j
    BY <1>1, <2>2, LeastPosition
  <2>4. batch[t][k] \in Message /\ PartOf[batch[t][k]] # NoPartition
    BY <2>1, <2>2, <2>3 DEF ProgressInv, Unpartitionable, Kept
  <2>5. PartOf[batch[t][k]] \in Partition
    BY <2>4, DataAssumption
  <2> QED
    BY <2>3, <2>5 DEF NextPartition
<1> QED
  BY <1>1 DEF NobodyIsStuck, CanFlush, ProgressInv

LEMMA ProgressStep ==
  ASSUME TypeOK, ProgressInv, [Next]_vars
  PROVE  ProgressInv'
<1> USE ThreadAssumption, BoundAssumption DEF TypeOK, PcType, Thread, Goto
<1>1. ASSUME NEW t \in Thread
      PROVE  ~Unpartitionable(batch'[t])
  <2>1. CASE batch'[t] = batch[t]
    BY <2>1 DEF ProgressInv
  <2>2. CASE batch'[t] = <<>>
    BY <2>2 DEF Unpartitionable, Kept
  <2>3. CASE batch'[t] = buffer /\ ~Unpartitionable(buffer)
    BY <2>3
  <2>4. ASSUME NEW u \in Thread, TakeBatch(u)
        PROVE  \/ batch'[t] = batch[t]
               \/ batch'[t] = buffer /\ ~Unpartitionable(buffer)
    BY <2>4 DEF TakeBatch
  <2>5. ASSUME NEW u \in Thread, FinishFlush(u) \/ FailWrite(u)
        PROVE  batch'[t] \in {batch[t], <<>>}
    BY <2>5 DEF FinishFlush, FailWrite
  <2>6. CASE Vanish
    BY <2>6, <2>2 DEF Vanish
  <2>7. \/ UNCHANGED batch \/ Vanish
        \/ \E u \in Thread : TakeBatch(u) \/ FinishFlush(u) \/ FailWrite(u)
    BY DEF Next, MainStep, WorkerStep, FlushStep, ProcessExit, Kill, Start, Subscribe,
           ResultRaises, SetStopEvent, Interrupt, Tick, StopFlusher, Deliver, Add, Ack,
           WritePartition, vars, process
  <2> QED
    BY <2>1, <2>2, <2>3, <2>4, <2>5, <2>6, <2>7
<1>2. ASSUME pc'[Flusher] = "wait"
      PROVE  ticks' < FlushTicks
  <2>1. CASE pc[Flusher] = "wait" /\ ticks' = ticks
    BY <2>1 DEF ProgressInv
  <2>2. CASE ticks' = 0
    BY <2>2
  <2>3. CASE Tick
    <3>1. PICK elapsed \in ticks + 1 .. FlushTicks :
            /\ ticks' = elapsed
            /\ pc'[Flusher] = IF elapsed >= FlushTicks THEN "flush" ELSE "wait"
      BY <2>3 DEF Tick
    <3> QED
      BY <1>2, <3>1
  <2>4. CASE \/ Start \/ Subscribe \/ ResultRaises \/ SetStopEvent \/ Interrupt \/ StopFlusher
    BY <1>2, <2>4
       DEF Start, Subscribe, ResultRaises, SetStopEvent, Interrupt, StopFlusher, ProgressInv
  <2>5. ASSUME NEW w \in Worker, Add(w) \/ Ack(w) \/ \E m \in Message : Deliver(w, m)
        PROVE  pc[Flusher] = "wait" /\ ticks' = ticks
    BY <1>2, <2>5 DEF Add, Ack, Deliver
  <2>6. ASSUME NEW t \in Thread, TakeBatch(t) \/ FinishFlush(t) \/ FailWrite(t)
        PROVE  ticks' = 0 \/ (pc[Flusher] = "wait" /\ ticks' = ticks)
    BY <1>2, <2>6 DEF TakeBatch, FinishFlush, FailWrite, Return, Raise
  <2>7. ASSUME NEW t \in Thread, WritePartition(t)
        PROVE  pc[Flusher] = "wait" /\ ticks' = ticks
    BY <1>2, <2>7 DEF WritePartition
  <2>8. CASE Vanish
    BY <2>8 DEF Vanish
  <2>9. CASE UNCHANGED vars
    BY <1>2, <2>9 DEF ProgressInv, vars, process
  <2> QED
    BY <2>1, <2>2, <2>3, <2>4, <2>5, <2>6, <2>7, <2>8, <2>9
       DEF Next, MainStep, WorkerStep, FlushStep, ProcessExit, Kill
<1> QED
  BY <1>1, <1>2 DEF ProgressInv

\* A flush under way can always write its next partition or end, and the flush
\* thread can always wait on, flush or end, whatever the other threads do: the
\* half of BufferDrains and ShutdownCompletes that is a safety property.
THEOREM FlushesCanGoOn == Spec => []NobodyIsStuck
<1>1. Init => ProgressInv
  BY ThreadAssumption DEF Init, ProgressInv, Unpartitionable, Kept, PowerOff, Thread
<1>2. (TypeOK /\ ProgressInv) /\ [Next]_vars => (TypeOK /\ ProgressInv)'
  <2>1. TypeOK /\ ProgressInv /\ [Next]_vars => ProgressInv'
    BY ProgressStep
  <2> QED
    BY <2>1, StepType
<1>3. TypeOK /\ ProgressInv => NobodyIsStuck
  BY ProgressIsEnough
<1> QED
  BY <1>1, <1>2, <1>3, InitType, PTL DEF Spec
=============================================================================
