----------------------------- MODULE RawConsumer -----------------------------
(***************************************************************************)
(* The consumer process (src/src/consumer/main.py) between an at-least-    *)
(* once subscription and the raw layer.  Pub/Sub's worker threads, the     *)
(* periodic flush thread and the main thread share one RawEventBuffer.     *)
(* The critical sections under the buffer's lock contain nothing that      *)
(* blocks, so each of them is one atomic step; everything outside the lock *)
(* (the writes, the acknowledgement) is a step of its own.                 *)
(*                                                                         *)
(* The subscription and the streaming-pull client are code outside the     *)
(* repository, modelled from how messaging/base.py uses them: messages     *)
(* arrive in any order, an unacknowledged message is delivered again, an   *)
(* acknowledgement may get lost, and a callback that raises negatively     *)
(* acknowledges its message and fails the future the main thread waits on. *)
(***************************************************************************)
EXTENDS Naturals, Sequences, FiniteSets, Functions

CONSTANTS
  Message,        \* the messages the topic holds
  EventId,        \* values of `_event_id`
  Partition,      \* the (dt, hour) partitions of the raw layer
  NoPartition,    \* PartOf an event whose `meta.dt` is missing: _partition_key raises
  IdOf,           \* Message -> EventId: two messages may carry one id
  PartOf,         \* Message -> Partition \cup {NoPartition}
  Worker,         \* Pub/Sub's callback threads
  Flusher,        \* the daemon thread of _run_periodic_flush
  Main,           \* the main thread
  NoMessage,      \* what an idle worker holds
  FlushSize,      \* CONSUMER_FLUSH_SIZE
  FlushTicks      \* CONSUMER_FLUSH_INTERVAL_SECONDS, in waits of one second

CONSTANTS         \* what the environment does, and how often
  MaxRuns,        \* starts of the process
  MaxDeliveries,  \* deliveries of all messages together
  Faults,         \* the faults that happen, a subset of FaultKind
  MaxFaults       \* how many of them, in all

\* The process dies without warning (SIGKILL, SIGTERM, power); a write to the
\* storage backend raises; an acknowledgement never reaches the server; a
\* message that a worker still holds is delivered again.
FaultKind == {"kill", "failedWrite", "lostAck", "redelivery"}

Thread == Worker \cup {Flusher, Main}

ASSUME ThreadAssumption ==
  /\ Flusher \notin Worker
  /\ Main \notin Worker
  /\ Flusher # Main
  /\ IsFiniteSet(Worker)

ASSUME DataAssumption ==
  /\ IdOf \in [Message -> EventId]
  /\ PartOf \in [Message -> Partition \cup {NoPartition}]
  /\ NoPartition \notin Partition
  /\ NoMessage \notin Message

ASSUME BoundAssumption ==
  /\ FlushSize \in Nat \ {0}
  /\ FlushTicks \in Nat \ {0}
  /\ MaxRuns \in Nat
  /\ MaxDeliveries \in Nat
  /\ MaxFaults \in Nat
  /\ Faults \subseteq FaultKind

VARIABLES
  backlog,        \* server: messages not acknowledged yet
  deliveries,     \* history: how often each message was handed to a callback
  stream,         \* the streaming pull: "open" until cancel() closes it
  callbackError,  \* the streaming-pull future holds a callback's exception
  pc,             \* where each thread stands
  current,        \* the message each worker's callback is processing
  buffer,         \* RawEventBuffer._events
  batch,          \* the list each thread took out of the buffer
  written,        \* the partitions of its batch a thread has written
  stopEvent,      \* the threading.Event that ends the flush thread
  ticks,          \* seconds since last_flush
  raw,            \* storage: how many copies of each message the raw files hold
  discarded,      \* history: ids that some failure dropped from memory
  runs,           \* starts so far
  faults          \* faults so far

server == <<backlog, deliveries>>
process == <<stream, callbackError, pc, current, buffer, batch, written, stopEvent, ticks>>
vars == <<server, process, raw, discarded, runs, faults>>

-----------------------------------------------------------------------------
(* What one flush does to a list of events.                                *)

Ids(s) == {IdOf[s[k]] : k \in DOMAIN s}

\* _drop_duplicate_event_ids: the positions that hold the first event of their id.
Kept(s) == {k \in DOMAIN s : \A j \in 1 .. k - 1 : IdOf[s[j]] # IdOf[s[k]]}

\* _group_by_partition raises before anything is written.
Unpartitionable(s) == \E k \in Kept(s) : PartOf[s[k]] = NoPartition

\* The positions of t's batch whose partition is still to be written.
Unwritten(t) == {k \in Kept(batch[t]) : PartOf[batch[t][k]] \notin written[t]}

PendingIds(t) == {IdOf[batch[t][k]] : k \in Unwritten(t)}

MemoryIds == Ids(buffer) \cup UNION {PendingIds(t) : t \in Thread}

RawIds == {IdOf[m] : m \in {n \in Message : raw[n] > 0}}

-----------------------------------------------------------------------------
PowerOff == [t \in Thread |-> IF t \in Worker THEN "idle"
                              ELSE IF t = Flusher THEN "off" ELSE "down"]

Init ==
  /\ backlog = Message
  /\ deliveries = [m \in Message |-> 0]
  /\ stream = "closed"
  /\ callbackError = FALSE
  /\ pc = PowerOff
  /\ current = [w \in Worker |-> NoMessage]
  /\ buffer = <<>>
  /\ batch = [t \in Thread |-> <<>>]
  /\ written = [t \in Thread |-> {}]
  /\ stopEvent = FALSE
  /\ ticks = 0
  /\ raw = [m \in Message |-> 0]
  /\ discarded = {}
  /\ runs = 0
  /\ faults = 0

Goto(t, label) == pc' = [pc EXCEPT ![t] = label]

Fault(kind) ==
  /\ kind \in Faults
  /\ faults < MaxFaults
  /\ faults' = faults + 1

-----------------------------------------------------------------------------
(* run(): lines 103-121.                                                   *)

\* ensure_topic, a fresh buffer, and flush_thread.start().
Start ==
  /\ pc[Main] = "down"
  /\ runs < MaxRuns
  /\ runs' = runs + 1
  /\ pc' = [pc EXCEPT ![Main] = "subscribe", ![Flusher] = "wait"]
  /\ ticks' = 0
  /\ UNCHANGED <<server, stream, callbackError, current, buffer, batch, written,
                 stopEvent, raw, discarded, faults>>

\* The streaming pull opens and the main thread blocks in result().
Subscribe ==
  /\ pc[Main] = "subscribe"
  /\ stream' = "open"
  /\ Goto(Main, "result")
  /\ UNCHANGED <<server, callbackError, current, buffer, batch, written, stopEvent,
                 ticks, raw, discarded, runs, faults>>

-----------------------------------------------------------------------------
(* A worker thread: _on_message, RawEventBuffer.add.                       *)

Deliver(w, m) ==
  /\ stream = "open"
  /\ pc[Main] # "exiting"          \* the executor takes no work once it is shutting down
  /\ pc[w] = "idle"
  /\ m \in backlog
  /\ SumFunction(deliveries) < MaxDeliveries
  /\ \/ /\ \A v \in Worker : current[v] # m
        /\ UNCHANGED faults
     \/ /\ \E v \in Worker : current[v] = m
        /\ Fault("redelivery")
  /\ current' = [current EXCEPT ![w] = m]
  /\ deliveries' = [deliveries EXCEPT ![m] = @ + 1]
  /\ Goto(w, "add")
  /\ UNCHANGED <<backlog, stream, callbackError, buffer, batch, written, stopEvent,
                 ticks, raw, discarded, runs>>

\* Mutant of ShouldFlush: the flush waits for one event too many.
ShouldFlushLate(s) == Len(s) > FlushSize

\* The size test is made on the list as it stands under the lock.
ShouldFlush(s) == Len(s) >= FlushSize

Add(w) ==
  /\ pc[w] = "add"
  /\ buffer' = Append(buffer, current[w])
  /\ Goto(w, IF ShouldFlush(buffer') THEN "flush" ELSE "ack")
  /\ UNCHANGED <<server, stream, callbackError, current, batch, written, stopEvent,
                 ticks, raw, discarded, runs, faults>>

\* message.ack(): its effect on the server needs an open streaming pull.
Ack(w) ==
  /\ pc[w] = "ack"
  /\ \/ /\ stream = "open"
        /\ backlog' = backlog \ {current[w]}
        /\ UNCHANGED faults
     \/ /\ stream = "open"
        /\ Fault("lostAck")
        /\ UNCHANGED backlog
     \/ /\ stream = "closed"
        /\ UNCHANGED <<backlog, faults>>
  /\ current' = [current EXCEPT ![w] = NoMessage]
  /\ Goto(w, "idle")
  /\ UNCHANGED <<deliveries, stream, callbackError, buffer, batch, written, stopEvent,
                 ticks, raw, discarded, runs>>

-----------------------------------------------------------------------------
(* The flush thread: _run_periodic_flush.                                  *)

\* Mutant of Tick: the interval is never found to be over.
TickNeverDue ==
  /\ pc[Flusher] = "wait"
  /\ ~stopEvent
  /\ \E elapsed \in ticks .. FlushTicks : ticks' = elapsed
  /\ UNCHANGED <<server, stream, callbackError, pc, current, buffer, batch, written,
                 stopEvent, raw, discarded, runs, faults>>

\* stop_event.wait(1) timed out; a wait takes one second or more.
Tick ==
  /\ pc[Flusher] = "wait"
  /\ ~stopEvent
  /\ \E elapsed \in ticks + 1 .. FlushTicks :
        /\ ticks' = elapsed
        /\ Goto(Flusher, IF elapsed >= FlushTicks THEN "flush" ELSE "wait")
  /\ UNCHANGED <<server, stream, callbackError, current, buffer, batch, written,
                 stopEvent, raw, discarded, runs, faults>>

\* Mutant of StopFlusher: the thread ends without being told to.
StopFlusherUntold ==
  /\ pc[Flusher] = "wait"
  /\ Goto(Flusher, "off")
  /\ UNCHANGED <<server, stream, callbackError, current, buffer, batch, written,
                 stopEvent, ticks, raw, discarded, runs, faults>>

StopFlusher ==
  /\ pc[Flusher] = "wait"
  /\ stopEvent
  /\ Goto(Flusher, "off")
  /\ UNCHANGED <<server, stream, callbackError, current, buffer, batch, written,
                 stopEvent, ticks, raw, discarded, runs, faults>>

-----------------------------------------------------------------------------
(* RawEventBuffer.flush and _write_batch, called by any thread.            *)

\* flush() returned to the code that called it.
Return(t) ==
  /\ Goto(t, IF t \in Worker THEN "ack" ELSE IF t = Flusher THEN "wait" ELSE "exiting")
  /\ ticks' = IF t = Flusher THEN 0 ELSE ticks
  /\ UNCHANGED <<callbackError, current>>

\* Mutant of Raise: a failed callback keeps its message.
RaiseKeepsMessage(t) ==
  /\ Goto(t, IF t \in Worker THEN "idle" ELSE IF t = Flusher THEN "off" ELSE "exiting")
  /\ callbackError' = (callbackError \/ t \in Worker)
  /\ UNCHANGED <<current, ticks>>

\* flush() raised.  A worker's message is negatively acknowledged and the
\* error reaches the future; the flush thread ends; the main thread leaves run().
Raise(t) ==
  /\ Goto(t, IF t \in Worker THEN "idle" ELSE IF t = Flusher THEN "off" ELSE "exiting")
  /\ callbackError' = (callbackError \/ t \in Worker)
  /\ current' = IF t \in Worker THEN [current EXCEPT ![t] = NoMessage] ELSE current
  /\ UNCHANGED ticks

\* Mutant of TakeBatch: the list is read but not replaced by an empty one.
TakeBatchLeavesBuffer(t) ==
  /\ pc[t] = "flush"
  /\ buffer # <<>>
  /\ ~Unpartitionable(buffer)
  /\ batch' = [batch EXCEPT ![t] = buffer]
  /\ written' = [written EXCEPT ![t] = {}]
  /\ Goto(t, "write")
  /\ UNCHANGED <<server, stream, callbackError, current, buffer, stopEvent, ticks, raw,
                 discarded, runs, faults>>

\* Under the lock the thread takes the whole list; dedup and grouping of a
\* list only it can see follow at once.
TakeBatch(t) ==
  /\ pc[t] = "flush"
  /\ buffer' = <<>>
  /\ \/ /\ buffer = <<>>
        /\ Return(t)
        /\ UNCHANGED <<batch, written, discarded>>
     \/ /\ buffer # <<>>
        /\ ~Unpartitionable(buffer)
        /\ batch' = [batch EXCEPT ![t] = buffer]
        /\ written' = [written EXCEPT ![t] = {}]
        /\ Goto(t, "write")
        /\ UNCHANGED <<callbackError, current, ticks, discarded>>
     \/ /\ Unpartitionable(buffer)
        /\ discarded' = discarded \cup Ids(buffer)
        /\ Raise(t)
        /\ UNCHANGED <<batch, written>>
  /\ UNCHANGED <<server, stream, stopEvent, raw, runs, faults>>

\* The partition written next: groups keep the order of their first event.
NextPartition(t, p) ==
  \E k \in Unwritten(t) :
     /\ \A j \in Unwritten(t) : k <= j
     /\ p = PartOf[batch[t][k]]

RawWith(t, p) ==
  [m \in Message |->
     IF \E k \in Unwritten(t) : batch[t][k] = m /\ PartOf[m] = p
     THEN raw[m] + 1 ELSE raw[m]]

\* One storage_backend.write.
WritePartition(t) ==
  /\ pc[t] = "write"
  /\ \E p \in Partition :
        /\ NextPartition(t, p)
        /\ raw' = RawWith(t, p)
        /\ written' = [written EXCEPT ![t] = @ \cup {p}]
  /\ UNCHANGED <<server, stream, callbackError, pc, current, buffer, batch, stopEvent,
                 ticks, discarded, runs, faults>>

\* A storage_backend.write that raises, whether or not the file landed: this
\* partition and the ones after it leave memory with the batch.
FailWrite(t) ==
  /\ pc[t] = "write"
  /\ Fault("failedWrite")
  /\ \E p \in Partition :
        /\ NextPartition(t, p)
        /\ raw' \in {raw, RawWith(t, p)}
  /\ discarded' = discarded \cup PendingIds(t)
  /\ batch' = [batch EXCEPT ![t] = <<>>]
  /\ written' = [written EXCEPT ![t] = {}]
  /\ Raise(t)
  /\ UNCHANGED <<server, stream, buffer, stopEvent, runs>>

\* Mutant of FinishFlush: the buffer is emptied after the write as well.
FinishFlushClearsBuffer(t) ==
  /\ pc[t] = "write"
  /\ Unwritten(t) = {}
  /\ buffer' = <<>>
  /\ batch' = [batch EXCEPT ![t] = <<>>]
  /\ written' = [written EXCEPT ![t] = {}]
  /\ Return(t)
  /\ UNCHANGED <<server, stream, stopEvent, raw, discarded, runs, faults>>

FinishFlush(t) ==
  /\ pc[t] = "write"
  /\ Unwritten(t) = {}
  /\ batch' = [batch EXCEPT ![t] = <<>>]
  /\ written' = [written EXCEPT ![t] = {}]
  /\ Return(t)
  /\ UNCHANGED <<server, stream, buffer, stopEvent, raw, discarded, runs, faults>>

-----------------------------------------------------------------------------
(* Stopping: base.py lines 74-78, main.py lines 122-125.                   *)

\* Ctrl+C in result(): cancel() closes the streaming pull, the second result()
\* returns without waiting for the callbacks that are still running.
Interrupt ==
  /\ pc[Main] = "result"
  /\ stream' = "closed"
  /\ Goto(Main, "finally")
  /\ UNCHANGED <<server, callbackError, current, buffer, batch, written, stopEvent,
                 ticks, raw, discarded, runs, faults>>

\* result() re-raises a callback's exception; nothing closes the streaming pull.
ResultRaises ==
  /\ pc[Main] = "result"
  /\ callbackError
  /\ Goto(Main, "finally")
  /\ UNCHANGED <<server, stream, callbackError, current, buffer, batch, written,
                 stopEvent, ticks, raw, discarded, runs, faults>>

\* Mutant of SetStopEvent: the flush of the finally block is missing.
SetStopEventOnly ==
  /\ pc[Main] = "finally"
  /\ stopEvent' = TRUE
  /\ Goto(Main, "exiting")
  /\ UNCHANGED <<server, stream, callbackError, current, buffer, batch, written, ticks,
                 raw, discarded, runs, faults>>

SetStopEvent ==
  /\ pc[Main] = "finally"
  /\ stopEvent' = TRUE
  /\ Goto(Main, "flush")
  /\ UNCHANGED <<server, stream, callbackError, current, buffer, batch, written, ticks,
                 raw, discarded, runs, faults>>

\* The process is gone, and with it everything that was in its memory.
Vanish ==
  /\ discarded' = discarded \cup MemoryIds
  /\ stream' = "closed"
  /\ callbackError' = FALSE
  /\ pc' = PowerOff
  /\ current' = [w \in Worker |-> NoMessage]
  /\ buffer' = <<>>
  /\ batch' = [t \in Thread |-> <<>>]
  /\ written' = [t \in Thread |-> {}]
  /\ stopEvent' = FALSE
  /\ ticks' = 0
  /\ UNCHANGED <<server, raw, runs>>

\* Mutant of ProcessExit: the process waits for an empty buffer.
ProcessExitWaitsForEmptyBuffer ==
  /\ pc[Main] = "exiting"
  /\ \A w \in Worker : pc[w] = "idle"
  /\ buffer = <<>>
  /\ Vanish
  /\ UNCHANGED faults

\* The interpreter joins the executor's threads and abandons the daemon thread.
ProcessExit ==
  /\ pc[Main] = "exiting"
  /\ \A w \in Worker : pc[w] = "idle"
  /\ Vanish
  /\ UNCHANGED faults

Kill ==
  /\ pc[Main] # "down"
  /\ Fault("kill")
  /\ Vanish

-----------------------------------------------------------------------------
WorkerStep(w) == Add(w) \/ Ack(w)

FlushStep(t) == TakeBatch(t) \/ WritePartition(t) \/ FinishFlush(t)

MainStep == Subscribe \/ ResultRaises \/ SetStopEvent \/ ProcessExit

Next ==
  \/ Start
  \/ MainStep
  \/ Interrupt
  \/ Kill
  \/ Tick
  \/ StopFlusher
  \/ \E w \in Worker : WorkerStep(w) \/ \E m \in Message : Deliver(w, m)
  \/ \E t \in Thread : FlushStep(t) \/ FailWrite(t)

Spec == Init /\ [][Next]_vars

\* Threads that can run do run, and the server keeps delivering what is not
\* acknowledged.  Nobody is obliged to start, stop or fail anything.
Fairness ==
  /\ WF_vars(MainStep)
  /\ WF_vars(Tick \/ StopFlusher)
  /\ \A w \in Worker : WF_vars(WorkerStep(w))
  /\ \A t \in Thread : WF_vars(FlushStep(t))
  /\ \A m \in Message : WF_vars(\E w \in Worker : Deliver(w, m))

FairSpec == Spec /\ Fairness

-----------------------------------------------------------------------------
WorkerLabel == {"idle", "add", "flush", "write", "ack"}
FlusherLabel == {"off", "wait", "flush", "write"}
MainLabel == {"down", "subscribe", "result", "finally", "flush", "write", "exiting"}

PcType ==
  /\ pc \in [Thread -> WorkerLabel \cup FlusherLabel \cup MainLabel]
  /\ \A w \in Worker : pc[w] \in WorkerLabel
  /\ pc[Flusher] \in FlusherLabel
  /\ pc[Main] \in MainLabel

HoldsWhatItWorksOn ==
  /\ \A w \in Worker : current[w] = NoMessage <=> pc[w] = "idle"
  /\ \A t \in Thread : pc[t] # "write" => batch[t] = <<>>
  /\ pc[Main] = "down" => pc[Flusher] = "off"

\* Every variable has its type; a worker holds a message exactly while its
\* callback runs, only a thread that writes holds a batch, and the flush thread
\* does not outlive the process.
TypeOK ==
  /\ backlog \subseteq Message
  /\ deliveries \in [Message -> Nat]
  /\ stream \in {"open", "closed"}
  /\ callbackError \in BOOLEAN
  /\ PcType
  /\ current \in [Worker -> Message \cup {NoMessage}]
  /\ buffer \in Seq(Message)
  /\ batch \in [Thread -> Seq(Message)]
  /\ HoldsWhatItWorksOn
  /\ written \in [Thread -> SUBSET Partition]
  /\ stopEvent \in BOOLEAN
  /\ ticks \in 0 .. FlushTicks
  /\ raw \in [Message -> Nat]
  /\ discarded \subseteq EventId
  /\ runs \in Nat
  /\ faults \in Nat

-----------------------------------------------------------------------------
(* Safety.                                                                 *)

\* An acknowledged event, which nobody will send again, is in the raw layer
\* or still in the process, unless a failure dropped a copy of its id: the
\* list changes hands between add() and three kinds of flushers without an
\* event falling between them.
NoSilentLoss ==
  \A m \in Message \ backlog : IdOf[m] \in RawIds \cup MemoryIds \cup discarded

\* After Ctrl+C, when the finally block of run() is through, no acknowledged
\* event is left in the buffer alone: callbacks that outlive the final flush
\* cannot acknowledge any more, so what they add will be delivered again.
FinalFlushKeepsAcked ==
  (pc[Main] = "exiting" /\ stream = "closed") =>
     \A m \in Message \ backlog :
        IdOf[m] \in RawIds \cup (UNION {PendingIds(t) : t \in Thread}) \cup discarded

\* Where a message is in the buffer, and in the batches under way.
InBuffer(m) == {k \in DOMAIN buffer : buffer[k] = m}

InBatches(m) ==
  UNION {{<<t, k>> : k \in {j \in Unwritten(t) : batch[t][j] = m}} : t \in Thread}

\* flush() hands each event to one thread only: the copies of a message in the
\* raw files, in the buffer and in the batches under way never outnumber its
\* deliveries.
Copies(m) == raw[m] + Cardinality(InBuffer(m)) + Cardinality(InBatches(m))

NoEventCopied == \A m \in Message : Copies(m) <= deliveries[m]

\* The size test of add() is not repeated by anybody, so the buffer may outgrow
\* flush_size, but only by the appends of workers that are on their way to
\* empty it.
BufferOverrunBounded ==
  Len(buffer) + 1 <= FlushSize + Cardinality({w \in Worker : pc[w] = "flush"})

-----------------------------------------------------------------------------
(* Refinement.                                                             *)

Delivery == INSTANCE AtLeastOnce
  WITH owed <- backlog, held <- MemoryIds, stored <- RawIds, dropped <- discarded

\* The threads, the lock and the flushes implement at-least-once delivery: no
\* step of any thread takes an id out of memory that it did not store or count
\* as dropped, and no acknowledgement overtakes the event it is for.
DeliversAtLeastOnce == Delivery!Spec

-----------------------------------------------------------------------------
(* Liveness.                                                               *)

\* RawEventBuffer is "flushed by size or time, whichever comes first" (main.py
\* line 29): events do not stay in it.
BufferDrains == (buffer # <<>>) ~> (buffer = <<>>)

\* Every message the server holds reaches the raw layer for as long as the
\* consumer serves, or a failure drops its id.
ServedEventReachesRaw ==
  \A m \in Message :
     (m \in backlog) ~> (IdOf[m] \in RawIds \cup discarded \/ pc[Main] # "result")

\* Once the main thread is past the subscription the process ends: no callback
\* and no flush under way keeps it waiting for ever.
ShutdownCompletes == (pc[Main] = "finally") ~> (pc[Main] = "down")

-----------------------------------------------------------------------------
(* What the documents say and the code does not do.                        *)

\* "for the consumer, perform a final buffer flush before exiting"
\* (docs/RUNBOOK.md line 41): a consumer stopped without any failure has every
\* acknowledged event in the raw layer.
StoppedConsumerLostNothing ==
  pc[Main] = "down" => \A m \in Message \ backlog : IdOf[m] \in RawIds

\* "no duplicate `_event_id` appears in the final raw files"
\* (docs/SPEC-phase1-ingestion.md line 158).
NoDuplicateIdInRaw ==
  \A m, n \in Message : (IdOf[m] = IdOf[n] /\ raw[m] > 0 /\ raw[n] > 0) => m = n /\ raw[m] = 1
=============================================================================
