------------------------------ MODULE AtLeastOnce ------------------------------
(***************************************************************************)
(* What the consumer promises, without its threads, its buffer and its     *)
(* lock: an event is owed by the server until it is acknowledged, and may  *)
(* be acknowledged only once its id is in the consumer's memory, stored,   *)
(* or given up by a failure that was counted.  RawConsumer implements it.  *)
(***************************************************************************)
CONSTANTS
  Message,   \* the messages of the topic
  IdOf       \* Message -> the `_event_id` it carries

VARIABLES
  owed,      \* messages the server still has to deliver (again)
  held,      \* ids in the consumer's memory
  stored,    \* ids in the raw layer
  dropped    \* ids that a failure took out of memory

vars == <<owed, held, stored, dropped>>

Accounted == held \cup stored \cup dropped

Init ==
  /\ owed = Message
  /\ held = {}
  /\ stored = {}
  /\ dropped = {}

\* A message may come any number of times, also after its acknowledgement.
Receive(m) ==
  /\ held' = held \cup {IdOf[m]}
  /\ UNCHANGED <<owed, stored, dropped>>

Acknowledge(m) ==
  /\ IdOf[m] \in Accounted
  /\ owed' = owed \ {m}
  /\ UNCHANGED <<held, stored, dropped>>

\* Ids leave memory for the raw layer, for the account of failures, or for
\* both; another copy of the same id may stay behind.
Settle(kept, failed) ==
  /\ stored' = stored \cup kept
  /\ dropped' = dropped \cup failed
  /\ held' \in SUBSET held
  /\ held \ (kept \cup failed) \subseteq held'
  /\ UNCHANGED owed

Next ==
  \/ \E m \in Message : Receive(m) \/ Acknowledge(m)
  \/ \E kept, failed \in SUBSET held : Settle(kept, failed)

Spec == Init /\ [][Next]_vars

\* No event is lost silently: what the server has forgotten is accounted for.
NothingLostSilently == \A m \in Message \ owed : IdOf[m] \in Accounted
=============================================================================
