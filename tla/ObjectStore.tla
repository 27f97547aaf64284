------------------------------ MODULE ObjectStore ------------------------------
(***************************************************************************)
(* What the callers of a StorageBackend count on: a call that returns has  *)
(* taken effect at one moment between its start and its end; a call that   *)
(* raises may have, or may not.  RawConsumer writes its partitions against *)
(* this interface; StorageClient implements it.                            *)
(***************************************************************************)
CONSTANTS
  Thread,    \* who calls
  Place      \* where an object can be: a service and a path in the bucket

VARIABLES
  place,     \* the place each thread writes or reads
  writes,    \* the threads that write; the others read
  status,    \* "idle", "busy", and how the last call ended
  stored     \* the places that hold an object

vars == <<place, writes, status, stored>>

Init ==
  /\ place \in [Thread -> Place]
  /\ writes \in SUBSET Thread
  /\ status = [t \in Thread |-> "idle"]
  /\ stored = {}

Call(t) ==
  /\ status[t] # "busy"
  /\ status' = [status EXCEPT ![t] = "busy"]
  /\ UNCHANGED <<place, writes, stored>>

\* A write leaves its object behind; a read finds one.
Succeed(t) ==
  /\ status[t] = "busy"
  /\ status' = [status EXCEPT ![t] = "ok"]
  /\ IF t \in writes THEN stored' = stored \cup {place[t]}
                     ELSE place[t] \in stored /\ stored' = stored
  /\ UNCHANGED <<place, writes>>

\* An error is no proof that nothing was written.
Raise(t) ==
  /\ status[t] = "busy"
  /\ status' = [status EXCEPT ![t] = "raised"]
  /\ stored' \in IF t \in writes THEN {stored, stored \cup {place[t]}} ELSE {stored}
  /\ UNCHANGED <<place, writes>>

\* The service is wiped.
Wipe ==
  /\ stored' \in SUBSET stored
  /\ UNCHANGED <<place, writes, status>>

\* A process restarts: the calls of its threads are gone.
Forget ==
  /\ \E gone \in SUBSET Thread :
        status' = [t \in Thread |-> IF t \in gone THEN "idle" ELSE status[t]]
  /\ UNCHANGED <<place, writes, stored>>

Next ==
  \/ \E t \in Thread : Call(t) \/ Succeed(t) \/ Raise(t)
  \/ Wipe
  \/ Forget

Spec == Init /\ [][Next]_vars
=============================================================================
