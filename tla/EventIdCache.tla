----------------------------- MODULE EventIdCache -----------------------------
(***************************************************************************)
(* EventIdLruCache of src/src/producer/dedup_cache.py as values and         *)
(* operations: a deque in insertion order beside a set for the lookup.     *)
(***************************************************************************)
EXTENDS Integers, Sequences, FiniteSets, Functions

CONSTANTS EventId, MaxSize

ASSUME MaxSizeAssumption == MaxSize \in Nat

Cache == [order : Seq(EventId), seen : SUBSET EventId]

EmptyCache == [order |-> <<>>, seen |-> {}]

HasSeen(cache, id) == id \in cache.seen

\* Mutant of Evict: the set forgets the newest id, the deque the oldest.
EvictNewest(cache) ==
  IF Len(cache.order) > MaxSize
  THEN [order |-> Tail(cache.order),
        seen  |-> cache.seen \ {cache.order[Len(cache.order)]}]
  ELSE cache

\* Mutant of Evict: the deque never reaches maxsize.
EvictEarly(cache) ==
  IF Len(cache.order) >= MaxSize
  THEN [order |-> Tail(cache.order), seen |-> cache.seen \ {Head(cache.order)}]
  ELSE cache

\* The oldest insertion goes first; has_seen() does not refresh an entry.
Evict(cache) ==
  IF Len(cache.order) > MaxSize
  THEN [order |-> Tail(cache.order), seen |-> cache.seen \ {Head(cache.order)}]
  ELSE cache

CacheAdd(cache, id) ==
  IF HasSeen(cache, id) THEN cache
  ELSE Evict([order |-> Append(cache.order, id), seen |-> cache.seen \cup {id}])

-----------------------------------------------------------------------------
(* What the cache is to the ids it accepted, a sequence.                   *)

WindowSize(ids) == IF Len(ids) < MaxSize THEN Len(ids) ELSE MaxSize

\* The deque holds the last maxsize accepted ids in order, the set the same ids.
IsWindowOf(cache, ids) ==
  /\ Len(cache.order) = WindowSize(ids)
  /\ \A i \in 1 .. WindowSize(ids) : cache.order[i] = ids[Len(ids) - WindowSize(ids) + i]
  /\ cache.seen = {cache.order[i] : i \in 1 .. WindowSize(ids)}

\* An id is accepted again only after maxsize others.
Spaced(ids) ==
  \A i, j \in 1 .. Len(ids) : (i < j /\ ids[i] = ids[j]) => j - i > MaxSize
=============================================================================
