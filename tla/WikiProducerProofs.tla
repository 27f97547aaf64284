-------------------------- MODULE WikiProducerProofs --------------------------
(***************************************************************************)
(* Theorems about WikiProducer, for every feed, cache size, backoff and    *)
(* number of failures: the dedup cache is the window of the last maxsize   *)
(* accepted ids, so an id repeats only after maxsize others; a death loses *)
(* one event at most; and the backoff doubles up to its maximum.           *)
(***************************************************************************)
EXTENDS WikiProducer, FiniteSetTheorems, WellFoundedInduction, TLAPS

-----------------------------------------------------------------------------
(* The cache.                                                              *)

\* add() keeps the shape of the cache.
LEMMA CacheAddType ==
  ASSUME NEW c \in Cache, NEW id \in EventId
  PROVE  CacheAdd(c, id) \in Cache
<1> DEFINE longer == [order |-> Append(c.order, id), seen |-> c.seen \cup {id}]
<1>1. longer \in Cache
  BY DEF Cache
<1>2. Len(longer.order) > MaxSize => longer.order # <<>>
  BY MaxSizeAssumption DEF Cache
<1>3. Evict(longer) \in Cache
  <2>1. CASE Len(longer.order) > MaxSize
    <3>1. Tail(longer.order) \in Seq(EventId)
      BY <1>1, <1>2, <2>1 DEF Cache
    <3> QED BY <1>1, <2>1, <3>1 DEF Evict, Cache
  <2>2. CASE ~(Len(longer.order) > MaxSize)
    BY <1>1, <2>2 DEF Evict
  <2> QED BY <2>1, <2>2
<1> QED BY <1>3 DEF CacheAdd

\* An id the window does not hold may follow: the ids stay spaced.
LEMMA AppendKeepsSpaced ==
  ASSUME NEW c \in Cache, NEW ids \in Seq(EventId), NEW id \in EventId,
         IsWindowOf(c, ids), Spaced(ids), ~HasSeen(c, id)
  PROVE  Spaced(Append(ids, id))
<1> DEFINE n == Len(ids)
           more == Append(ids, id)
           size == WindowSize(ids)
<1>1. /\ n \in Nat /\ size \in Nat /\ size <= n
      /\ size = n \/ size = MaxSize
      /\ Len(more) = n + 1 /\ more[n + 1] = id
      /\ \A k \in 1 .. n : more[k] = ids[k]
  BY MaxSizeAssumption DEF WindowSize
<1>2. \A k \in 1 .. n : k > n - size => ids[k] # id
  <2> SUFFICES ASSUME NEW k \in 1 .. n, k > n - size
               PROVE  ids[k] # id
    OBVIOUS
  <2> DEFINE i == k - (n - size)
  <2>1. i \in 1 .. size /\ n - size + i = k
    BY <1>1
  <2>2. c.order[i] \in c.seen /\ c.order[i] = ids[k]
    BY <2>1 DEF IsWindowOf
  <2> QED BY <2>2 DEF HasSeen
<1> SUFFICES ASSUME NEW i \in 1 .. n + 1, NEW j \in 1 .. n + 1, i < j, more[i] = more[j]
             PROVE  j - i > MaxSize
  BY <1>1 DEF Spaced
<1>3. i \in 1 .. n /\ more[i] = ids[i]
  BY <1>1
<1>4. CASE j = n + 1
  <2>1. ids[i] = id
    BY <1>1, <1>3, <1>4
  <2>2. i <= n - size
    BY <1>1, <1>2, <1>3, <2>1
  <2> QED BY <1>1, <1>3, <1>4, <2>2, MaxSizeAssumption
<1>5. CASE j # n + 1
  <2> HIDE DEF more
  <2>1. j \in 1 .. n
    BY <1>1, <1>5
  <2>2. ids[i] = ids[j]
    BY <1>1, <1>3, <2>1
  <2> QED BY <1>3, <2>1, <2>2 DEF Spaced
<1> QED BY <1>4, <1>5

\* add() slides the window: what it evicts is the one id that leaves it.
LEMMA CacheAddSlides ==
  ASSUME NEW c \in Cache, NEW ids \in Seq(EventId), NEW id \in EventId,
         IsWindowOf(c, ids), Spaced(ids), ~HasSeen(c, id)
  PROVE  IsWindowOf(CacheAdd(c, id), Append(ids, id))
<1> DEFINE n == Len(ids)
           more == Append(ids, id)
           size == WindowSize(ids)
           order == Append(c.order, id)
           seen == c.seen \cup {id}
           longer == [order |-> order, seen |-> seen]
<1>1. /\ n \in Nat /\ size \in Nat /\ size <= n
      /\ Len(more) = n + 1 /\ more[n + 1] = id
      /\ \A k \in 1 .. n : more[k] = ids[k]
  BY MaxSizeAssumption DEF WindowSize
<1>2. /\ c.order \in Seq(EventId) /\ Len(c.order) = size
      /\ \A i \in 1 .. size : c.order[i] = ids[n - size + i]
      /\ c.seen = {c.order[i] : i \in 1 .. size}
  BY DEF IsWindowOf, Cache
<1>3. /\ order \in Seq(EventId) /\ Len(order) = size + 1 /\ order[size + 1] = id
      /\ \A i \in 1 .. size : order[i] = c.order[i]
  BY <1>1, <1>2
<1>4. \A i \in 1 .. size + 1 : order[i] = more[n - size + i]
  <2> SUFFICES ASSUME NEW i \in 1 .. size + 1
               PROVE  order[i] = more[n - size + i]
    OBVIOUS
  <2>1. CASE i = size + 1
    BY <1>1, <1>3, <2>1
  <2>2. CASE i # size + 1
    <3>1. i \in 1 .. size /\ n - size + i \in 1 .. n
      BY <1>1, <2>2
    <3> QED BY <1>1, <1>2, <1>3, <3>1
  <2> QED BY <2>1, <2>2
<1>5. seen = {order[i] : i \in 1 .. size + 1}
  <2>1. ASSUME NEW x \in seen
        PROVE  \E i \in 1 .. size + 1 : x = order[i]
    <3>1. CASE x = id
      BY <1>1, <1>3, <3>1
    <3>2. CASE x # id
      <4>1. PICK i \in 1 .. size : x = c.order[i]
        BY <1>2, <2>1, <3>2
      <4>2. i \in 1 .. size + 1 /\ x = order[i]
        BY <1>1, <1>3, <4>1
      <4> QED BY <4>2
    <3> QED BY <3>1, <3>2
  <2>2. ASSUME NEW i \in 1 .. size + 1
        PROVE  order[i] \in seen
    <3>1. CASE i = size + 1
      BY <1>3, <3>1
    <3>2. CASE i # size + 1
      <4>1. i \in 1 .. size
        BY <1>1, <3>2
      <4> QED BY <1>2, <1>3, <4>1
    <3> QED BY <3>1, <3>2
  <2> QED BY <2>1, <2>2
<1>6. SUFFICES IsWindowOf(Evict(longer), more)
  BY DEF CacheAdd
<1>7. CASE size + 1 <= MaxSize
  <2>1. size = n /\ WindowSize(more) = n + 1
    BY <1>1, <1>7, MaxSizeAssumption DEF WindowSize
  <2>2. Evict(longer) = longer
    BY <1>1, <1>3, <1>7, MaxSizeAssumption DEF Evict
  <2>3. longer.order = order /\ longer.seen = seen
    OBVIOUS
  <2> HIDE DEF longer, order, seen, more
  <2> QED BY <1>1, <1>3, <1>4, <1>5, <2>1, <2>2, <2>3 DEF IsWindowOf
<1>8. CASE ~(size + 1 <= MaxSize)
  <2>1. size = MaxSize /\ WindowSize(more) = size
    BY <1>1, <1>8, MaxSizeAssumption DEF WindowSize
  <2> DEFINE rest == Tail(order)
  <2>2. longer.order = order /\ longer.seen = seen
    OBVIOUS
  <2>3. order # <<>> /\ Head(order) = order[1]
    <3>1. Len(order) # 0
      BY <1>1, <1>3
    <3> HIDE DEF order
    <3> QED BY <1>3, <3>1
  <2>4. Len(rest) = size /\ \A i \in 1 .. size : rest[i] = order[i + 1]
    <3> HIDE DEF order, size
    <3> QED BY <1>1, <1>3, <2>3
  <2>5. \A i \in 1 .. size : rest[i] = more[(n + 1) - size + i]
    <3> SUFFICES ASSUME NEW i \in 1 .. size
                 PROVE  rest[i] = more[(n + 1) - size + i]
      OBVIOUS
    <3>1. i + 1 \in 1 .. size + 1 /\ n - size + (i + 1) = (n + 1) - size + i
      BY <1>1
    <3> QED BY <1>4, <2>4, <3>1
  <2>6. \A i \in 1 .. size : rest[i] # order[1]
    <3> SUFFICES ASSUME NEW i \in 1 .. size, rest[i] = order[1]
                 PROVE  FALSE
      OBVIOUS
    <3> DEFINE a == n - size + 1
               b == (n + 1) - size + i
    <3>1. a \in 1 .. n + 1 /\ b \in 1 .. n + 1 /\ a < b /\ b - a = i
      BY <1>1
    <3>2. order[1] = more[a]
      <4>1. 1 \in 1 .. size + 1
        BY <1>1
      <4> HIDE DEF order, more
      <4> QED BY <1>4, <4>1
    <3>3. rest[i] = more[b]
      BY <2>5
    <3>4. more[a] = more[b]
      BY <3>2, <3>3
    <3>5. Spaced(more)
      BY AppendKeepsSpaced
    <3>6. b - a > MaxSize
      <4> HIDE DEF a, b, more
      <4>1. a \in 1 .. Len(more) /\ b \in 1 .. Len(more)
        BY <1>1, <3>1
      <4> QED BY <3>1, <3>4, <3>5, <4>1 DEF Spaced
    <3> QED BY <1>1, <2>1, <3>1, <3>6, MaxSizeAssumption
  <2>7. seen \ {order[1]} = {rest[i] : i \in 1 .. size}
    <3>1. ASSUME NEW x \in seen \ {order[1]}
          PROVE  \E i \in 1 .. size : x = rest[i]
      <4>1. PICK k \in 1 .. size + 1 : x = order[k]
        BY <1>5, <3>1
      <4>2. k - 1 \in 1 .. size /\ (k - 1) + 1 = k
        BY <1>1, <3>1, <4>1
      <4>3. x = rest[k - 1]
        BY <2>4, <4>1, <4>2
      <4> QED BY <4>2, <4>3
    <3>2. ASSUME NEW i \in 1 .. size
          PROVE  rest[i] \in seen \ {order[1]}
      <4>1. i + 1 \in 1 .. size + 1
        BY <1>1
      <4> QED BY <1>5, <2>4, <2>6, <4>1
    <3> HIDE DEF rest, seen, order
    <3> QED BY <3>1, <3>2
  <2>8. Evict(longer).order = rest /\ Evict(longer).seen = seen \ {order[1]}
    <3>1. Len(longer.order) > MaxSize
      BY <1>1, <1>3, <2>1, <2>2, MaxSizeAssumption
    <3>2. Evict(longer) = [order |-> rest, seen |-> seen \ {order[1]}]
      BY <2>2, <2>3, <3>1 DEF Evict
    <3> HIDE DEF rest, longer, seen, order
    <3> QED BY <3>2
  <2> HIDE DEF rest, longer, seen, order, more
  <2> QED BY <1>1, <2>1, <2>4, <2>5, <2>7, <2>8 DEF IsWindowOf
<1> QED BY <1>7, <1>8

-----------------------------------------------------------------------------
(* The process.                                                            *)

LEMMA CacheIsEmptyAtFirst == EmptyCache \in Cache /\ IsWindowOf(EmptyCache, <<>>) /\ Spaced(<<>>)
  BY MaxSizeAssumption DEF EmptyCache, Cache, IsWindowOf, WindowSize, Spaced

LEMMA TypeInit == Init => TypeOK
<1> SUFFICES ASSUME Init
             PROVE  TypeOK
  OBVIOUS
<1>1. Len(Feed) \in Nat
  BY FeedAssumption
<1>2. cache \in Cache /\ accepted \in Seq(EventId)
  BY CacheIsEmptyAtFirst DEF Init
<1>3. backoff \in InitialBackoff .. MaxBackoff
  BY NumberAssumption DEF Init
<1>4. live \in 0 .. Len(Feed) /\ next \in 1 .. live + 1 /\ hand \in 0 .. Len(Feed)
  BY <1>1 DEF Init
<1>5. topic \subseteq Position /\ received \subseteq Position
  BY DEF Init
<1> QED BY <1>2, <1>3, <1>4, <1>5 DEF Init, TypeOK, Label

LEMMA DieKeepsType ==
  ASSUME TypeOK, Die, topic' \subseteq Position
  PROVE  TypeOK'
<1>1. /\ pc' = "down" /\ hand' = 0 /\ cache' = EmptyCache
      /\ backoff' = InitialBackoff /\ published' = 0
      /\ accepted' = <<>> /\ fruitless' = 0
      /\ UNCHANGED <<live, next, topicExists, subscriptionExists, received, runs, drops>>
  BY DEF Die, feedVars, setupVars
<1>2. cache' \in Cache /\ accepted' \in Seq(EventId)
  BY <1>1, CacheIsEmptyAtFirst
<1>3. backoff' \in InitialBackoff .. MaxBackoff
  BY <1>1, NumberAssumption
<1> QED BY <1>1, <1>2, <1>3, FeedAssumption DEF TypeOK, Label, Position

LEMMA DropKeepsType ==
  ASSUME TypeOK, Drop, pc \in {"connect", "read"}
  PROVE  TypeOK'
  BY DEF TypeOK, Drop, Label, Position, IsEvent, feedVars, setupVars, history

\* Every step keeps the types.
LEMMA TypeStep == TypeOK /\ [Next]_vars => TypeOK'
<1> SUFFICES ASSUME TypeOK, [Next]_vars
             PROVE  TypeOK'
  OBVIOUS
<1> USE FeedAssumption, NumberAssumption DEF TypeOK, Label, Position, IsEvent
<1>1. CASE CreateTopic
  BY <1>1 DEF CreateTopic, feedVars, history
<1>2. CASE CreateSubscription
  BY <1>2 DEF CreateSubscription, feedVars, history
<1>3. CASE Connect
  <2>1. PICK replay \in 0 .. MaxReplay : replay <= live /\ next' = live + 1 - replay
    BY <1>3 DEF Connect
  <2>2. next' \in 1 .. live + 1
    BY <2>1
  <2> QED BY <1>3, <2>2 DEF Connect, setupVars, history
<1>4. CASE ReadLine
  <2>1. next \in Position /\ next' \in 1 .. live + 1
    BY <1>4 DEF ReadLine
  <2>2. CASE IsEvent(Feed[next])
    <3>1. /\ pc' = "dedup" /\ hand' = next /\ received' = received \cup {next}
          /\ UNCHANGED <<live, topicExists, subscriptionExists, cache, backoff, published,
                         topic, accepted, fruitless, runs, drops>>
      BY <1>4, <2>2 DEF ReadLine, setupVars
    <3>2. hand' \in Position /\ IsEvent(Feed[hand'])
      BY <2>1, <2>2, <3>1
    <3>3. received' \subseteq Position
      BY <2>1, <3>1
    <3> QED BY <2>1, <3>1, <3>2, <3>3
  <2>3. CASE ~IsEvent(Feed[next])
    BY <1>4, <2>1, <2>3 DEF ReadLine, setupVars
  <2> QED BY <2>2, <2>3
<1>5. CASE Sleep
  BY <1>5 DEF Sleep, NextBackoff, feedVars, setupVars
<1>6. CASE Resume
  BY <1>6 DEF Resume, feedVars, setupVars
<1>7. CASE Discard
  BY <1>7 DEF Discard, feedVars, setupVars, history
<1>8. CASE Accept
  <2>1. Feed[hand] \in EventId
    BY <1>8 DEF Accept
  <2>2. cache' \in Cache
    BY <1>8, <2>1, CacheAddType DEF Accept
  <2>3. accepted' \in Seq(EventId)
    BY <1>8, <2>1 DEF Accept
  <2> QED BY <1>8, <2>2, <2>3 DEF Accept, feedVars, setupVars
<1>9. CASE Publish
  <2>1. topic' \subseteq Position /\ published' \in Nat /\ pc' \in {"stopped", "resume"}
    BY <1>9 DEF Publish
  <2> QED BY <1>9, <2>1 DEF Publish, feedVars, setupVars, history
<1>10. CASE Emit
  BY <1>10 DEF Emit, setupVars, processVars, history
<1>11. CASE Start
  BY <1>11 DEF Start, feedVars, setupVars, history
<1>12. CASE ConsumerEnsuresTopic
  BY <1>12 DEF ConsumerEnsuresTopic, feedVars, processVars, history
<1>13. CASE ConnectFails
  BY <1>13, DropKeepsType DEF ConnectFails
<1>14. CASE ConnectionEnds
  BY <1>14, DropKeepsType DEF ConnectionEnds
<1>15. CASE PublishFails
  <2>1. topic' \subseteq Position
    BY <1>15 DEF PublishFails
  <2> QED BY <1>15, <2>1, DieKeepsType DEF PublishFails
<1>16. CASE Killed
  BY <1>16, DieKeepsType DEF Killed
<1>17. CASE UNCHANGED vars
  BY <1>17 DEF vars, feedVars, setupVars, processVars, history
<1> QED BY <1>1, <1>2, <1>3, <1>4, <1>5, <1>6, <1>7, <1>8, <1>9, <1>10, <1>11, <1>12,
           <1>13, <1>14, <1>15, <1>16, <1>17 DEF Next, Step

\* In every state every variable of the producer has its type, the backoff stays
\* within its limits and an event is in hand exactly while run() works on it.
THEOREM TypeCorrect == Spec => []TypeOK
<1>1. Init => TypeOK
  BY TypeInit
<1>2. TypeOK /\ [Next]_vars => TypeOK'
  BY TypeStep
<1> QED BY <1>1, <1>2, PTL DEF Spec

-----------------------------------------------------------------------------
(* The dedup window: has_seen() and add() as run() uses them.              *)

WindowInv == CacheIsWindow /\ NoRepeatWithinWindow

LEMMA WindowStep == TypeOK /\ WindowInv /\ [Next]_vars => WindowInv'
<1> SUFFICES ASSUME TypeOK, WindowInv, [Next]_vars
             PROVE  WindowInv'
  OBVIOUS
<1> USE DEF WindowInv, CacheIsWindow, NoRepeatWithinWindow
<1>1. CASE Accept
  <2>1. cache \in Cache /\ accepted \in Seq(EventId) /\ Feed[hand] \in EventId
    BY <1>1 DEF Accept, TypeOK, IsEvent
  <2>2. /\ cache' = CacheAdd(cache, Feed[hand])
        /\ accepted' = Append(accepted, Feed[hand])
        /\ ~HasSeen(cache, Feed[hand])
    BY <1>1 DEF Accept
  <2>3. IsWindowOf(cache', accepted')
    BY <2>1, <2>2, CacheAddSlides
  <2>4. Spaced(accepted')
    BY <2>1, <2>2, AppendKeepsSpaced
  <2> QED BY <2>3, <2>4
<1>2. CASE PublishFails \/ Killed
  <2>1. cache' = EmptyCache /\ accepted' = <<>>
    BY <1>2 DEF PublishFails, Killed, Die
  <2> QED BY <2>1, CacheIsEmptyAtFirst
<1>3. CASE UNCHANGED <<cache, accepted>>
  BY <1>3
<1>4. Accept \/ PublishFails \/ Killed \/ UNCHANGED <<cache, accepted>>
  BY DEF Next, Step, CreateTopic, CreateSubscription, Connect, ReadLine, Sleep, Resume,
         Discard, Publish, Emit, Start, ConsumerEnsuresTopic, ConnectFails, ConnectionEnds,
         Drop, vars, processVars, history
<1> QED BY <1>1, <1>2, <1>3, <1>4

\* For every maxsize the deque and the set of EventIdLruCache agree on the last
\* maxsize ids the run found new.
THEOREM CacheHoldsLastIds == Spec => []CacheIsWindow
<1>1. Init => TypeOK /\ WindowInv
  BY TypeInit, CacheIsEmptyAtFirst
  DEF Init, WindowInv, CacheIsWindow, NoRepeatWithinWindow
<1>2. (TypeOK /\ WindowInv) /\ [Next]_vars => (TypeOK /\ WindowInv)'
  BY TypeStep, WindowStep
<1>3. WindowInv => CacheIsWindow
  BY DEF WindowInv
<1> QED BY <1>1, <1>2, <1>3, PTL DEF Spec

\* A reconnection that repeats fewer than maxsize different events has none of
\* them published twice by the same run.
THEOREM RepeatsAreSpaced == Spec => []NoRepeatWithinWindow
<1>1. Init => TypeOK /\ WindowInv
  BY TypeInit, CacheIsEmptyAtFirst
  DEF Init, WindowInv, CacheIsWindow, NoRepeatWithinWindow
<1>2. (TypeOK /\ WindowInv) /\ [Next]_vars => (TypeOK /\ WindowInv)'
  BY TypeStep, WindowStep
<1>3. WindowInv => NoRepeatWithinWindow
  BY DEF WindowInv
<1> QED BY <1>1, <1>2, <1>3, PTL DEF Spec

\* A cache as large as the set of ids makes repeats impossible: a run then
\* publishes no id twice.  The windows of maxsize + 1 accepted ids would have to
\* hold more ids than there are.
THEOREM LargeCacheForbidsRepeats ==
  ASSUME IsFiniteSet(EventId), Cardinality(EventId) <= MaxSize
  PROVE  Spec => [](\A i, j \in 1 .. Len(accepted) : i < j => accepted[i] # accepted[j])
<1>1. TypeOK /\ NoRepeatWithinWindow
        => \A i, j \in 1 .. Len(accepted) : i < j => accepted[i] # accepted[j]
  <2> SUFFICES ASSUME TypeOK, NoRepeatWithinWindow,
                      NEW i \in 1 .. Len(accepted), NEW j \in 1 .. Len(accepted),
                      i < j, accepted[i] = accepted[j]
               PROVE  FALSE
    OBVIOUS
  <2> DEFINE window == i .. i + MaxSize
             f == [k \in window |-> accepted[k]]
  <2>1. accepted \in Seq(EventId) /\ Len(accepted) \in Nat /\ MaxSize \in Nat
    BY MaxSizeAssumption DEF TypeOK
  <2>2. j - i > MaxSize
    BY DEF NoRepeatWithinWindow, Spaced
  <2>3. window \subseteq 1 .. Len(accepted)
    BY <2>1, <2>2
  <2>4. f \in [window -> EventId]
    BY <2>1, <2>3
  <2>5. IsFiniteSet(window) /\ Cardinality(window) = MaxSize + 1
    <3>1. i \in Int /\ i + MaxSize \in Int /\ ~(i > i + MaxSize)
          /\ (i + MaxSize) - i + 1 = MaxSize + 1
      BY <2>1
    <3> QED BY <3>1, FS_Interval
  <2>6. Cardinality(EventId) < Cardinality(window)
    BY <2>1, <2>5, FS_CardinalityType
  <2>7. PICK x, y \in window : x # y /\ f[x] = f[y]
    <3> HIDE DEF window, f
    <3> QED BY <2>4, <2>5, <2>6, FS_PigeonHole
  <2>8. PICK p, q \in window : p < q /\ accepted[p] = accepted[q]
    BY <2>1, <2>7
  <2>9. q - p <= MaxSize
    BY <2>1
  <2>10. q - p > MaxSize
    BY <2>3, <2>8 DEF NoRepeatWithinWindow, Spaced
  <2> QED BY <2>1, <2>8, <2>9, <2>10
<1> QED BY <1>1, TypeCorrect, RepeatsAreSpaced, PTL

-----------------------------------------------------------------------------
(* The id enters the cache before the publish, and still no event is lost   *)
(* to the cache.                                                           *)

\* What add() leaves in the set was there before or is the new id.
LEMMA CacheAddSeen ==
  ASSUME NEW c \in Cache, NEW id \in EventId
  PROVE  CacheAdd(c, id).seen \subseteq c.seen \cup {id}
<1> DEFINE longer == [order |-> Append(c.order, id), seen |-> c.seen \cup {id}]
<1>1. Evict(longer).seen \subseteq longer.seen
  BY DEF Evict
<1> QED BY <1>1 DEF CacheAdd

LEMMA SeenStep == TypeOK /\ SeenIsPublished /\ [Next]_vars => SeenIsPublished'
<1> SUFFICES ASSUME TypeOK, SeenIsPublished, [Next]_vars
             PROVE  SeenIsPublished'
  OBVIOUS
<1> USE DEF SeenIsPublished, TopicIds
<1>1. CASE Accept
  <2>1. cache \in Cache /\ Feed[hand] \in EventId /\ pc # "publish"
    BY <1>1 DEF Accept, TypeOK, IsEvent
  <2>2. cache'.seen \subseteq cache.seen \cup {Feed[hand]}
    BY <1>1, <2>1, CacheAddSeen DEF Accept
  <2>3. pc' = "publish" /\ hand' = hand /\ topic' = topic
    BY <1>1 DEF Accept
  <2> QED BY <2>1, <2>2, <2>3
<1>2. CASE Publish
  BY <1>2 DEF Publish
<1>3. CASE PublishFails \/ Killed
  BY <1>3 DEF PublishFails, Killed, Die, EmptyCache
<1>4. CASE UNCHANGED <<cache, topic>> /\ pc # "publish"
  BY <1>4
<1>5. CASE UNCHANGED <<cache, topic, pc, hand>>
  BY <1>5
<1>6. \/ Accept \/ Publish \/ PublishFails \/ Killed
      \/ UNCHANGED <<cache, topic>> /\ pc # "publish"
      \/ UNCHANGED <<cache, topic, pc, hand>>
  BY DEF Next, Step, CreateTopic, CreateSubscription, Connect, ReadLine, Sleep, Resume,
         Discard, Emit, Start, ConsumerEnsuresTopic, ConnectFails, ConnectionEnds,
         Drop, vars, processVars, history
<1> QED BY <1>1, <1>2, <1>3, <1>4, <1>5, <1>6

\* run() never discards as a duplicate an event whose id did not reach the topic.
THEOREM DiscardedWasPublished == Spec => []SeenIsPublished
<1>1. Init => TypeOK /\ SeenIsPublished
  BY TypeInit DEF Init, SeenIsPublished, EmptyCache
<1>2. (TypeOK /\ SeenIsPublished) /\ [Next]_vars => (TypeOK /\ SeenIsPublished)'
  BY TypeStep, SeenStep
<1> QED BY <1>1, <1>2, PTL DEF Spec

-----------------------------------------------------------------------------
(* ensure_topic before the first publish.                                  *)

Connected == {"connect", "read", "sleep", "dedup", "publish", "resume", "stopped"}

\* PublishedIsRetained, and how far ensure_topic has come.
RetainedInv ==
  /\ PublishedIsRetained
  /\ pc = "createSubscription" => topicExists
  /\ pc \in Connected => topicExists /\ subscriptionExists
  /\ subscriptionExists => topicExists

LEMMA RetainedStep == RetainedInv /\ [Next]_vars => RetainedInv'
  BY DEF RetainedInv, Connected, PublishedIsRetained, Next, Step, CreateTopic,
         CreateSubscription, Connect, ReadLine, Sleep, Resume, Discard, Accept, Publish,
         Emit, Start, ConsumerEnsuresTopic, ConnectFails, ConnectionEnds, Drop,
         PublishFails, Killed, Die, vars, feedVars, setupVars, processVars, history

\* Whichever process creates the topic, the subscription exists before the first
\* publish, so that Pub/Sub keeps the message.
THEOREM NothingPublishedForNobody == Spec => []PublishedIsRetained
<1>1. Init => RetainedInv
  BY DEF Init, RetainedInv, Connected, PublishedIsRetained
<1>2. RetainedInv /\ [Next]_vars => RetainedInv'
  BY RetainedStep
<1>3. RetainedInv => PublishedIsRetained
  BY DEF RetainedInv
<1> QED BY <1>1, <1>2, <1>3, PTL DEF Spec
-----------------------------------------------------------------------------
(* The backoff is a closed form of the number of sleeps.  PowerOfTwo is     *)
(* defined by recursion; that such a function exists takes an induction,   *)
(* which well-foundedness of < gives for a set of numbers.                 *)

LEMMA NatIsInductive ==
  ASSUME NEW S, 0 \in S, \A n \in Nat : n \in S => n + 1 \in S
  PROVE  Nat \subseteq S
<1> DEFINE T == Nat \ S
<1>1. SUFFICES ASSUME T # {}
               PROVE  FALSE
  OBVIOUS
<1>2. PICK least \in T : \A n \in T : ~(<<n, least>> \in OpToRel(<, Nat))
  <2> HIDE DEF T
  <2>1. T \subseteq Nat
    BY DEF T
  <2> QED BY <1>1, <2>1, NatLessThanWellFounded, WFMin
<1>3. least - 1 \in Nat /\ least - 1 \notin S
  OBVIOUS
<1>4. <<least - 1, least>> \in OpToRel(<, Nat)
  BY <1>3 DEF OpToRel
<1> QED BY <1>2, <1>3, <1>4

\* f holds the powers of two up to m.
HoldsPowers(f, m) ==
  /\ f \in [0 .. m -> Nat]
  /\ \A k \in 0 .. m : f[k] = IF k = 0 THEN 1 ELSE 2 * f[k - 1]

LEMMA PowersAgree ==
  ASSUME NEW m \in Nat, NEW n \in Nat, NEW f, NEW g,
         HoldsPowers(f, m), HoldsPowers(g, n)
  PROVE  \A k \in Nat : k <= m /\ k <= n => f[k] = g[k]
<1> DEFINE S == {k \in Nat : k <= m /\ k <= n => f[k] = g[k]}
<1>1. 0 \in S
  BY DEF HoldsPowers
<1>2. \A k \in Nat : k \in S => k + 1 \in S
  <2> SUFFICES ASSUME NEW k \in S, k + 1 <= m, k + 1 <= n
               PROVE  f[k + 1] = g[k + 1]
    OBVIOUS
  <2>1. /\ f[k] = g[k]
        /\ k + 1 \in 0 .. m /\ k + 1 \in 0 .. n
        /\ k + 1 # 0 /\ (k + 1) - 1 = k
    OBVIOUS
  <2> QED BY <2>1 DEF HoldsPowers
<1>3. Nat \subseteq S
  <2> HIDE DEF S
  <2> QED BY <1>1, <1>2, NatIsInductive
<1> QED BY <1>3

LEMMA PowersExist == \A m \in Nat : \E f : HoldsPowers(f, m)
<1> DEFINE S == {m \in Nat : \E f : HoldsPowers(f, m)}
<1>1. 0 \in S
  <2>1. HoldsPowers([k \in 0 .. 0 |-> 1], 0)
    BY DEF HoldsPowers
  <2> QED BY <2>1
<1>2. \A m \in Nat : m \in S => m + 1 \in S
  <2> SUFFICES ASSUME NEW m \in S
               PROVE  \E f : HoldsPowers(f, m + 1)
    OBVIOUS
  <2>1. PICK f : HoldsPowers(f, m)
    OBVIOUS
  <2> DEFINE g == [k \in 0 .. m + 1 |-> IF k = 0 THEN 1 ELSE 2 * f[k - 1]]
  <2>2. \A k \in 0 .. m : g[k] = f[k]
    BY <2>1 DEF HoldsPowers
  <2>3. \A k \in 0 .. m + 1 : k # 0 => k - 1 \in 0 .. m
    OBVIOUS
  <2>4. g \in [0 .. m + 1 -> Nat]
    <3> SUFFICES ASSUME NEW k \in 0 .. m + 1
                 PROVE  (IF k = 0 THEN 1 ELSE 2 * f[k - 1]) \in Nat
      OBVIOUS
    <3> QED BY <2>1, <2>3 DEF HoldsPowers
  <2>5. ASSUME NEW k \in 0 .. m + 1
        PROVE  g[k] = IF k = 0 THEN 1 ELSE 2 * g[k - 1]
    BY <2>2, <2>3
  <2>6. HoldsPowers(g, m + 1)
    <3> HIDE DEF g
    <3> QED BY <2>4, <2>5 DEF HoldsPowers
  <2> QED BY <2>6
<1>3. Nat \subseteq S
  <2> HIDE DEF S
  <2> QED BY <1>1, <1>2, NatIsInductive
<1> QED BY <1>3

LEMMA PowerOfTwoDef ==
  /\ PowerOfTwo = [n \in Nat |-> IF n = 0 THEN 1 ELSE 2 * PowerOfTwo[n - 1]]
  /\ PowerOfTwo \in [Nat -> Nat]
<1> DEFINE F(m) == CHOOSE f : HoldsPowers(f, m)
           power == [n \in Nat |-> F(n)[n]]
<1>1. \A m \in Nat : HoldsPowers(F(m), m)
  BY PowersExist
<1>2. ASSUME NEW n \in Nat
      PROVE  /\ power[n] = IF n = 0 THEN 1 ELSE 2 * power[n - 1]
             /\ power[n] \in Nat
  <2>1. HoldsPowers(F(n), n) /\ n \in 0 .. n
    BY <1>1
  <2>2. power[n] = F(n)[n] /\ (n # 0 => power[n - 1] = F(n - 1)[n - 1])
    OBVIOUS
  <2>3. CASE n = 0
    <3> HIDE DEF F, power
    <3> QED BY <2>1, <2>2, <2>3 DEF HoldsPowers
  <2>4. CASE n # 0
    <3>1. n - 1 \in Nat /\ n - 1 <= n /\ HoldsPowers(F(n - 1), n - 1)
      BY <1>1, <2>4
    <3> HIDE DEF F, power
    <3>2. F(n)[n] = 2 * F(n)[n - 1] /\ F(n)[n] \in Nat
      BY <2>1, <2>4 DEF HoldsPowers
    <3>3. F(n)[n - 1] = F(n - 1)[n - 1]
      BY <2>1, <3>1, PowersAgree
    <3> QED BY <2>2, <2>4, <3>2, <3>3
  <2> QED BY <2>3, <2>4
<1>3. /\ power = [n \in Nat |-> IF n = 0 THEN 1 ELSE 2 * power[n - 1]]
      /\ power \in [Nat -> Nat]
  <2>1. power = [n \in Nat |-> power[n]]
    OBVIOUS
  <2> HIDE DEF power
  <2> QED BY <1>2, <2>1
<1>4. PowerOfTwo = [n \in Nat |-> IF n = 0 THEN 1 ELSE 2 * PowerOfTwo[n - 1]]
  <2> HIDE DEF power
  <2> QED BY <1>3 DEF PowerOfTwo
<1>5. ASSUME NEW n \in Nat
      PROVE  PowerOfTwo[n] \in Nat
  <2> DEFINE S == {k \in Nat : PowerOfTwo[k] \in Nat}
  <2>1. 0 \in S
    BY <1>4
  <2>2. \A k \in Nat : k \in S => k + 1 \in S
    <3> SUFFICES ASSUME NEW k \in S
                 PROVE  PowerOfTwo[k + 1] \in Nat
      OBVIOUS
    <3>1. k + 1 \in Nat /\ k + 1 # 0 /\ (k + 1) - 1 = k
      OBVIOUS
    <3>2. PowerOfTwo[k + 1] = 2 * PowerOfTwo[k]
      BY <1>4, <3>1
    <3> QED BY <3>2
  <2>3. Nat \subseteq S
    <3> HIDE DEF S
    <3> QED BY <2>1, <2>2, NatIsInductive
  <2> QED BY <2>3
<1> QED BY <1>4, <1>5

LEMMA PowerOfTwoDoubles ==
  ASSUME NEW n \in Nat
  PROVE  /\ PowerOfTwo[0] = 1
         /\ PowerOfTwo[n] \in Nat
         /\ PowerOfTwo[n + 1] = 2 * PowerOfTwo[n]
<1>1. n + 1 \in Nat /\ n + 1 # 0 /\ (n + 1) - 1 = n
  OBVIOUS
<1> QED BY <1>1, PowerOfTwoDef

LEMMA BackoffStep ==
  ASSUME TypeOK, BackoffIsExponential, [Next]_vars
  PROVE  BackoffIsExponential'
<1> DEFINE doubled == InitialBackoff * PowerOfTwo[fruitless]
<1>1. fruitless \in Nat /\ InitialBackoff \in Nat /\ MaxBackoff \in Nat
  BY NumberAssumption DEF TypeOK
<1>2. backoff = IF doubled < MaxBackoff THEN doubled ELSE MaxBackoff
  BY DEF BackoffIsExponential
<1>3. CASE Sleep
  <2>1. /\ PowerOfTwo[fruitless] \in Nat
        /\ PowerOfTwo[fruitless + 1] = 2 * PowerOfTwo[fruitless]
    BY <1>1, PowerOfTwoDoubles
  <2>2. doubled \in Nat
    BY <1>1, <2>1
  <2>3. InitialBackoff * PowerOfTwo[fruitless'] = 2 * doubled
    BY <1>1, <1>3, <2>1 DEF Sleep
  <2>4. backoff' = NextBackoff(backoff)
    BY <1>3 DEF Sleep
  <2>5. backoff' = IF 2 * doubled < MaxBackoff THEN 2 * doubled ELSE MaxBackoff
    <3> HIDE DEF doubled
    <3> QED BY <1>1, <1>2, <2>2, <2>4 DEF NextBackoff
  <2> QED BY <2>3, <2>5 DEF BackoffIsExponential
<1>4. CASE backoff' = InitialBackoff /\ fruitless' = 0
  <2>1. InitialBackoff * PowerOfTwo[fruitless'] = InitialBackoff
    BY <1>1, <1>4, PowerOfTwoDoubles
  <2> QED BY <1>4, <2>1, NumberAssumption DEF BackoffIsExponential
<1>5. CASE UNCHANGED <<backoff, fruitless>>
  BY <1>5 DEF BackoffIsExponential
<1>6. \/ Sleep
      \/ backoff' = InitialBackoff /\ fruitless' = 0
      \/ UNCHANGED <<backoff, fruitless>>
  BY DEF Next, Step, CreateTopic, CreateSubscription, Connect, ReadLine, Resume,
         Discard, Accept, Publish, Emit, Start, ConsumerEnsuresTopic, ConnectFails,
         ConnectionEnds, Drop, PublishFails, Killed, Die, vars, processVars, history
<1> QED BY <1>3, <1>4, <1>5, <1>6

\* For every initial and maximal backoff the wait is the initial one doubled once
\* for each connection that brought no event, and never above the maximum.
THEOREM BackoffDoubles == Spec => []BackoffIsExponential
<1>1. Init => TypeOK /\ BackoffIsExponential
  <2> SUFFICES ASSUME Init
               PROVE  BackoffIsExponential
    BY TypeInit
  <2>1. PowerOfTwo[0] = 1
    BY PowerOfTwoDef
  <2>2. InitialBackoff * PowerOfTwo[fruitless] = InitialBackoff
    BY <2>1, NumberAssumption DEF Init
  <2> QED BY <2>2, NumberAssumption DEF Init, BackoffIsExponential
<1>2. (TypeOK /\ BackoffIsExponential) /\ [Next]_vars => (TypeOK /\ BackoffIsExponential)'
  BY TypeStep, BackoffStep
<1> QED BY <1>1, <1>2, PTL DEF Spec

-----------------------------------------------------------------------------
(* What a death costs: the events received and never published are counted  *)
(* by the deaths, because only the event in hand can join them.            *)

Lost == {k \in received : k # hand /\ Feed[k] \notin TopicIds}

Deaths == IF pc = "down" THEN runs ELSE runs - 1

\* LossPerDeath; the event the generator is asked to leave behind is published;
\* and a process that is up has been started.
DeathInv ==
  /\ Cardinality(Lost) <= Deaths
  /\ pc = "resume" => Feed[hand] \in TopicIds
  /\ pc # "down" => runs > 0

LEMMA LostFinite ==
  ASSUME TypeOK
  PROVE  IsFiniteSet(Lost) /\ Cardinality(Lost) \in Nat
<1>1. Len(Feed) \in Nat /\ IsFiniteSet(Position)
  BY FeedAssumption, FS_Interval DEF Position
<1>2. Lost \in SUBSET Position
  BY DEF Lost, TypeOK
<1> QED BY <1>1, <1>2, FS_Subset, FS_CardinalityType

\* When nothing joins the lost events their number does not grow.
LEMMA LostShrinks ==
  ASSUME TypeOK, Lost' \subseteq Lost
  PROVE  Cardinality(Lost') <= Cardinality(Lost)
  BY LostFinite, FS_Subset

\* A death leaves behind the event in hand, and no other.
LEMMA DieLosesHand ==
  ASSUME TypeOK, DeathInv, Die, pc # "down", topic \subseteq topic'
  PROVE  DeathInv'
<1>1. pc' = "down" /\ hand' = 0 /\ UNCHANGED <<received, runs>>
  BY DEF Die
<1>2. Lost' \subseteq Lost \cup {hand}
  BY <1>1 DEF Lost, TopicIds
<1>3. IsFiniteSet(Lost) /\ Cardinality(Lost) \in Nat
  BY LostFinite
<1>4. /\ IsFiniteSet(Lost \cup {hand})
      /\ Cardinality(Lost \cup {hand}) <= Cardinality(Lost) + 1
  BY <1>3, FS_AddElement
<1>5. Cardinality(Lost') \in Nat /\ Cardinality(Lost') <= Cardinality(Lost \cup {hand})
  BY <1>2, <1>4, FS_Subset, FS_CardinalityType
<1>6. Cardinality(Lost \cup {hand}) \in Nat /\ runs \in Nat
  BY <1>4, FS_CardinalityType DEF TypeOK
<1>7. Cardinality(Lost) <= runs - 1
  BY DEF DeathInv, Deaths
<1>8. Cardinality(Lost') <= runs
  BY <1>3, <1>4, <1>5, <1>6, <1>7
<1> QED BY <1>1, <1>8 DEF DeathInv, Deaths

\* While the process stays up, or down, it is enough that nothing is lost.
LEMMA StayLosesNothing ==
  ASSUME TypeOK, DeathInv, Lost' \subseteq Lost, Deaths' = Deaths,
         pc' = "resume" => Feed[hand'] \in TopicIds',
         pc' # "down" => runs' > 0
  PROVE  DeathInv'
<1>1. Cardinality(Lost') <= Cardinality(Lost)
  BY LostShrinks
<1>2. Cardinality(Lost') \in Nat
  BY LostFinite, FS_Subset, FS_CardinalityType
<1>3. Cardinality(Lost') <= Deaths'
  BY <1>1, <1>2, LostFinite DEF DeathInv, Deaths, TypeOK
<1> QED BY <1>3 DEF DeathInv

LEMMA DeathStep ==
  ASSUME TypeOK, SeenIsPublished, DeathInv, [Next]_vars
  PROVE  DeathInv'
<1> USE DEF feedVars, setupVars, history
<1>1. CASE ReadLine
  <2>1. hand = 0 /\ hand' \in {hand, next} /\ UNCHANGED <<topic, runs>>
    BY <1>1 DEF ReadLine, TypeOK
  <2>2. received' = received \/ (received' = received \cup {next} /\ hand' = next)
    BY <1>1 DEF ReadLine
  <2>3. Lost' \subseteq Lost
    BY <2>1, <2>2, FeedAssumption DEF Lost, TopicIds, TypeOK, Position
  <2>4. pc = "read" /\ pc' \in {"read", "dedup"}
    BY <1>1 DEF ReadLine
  <2> QED BY <2>1, <2>3, <2>4, StayLosesNothing DEF DeathInv, Deaths
<1>2. CASE Resume
  <2>1. Feed[hand] \in TopicIds /\ UNCHANGED <<received, topic, runs>>
    BY <1>2 DEF Resume, DeathInv
  <2>2. Lost' \subseteq Lost
    BY <2>1 DEF Lost, TopicIds
  <2> QED BY <1>2, <2>1, <2>2, StayLosesNothing DEF Resume, DeathInv, Deaths
<1>3. CASE Discard
  <2>1. Feed[hand] \in TopicIds /\ UNCHANGED <<received, hand, topic, runs>>
    BY <1>3 DEF Discard, HasSeen, SeenIsPublished
  <2>2. Lost' \subseteq Lost /\ TopicIds' = TopicIds
    BY <2>1 DEF Lost, TopicIds
  <2> QED BY <1>3, <2>1, <2>2, StayLosesNothing DEF Discard, DeathInv, Deaths
<1>4. CASE Publish
  <2>1. topic' = topic \cup {hand} /\ UNCHANGED <<received, hand, runs>>
    BY <1>4 DEF Publish
  <2>2. Lost' \subseteq Lost /\ Feed[hand'] \in TopicIds'
    BY <2>1 DEF Lost, TopicIds
  <2>3. pc = "publish" /\ pc' \in {"stopped", "resume"}
    BY <1>4 DEF Publish
  <2> QED BY <2>1, <2>2, <2>3, StayLosesNothing DEF DeathInv, Deaths
<1>5. CASE PublishFails \/ Killed
  BY <1>5, DieLosesHand DEF PublishFails, Killed
<1>6. CASE Start
  <2>1. pc = "down" /\ pc' = "createTopic" /\ runs' = runs + 1
    BY <1>6 DEF Start
  <2>2. Lost' \subseteq Lost
    BY <1>6 DEF Start, Lost, TopicIds
  <2>3. Deaths' = Deaths /\ runs' > 0
    BY <2>1 DEF Deaths, TypeOK
  <2> QED BY <2>1, <2>2, <2>3, StayLosesNothing
<1>7. CASE CreateTopic \/ CreateSubscription \/ Connect \/ Sleep \/ Accept
           \/ ConnectFails \/ ConnectionEnds
  <2>1. UNCHANGED <<received, hand, topic, runs>> /\ pc # "down"
    BY <1>7 DEF CreateTopic, CreateSubscription, Connect, Sleep, Accept, ConnectFails,
                ConnectionEnds, Drop
  <2>2. pc' \notin {"down", "resume"}
    BY <1>7 DEF CreateTopic, CreateSubscription, Connect, Sleep, Accept, ConnectFails,
                ConnectionEnds, Drop
  <2>3. Lost' \subseteq Lost
    BY <2>1 DEF Lost, TopicIds
  <2> QED BY <2>1, <2>2, <2>3, StayLosesNothing DEF DeathInv, Deaths
<1>8. CASE UNCHANGED <<received, hand, topic, pc, runs>>
  BY <1>8 DEF DeathInv, Deaths, Lost, TopicIds
<1>9. \/ ReadLine \/ Resume \/ Discard \/ Publish \/ PublishFails \/ Killed \/ Start
      \/ CreateTopic \/ CreateSubscription \/ Connect \/ Sleep \/ Accept
      \/ ConnectFails \/ ConnectionEnds
      \/ UNCHANGED <<received, hand, topic, pc, runs>>
  BY DEF Next, Step, Emit, ConsumerEnsuresTopic, vars, processVars
<1> QED BY <1>1, <1>2, <1>3, <1>4, <1>5, <1>6, <1>7, <1>8, <1>9

\* Of the events run() has received, those whose id never reached the topic are
\* no more than the process's deaths, whatever the feed repeats.
THEOREM OneLossPerDeath == Spec => []LossPerDeath
<1>1. Init => DeathInv
  BY FS_EmptySet DEF Init, DeathInv, Lost, Deaths
<1>2. Init => TypeOK /\ SeenIsPublished
  BY TypeInit DEF Init, SeenIsPublished, EmptyCache
<1>3. (TypeOK /\ SeenIsPublished /\ DeathInv) /\ [Next]_vars
        => (TypeOK /\ SeenIsPublished /\ DeathInv)'
  BY TypeStep, SeenStep, DeathStep
<1>4. DeathInv => LossPerDeath
  BY DEF DeathInv, LossPerDeath, Lost, Deaths
<1> QED BY <1>1, <1>2, <1>3, <1>4, PTL DEF Spec
=============================================================================
