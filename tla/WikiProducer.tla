----------------------------- MODULE WikiProducer -----------------------------
(***************************************************************************)
(* The producer process: run() of src/src/producer/main.py drives the       *)
(* generator WikiEventsHandler.events(), which reconnects to Wikipedia's   *)
(* SSE feed with exponential backoff, and publishes what its dedup cache   *)
(* has not seen.  The process may die at any step and is started again     *)
(* with an empty cache.                                                    *)
(*                                                                         *)
(* The feed and Pub/Sub are external: a new connection starts at the live  *)
(* edge or replays the last lines, a connection ends or fails at any time, *)
(* and a publish that raises may have reached the topic.  A message that   *)
(* is published while the topic has no subscription is kept for nobody.    *)
(***************************************************************************)
EXTENDS EventIdCache

CONSTANTS
  Feed,           \* the lines the feed sends, in order
  Blank,          \* a line without data
  Malformed,      \* a line parse_recentchange_event rejects
  InitialBackoff, \* INITIAL_BACKOFF_SECONDS
  MaxBackoff,     \* MAX_BACKOFF_SECONDS
  MaxEvents       \* run()'s max_events

CONSTANTS         \* what the environment does, and how often
  MaxReplay,      \* lines before the live edge a new connection may repeat
  MaxRuns,        \* starts of the process
  MaxDrops        \* connections that end or cannot be opened

ASSUME FeedAssumption ==
  /\ Feed \in Seq(EventId \cup {Blank, Malformed})
  /\ Blank \notin EventId /\ Malformed \notin EventId

ASSUME NumberAssumption ==
  /\ InitialBackoff \in Nat \ {0}
  /\ MaxBackoff \in Nat /\ InitialBackoff <= MaxBackoff
  /\ MaxEvents \in Nat \ {0}
  /\ {MaxReplay, MaxRuns, MaxDrops} \subseteq Nat

VARIABLES
  live,           \* feed: lines sent so far
  next,           \* feed: the line the open connection delivers next
  topicExists,
  subscriptionExists,
  pc,             \* where the process stands
  hand,           \* the feed position of the event in hand, 0 for none
  cache,          \* the EventIdLruCache
  backoff,        \* backoff_seconds
  published,      \* published_count
  topic,          \* positions of the events the topic has accepted
  accepted,       \* history: ids this run found new, in order
  received,       \* history: positions of the events handed to run()
  fruitless,      \* history: sleeps since the last event
  runs, drops     \* starts and drops so far

feedVars == <<live, next>>
setupVars == <<topicExists, subscriptionExists>>
processVars == <<pc, hand, cache, backoff, published>>
history == <<accepted, received, fruitless>>
vars == <<feedVars, setupVars, processVars, topic, history, runs, drops>>

Position == 1 .. Len(Feed)

IsEvent(line) == line \in EventId

TopicIds == {Feed[k] : k \in topic}

-----------------------------------------------------------------------------
Init ==
  /\ live = 0 /\ next = 1
  /\ topicExists = FALSE /\ subscriptionExists = FALSE
  /\ pc = "down" /\ hand = 0 /\ cache = EmptyCache
  /\ backoff = InitialBackoff /\ published = 0
  /\ topic = {}
  /\ accepted = <<>> /\ received = {} /\ fruitless = 0
  /\ runs = 0 /\ drops = 0

\* Somewhere on Wikipedia something changes.
Emit ==
  /\ live < Len(Feed)
  /\ live' = live + 1
  /\ UNCHANGED <<next, setupVars, processVars, topic, history, runs, drops>>

Start ==
  /\ pc = "down"
  /\ runs < MaxRuns
  /\ runs' = runs + 1
  /\ pc' = "createTopic"
  /\ UNCHANGED <<feedVars, setupVars, hand, cache, backoff, published, topic, history, drops>>

\* Mutant of CreateTopic: a topic that exists is taken to have its subscription.
CreateTopicOnly ==
  /\ pc = "createTopic"
  /\ topicExists' = TRUE
  /\ pc' = IF topicExists THEN "connect" ELSE "createSubscription"
  /\ UNCHANGED <<feedVars, subscriptionExists, hand, cache, backoff, published, topic,
                 history, runs, drops>>

\* ensure_topic, base.py lines 41-56: either call may find that the other
\* process was faster (AlreadyExists).
CreateTopic ==
  /\ pc = "createTopic"
  /\ topicExists' = TRUE
  /\ pc' = "createSubscription"
  /\ UNCHANGED <<feedVars, subscriptionExists, hand, cache, backoff, published, topic,
                 history, runs, drops>>

CreateSubscription ==
  /\ pc = "createSubscription"
  /\ subscriptionExists' = TRUE
  /\ pc' = "connect"
  /\ UNCHANGED <<feedVars, topicExists, hand, cache, backoff, published, topic, history,
                 runs, drops>>

\* The consumer's own ensure_topic, whenever it is started.
ConsumerEnsuresTopic ==
  /\ \/ ~topicExists /\ topicExists' = TRUE /\ UNCHANGED subscriptionExists
     \/ topicExists /\ ~subscriptionExists /\ subscriptionExists' = TRUE /\ UNCHANGED topicExists
  /\ UNCHANGED <<feedVars, processVars, topic, history, runs, drops>>

-----------------------------------------------------------------------------
(* WikiEventsHandler.                                                      *)

Drop ==
  /\ drops < MaxDrops
  /\ drops' = drops + 1
  /\ pc' = "sleep"
  /\ UNCHANGED <<feedVars, setupVars, hand, cache, backoff, published, topic, history, runs>>

\* _open_sse_stream asks for no particular event id.
Connect ==
  /\ pc = "connect"
  /\ \E replay \in 0 .. MaxReplay :
        /\ replay <= live
        /\ next' = live + 1 - replay
  /\ pc' = "read"
  /\ UNCHANGED <<live, setupVars, hand, cache, backoff, published, topic, history, runs, drops>>

\* The request fails, or an open connection breaks or ends.
ConnectFails == pc = "connect" /\ Drop
ConnectionEnds == pc = "read" /\ Drop

\* _consume_once: blank and malformed lines are skipped.
ReadLine ==
  /\ pc = "read"
  /\ next <= live
  /\ next' = next + 1
  /\ IF IsEvent(Feed[next])
     THEN /\ pc' = "dedup"
          /\ hand' = next
          /\ received' = received \cup {next}
     ELSE UNCHANGED <<pc, hand, received>>
  /\ UNCHANGED <<live, setupVars, cache, backoff, published, topic, accepted, fruitless,
                 runs, drops>>

\* Mutant of NextBackoff: the cap is forgotten.
NextBackoffUncapped(seconds) == 2 * seconds

NextBackoff(seconds) == IF 2 * seconds < MaxBackoff THEN 2 * seconds ELSE MaxBackoff

\* Mutant of Sleep: the generator ends with its connection.
SleepAndStop ==
  /\ pc = "sleep"
  /\ backoff' = NextBackoff(backoff)
  /\ fruitless' = fruitless + 1
  /\ pc' = "stopped"
  /\ UNCHANGED <<feedVars, setupVars, hand, cache, published, topic, accepted, received,
                 runs, drops>>

\* The exception and the regular end of a connection take the same way.
Sleep ==
  /\ pc = "sleep"
  /\ backoff' = NextBackoff(backoff)
  /\ fruitless' = fruitless + 1
  /\ pc' = "connect"
  /\ UNCHANGED <<feedVars, setupVars, hand, cache, published, topic, accepted, received,
                 runs, drops>>

\* Mutant of Resume: the backoff keeps what earlier drops made of it.
ResumeKeepsBackoff ==
  /\ pc = "resume"
  /\ fruitless' = 0
  /\ hand' = 0
  /\ pc' = "read"
  /\ UNCHANGED <<feedVars, setupVars, cache, backoff, published, topic, accepted, received,
                 runs, drops>>

\* run() asks for the next event: the generator goes on behind its yield.
Resume ==
  /\ pc = "resume"
  /\ backoff' = InitialBackoff
  /\ fruitless' = 0
  /\ hand' = 0
  /\ pc' = "read"
  /\ UNCHANGED <<feedVars, setupVars, cache, published, topic, accepted, received, runs, drops>>

-----------------------------------------------------------------------------
(* The loop body of run(), lines 36-55.                                    *)

Discard ==
  /\ pc = "dedup"
  /\ HasSeen(cache, Feed[hand])
  /\ pc' = "resume"
  /\ UNCHANGED <<feedVars, setupVars, hand, cache, backoff, published, topic, history,
                 runs, drops>>

\* The id enters the cache before the event is published.
Accept ==
  /\ pc = "dedup"
  /\ ~HasSeen(cache, Feed[hand])
  /\ cache' = CacheAdd(cache, Feed[hand])
  /\ accepted' = Append(accepted, Feed[hand])
  /\ pc' = "publish"
  /\ UNCHANGED <<feedVars, setupVars, hand, backoff, published, topic, received, fruitless,
                 runs, drops>>

Publish ==
  /\ pc = "publish"
  /\ topic' = topic \cup {hand}
  /\ published' = published + 1
  /\ pc' = IF published' >= MaxEvents THEN "stopped" ELSE "resume"
  /\ UNCHANGED <<feedVars, setupVars, hand, cache, backoff, history, runs, drops>>

\* The process is gone: an exception of the body or of Connect, Ctrl+C, a kill.
Die ==
  /\ pc' = "down" /\ hand' = 0 /\ cache' = EmptyCache
  /\ backoff' = InitialBackoff /\ published' = 0
  /\ accepted' = <<>> /\ fruitless' = 0
  /\ UNCHANGED <<feedVars, setupVars, received, runs, drops>>

\* Mutant of PublishFails: run() goes on to the next event.
PublishFailsIgnored ==
  /\ pc = "publish"
  /\ pc' = "resume"
  /\ UNCHANGED <<feedVars, setupVars, hand, cache, backoff, published, topic, history,
                 runs, drops>>

\* future.result() raises, whether or not the message reached the topic.
PublishFails ==
  /\ pc = "publish"
  /\ topic' \in {topic, topic \cup {hand}}
  /\ Die

Killed ==
  /\ pc \notin {"down", "stopped"}
  /\ UNCHANGED topic
  /\ Die

-----------------------------------------------------------------------------
Step ==
  \/ CreateTopic \/ CreateSubscription
  \/ Connect \/ ReadLine \/ Sleep \/ Resume
  \/ Discard \/ Accept \/ Publish

Next ==
  \/ Step
  \/ Emit \/ Start \/ ConsumerEnsuresTopic
  \/ ConnectFails \/ ConnectionEnds
  \/ PublishFails \/ Killed

Spec == Init /\ [][Next]_vars

\* The process takes the steps it can take.
FairSpec == Spec /\ WF_vars(Step)

-----------------------------------------------------------------------------
Label == {"down", "createTopic", "createSubscription", "connect", "read", "sleep",
          "dedup", "publish", "resume", "stopped"}

\* Every variable has its type, the cache stays within maxsize, and an event is
\* in hand exactly between the generator's yield and its resumption.
TypeOK ==
  /\ live \in 0 .. Len(Feed)
  /\ next \in 1 .. live + 1
  /\ topicExists \in BOOLEAN /\ subscriptionExists \in BOOLEAN
  /\ pc \in Label
  /\ hand \in 0 .. Len(Feed)
  /\ pc \in {"dedup", "publish", "resume"} => hand \in Position /\ IsEvent(Feed[hand])
  /\ pc \in {"down", "createTopic", "createSubscription", "connect", "read", "sleep"}
        => hand = 0
  /\ cache \in Cache
  /\ backoff \in InitialBackoff .. MaxBackoff
  /\ published \in Nat
  /\ topic \subseteq Position
  /\ accepted \in Seq(EventId)
  /\ received \subseteq Position
  /\ fruitless \in Nat
  /\ runs \in Nat /\ drops \in Nat

\* The deque and the set agree, and they hold the last maxsize ids this run
\* found new: eviction never forgets a younger id before an older one.
CacheIsWindow == IsWindowOf(cache, accepted)

\* Within one run an id is accepted again only after maxsize other ids: a
\* reconnection that repeats fewer events than that publishes none of them twice
\* (docs/SPEC-phase1-ingestion.md line 98).
NoRepeatWithinWindow == Spaced(accepted)

\* What the cache has seen is on the topic, except for the event in hand:
\* although the id is added before the publish, an event that could not be
\* published is never discarded as a duplicate afterwards.
SeenIsPublished ==
  \A id \in cache.seen : id \in TopicIds \/ (pc = "publish" /\ id = Feed[hand])

\* Each death of the process costs at most one of the events it had received.
LossPerDeath ==
  LET lost == {k \in received : k # hand /\ Feed[k] \notin TopicIds}
      deaths == IF pc = "down" THEN runs ELSE runs - 1
  IN  Cardinality(lost) <= deaths

\* Nothing is published before the subscription exists that keeps it.
PublishedIsRetained == (topic # {} \/ pc = "publish") => (topicExists /\ subscriptionExists)

\* TLAPS does not know what ^ computes.
PowerOfTwo[n \in Nat] == IF n = 0 THEN 1 ELSE 2 * PowerOfTwo[n - 1]

\* The wait before the next connection doubles with every connection that
\* brought no event, up to the maximum, and starts again after an event.
BackoffIsExponential ==
  LET doubled == InitialBackoff * PowerOfTwo[fruitless]
  IN  backoff = IF doubled < MaxBackoff THEN doubled ELSE MaxBackoff

\* However a connection ends, the producer is connected again in the end.
Reconnects == (pc = "sleep") ~> (pc \in {"read", "down"})
=============================================================================
