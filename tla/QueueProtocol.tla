---------------------------- MODULE QueueProtocol ----------------------------
(***************************************************************************)
(* The event queue together with the way the harness calls it: a batch that *)
(* flush_next returns is a turn, and every turn ends in exactly one of the  *)
(* call sequences of lib.rs (give the batch back, if at all, and then       *)
(* mark_complete).  Nothing is assumed about how long a turn takes, so a    *)
(* turn may also end after its in-flight deadline has expired.              *)
(***************************************************************************)
EXTENDS EventQueue

CONSTANTS
  MaxEvents,    \* bound: events that ever arrive
  CreatedAt     \* created_at of the n-th event (seconds, set by its author)

ASSUME ProtocolConstants == MaxEvents \in Nat /\ CreatedAt \in [1..MaxEvents -> Nat]

VARIABLES
  q,            \* the queue
  arrived,      \* events received so far; the ids in use are 1..arrived
  turns,        \* batches handed out and not yet given back
  settled,      \* ids that left for a reason the code names
  interrupted   \* ids that were part of a cancelled turn

vars == <<q, arrived, turns, settled, interrupted>>

TypeOK ==
  /\ q \in QueueType
  /\ arrived \in Nat
  /\ turns \in SUBSET FlushBatch
  /\ settled \in SUBSET Nat
  /\ interrupted \in SUBSET Nat

BatchIds(b) == Ids(b.events) \cup Ids(b.cancelled_events)

Init ==
  /\ q = EmptyQueue
  /\ arrived = 0
  /\ turns = {}
  /\ settled = {}
  /\ interrupted = {}

-----------------------------------------------------------------------------

\* A relay event for channel c is pushed.
Push(c) ==
  LET n == arrived + 1
      e == [id |-> n, channel_id |-> c, created_at |-> CreatedAt[n]]
  IN
  /\ arrived < MaxEvents
  /\ arrived' = arrived + 1
  /\ q' = push(q, e)
  /\ settled' = settled \cup Dropped(q, e)
  /\ UNCHANGED <<turns, interrupted>>

\* flush_next starts a turn.
Flush ==
  \E c \in FlushChannels(expire(q)) :
    /\ q' = flush_next(expire(q), c)
    /\ turns' = turns \cup {FlushedBatch(expire(q), c)}
    /\ settled' = settled \cup ExpiryTrimmed(q)
    /\ UNCHANGED <<arrived, interrupted>>

\* has_flushable_work, or a flush_next that finds nothing: only the expiry.
Expire ==
  /\ Expired(q) # {}
  /\ q' = expire(q)
  /\ settled' = settled \cup ExpiryTrimmed(q)
  /\ UNCHANGED <<arrived, turns, interrupted>>

\* The turn succeeded, or its batch is not to be retried.
Finish(b) ==
  /\ q' = mark_complete(q, b.channel_id)
  /\ turns' = turns \ {b}
  /\ settled' = settled \cup BatchIds(b)
  /\ UNCHANGED <<arrived, interrupted>>

\* Faulty variant: mark_complete first, so that the counter is reset before the
\* attempt is counted.
Retry_completed_first(b) ==
  LET p == mark_complete(q, b.channel_id) IN
  /\ ~Exhausted(p, b)
  /\ \E d \in BackoffDelays(p.retry_counts[b.channel_id] + 1) :
       q' = requeue(p, b, d)
  /\ settled' = settled \cup Trimmed(b.events \o q.queues[b.channel_id])
  /\ turns' = turns \ {b}
  /\ UNCHANGED <<arrived, interrupted>>

\* The turn failed: requeue, then mark_complete.
Retry(b) ==
  /\ ~Exhausted(q, b)
  /\ \E d \in BackoffDelays(q.retry_counts[b.channel_id] + 1) :
       q' = mark_complete(requeue(q, b, d), b.channel_id)
  /\ settled' = settled \cup Trimmed(b.events \o q.queues[b.channel_id])
  /\ turns' = turns \ {b}
  /\ UNCHANGED <<arrived, interrupted>>

\* The turn failed once too often: the batch is dead-lettered with a notice.
DeadLetter(b) ==
  /\ Exhausted(q, b)
  /\ q' = mark_complete(requeue(q, b, None), b.channel_id)
  /\ turns' = turns \ {b}
  /\ settled' = settled \cup BatchIds(b)
  /\ UNCHANGED <<arrived, interrupted>>

\* No agent was free: requeue_preserve_timestamps, then mark_complete.
Bounce(b) ==
  /\ q' = mark_complete(requeue_preserve_timestamps(q, b), b.channel_id)
  /\ turns' = turns \ {b}
  /\ settled' = settled \cup Trimmed(b.events \o q.queues[b.channel_id])
  /\ UNCHANGED <<arrived, interrupted>>

\* The turn was cancelled for a new event: requeue_as_cancelled, mark_complete.
Cancel(b, reason) ==
  /\ q' = mark_complete(requeue_as_cancelled(q, b, reason), b.channel_id)
  /\ turns' = turns \ {b}
  /\ interrupted' = interrupted \cup BatchIds(b)
  /\ UNCHANGED <<arrived, settled>>

EndTurn(b) ==
  \/ Finish(b)
  \/ Retry(b)
  \/ DeadLetter(b)
  \/ Bounce(b)
  \/ \E reason \in CancelReason : Cancel(b, reason)

\* A queued event is offered to the channel's running turn.
Withhold(c) ==
  /\ c \in q.in_flight_channels
  /\ \E id \in Ids(q.queues[c]) : q' = mark_native_steer_pending(q, c, id)
  /\ UNCHANGED <<arrived, turns, settled, interrupted>>

\* The running turn did not take it.
Release(c) ==
  /\ \E id \in Ids(q.withheld_native_steer[c]) :
       q' = release_native_steer(q, c, id)
  /\ settled' = settled \cup FrontTrimmed(q, c)
  /\ UNCHANGED <<arrived, turns, interrupted>>

\* The running turn took it: its deadline is extended and the event dropped.
Steered(c) ==
  /\ \E id \in Ids(q.withheld_native_steer[c]) :
       /\ q' = remove_event(extend_in_flight_deadline(q, c), c, id)
       /\ settled' = settled \cup {id}
  /\ UNCHANGED <<arrived, turns, interrupted>>

\* The agent was removed from the channel.
Drain(c) ==
  /\ q' = drain_channel(q, c)
  /\ settled' = settled \cup Ids(q.queues[c]) \cup Ids(q.cancelled_batches[c])
                        \cup Ids(q.withheld_native_steer[c])
  /\ UNCHANGED <<arrived, turns, interrupted>>

Compact ==
  /\ q' = compact_expired_state(q)
  /\ UNCHANGED <<arrived, turns, settled, interrupted>>

Tick ==
  /\ q' = elapse(q)
  /\ UNCHANGED <<arrived, turns, settled, interrupted>>

Next ==
  \/ \E c \in Channel : Push(c)
  \/ Flush
  \/ Expire
  \/ \E b \in turns : EndTurn(b)
  \/ \E c \in Channel : Withhold(c) \/ Release(c) \/ Steered(c) \/ Drain(c)
  \/ Compact
  \/ Tick

Spec == Init /\ [][Next]_vars

-----------------------------------------------------------------------------
(* Properties *)

\* The length cap holds on every path: push trims at the front, requeue,
\* requeue_preserve_timestamps, release and expiry at the back.
WithinCap == \A c \in Channel : Len(q.queues[c]) <= MaxPending

\* A channel is in flight exactly while it has a deadline: no channel can be
\* blocked for good (drain_channel keeps both for this reason), and no deadline
\* is left to release a channel that has no turn.
InFlightHasDeadline ==
  \A c \in Channel : c \in q.in_flight_channels <=> q.in_flight_deadlines[c] # None

\* A channel has a cancel reason exactly while it has a cancelled batch, so a
\* merged prompt is framed by the reason of the turn it interrupts.
ReasonForCancelled ==
  \A c \in Channel : q.cancelled_batches[c] # <<>> <=> q.cancel_reasons[c] # None

RetryLimit ==
  \A c \in Channel :
    /\ q.retry_counts[c] <= MaxRetries
    /\ q.retry_after[c] # None => q.retry_counts[c] > 0

RetryStep ==
  \A c \in Channel :
    /\ \A b \in turns :
         b.channel_id = c /\ Retry(b) =>
           /\ q'.retry_counts[c] = q.retry_counts[c] + 1
           /\ Throttled(q', c)
    /\ Throttled(q, c) /\ q'.retry_counts[c] < q.retry_counts[c] =>
         \/ Drain(c)
         \/ \E b \in turns : b.channel_id = c /\ DeadLetter(b)

\* Failures add up to the limit and no further.  The retry counter stays within
\* MAX_RETRIES and a throttled channel has attempts on record; a failed turn that
\* is retried leaves one attempt more and a throttle that still runs when its
\* mark_complete looks at it (which would otherwise take the failure for a
\* success); and while the channel is throttled no other turn that ends, however
\* late, and no compaction forgets the attempts: only a drain or a dead letter does.
RetryAccounting == [][RetryStep /\ RetryLimit']_vars

-----------------------------------------------------------------------------
(* Where the events are *)

\* Every position that holds an event: a queue, the withheld and the cancelled
\* events of a channel, and the batches of the running turns.
Positions ==
  UNION {     {<<"queued", c, i>> : i \in 1..Len(q.queues[c])}
         \cup {<<"withheld", c, i>> : i \in 1..Len(q.withheld_native_steer[c])}
         \cup {<<"cancelled", c, i>> : i \in 1..Len(q.cancelled_batches[c])}
         : c \in Channel}

IdAt(p) ==
  CASE p[1] = "queued"    -> q.queues[p[2]][p[3]].id
    [] p[1] = "withheld"  -> q.withheld_native_steer[p[2]][p[3]].id
    [] p[1] = "cancelled" -> q.cancelled_batches[p[2]][p[3]].id

HeldIds ==
  UNION {Ids(q.queues[c]) \cup Ids(q.withheld_native_steer[c])
                          \cup Ids(q.cancelled_batches[c]) : c \in Channel}

TurnIds == UNION {BatchIds(b) : b \in turns}

\* No event is in two places: the queue, the side tables and the turns never
\* share an event, so none is delivered by two turns at once.
OnePlace ==
  /\ \A p1, p2 \in Positions : IdAt(p1) = IdAt(p2) => p1 = p2
  /\ HeldIds \cap TurnIds = {}
  /\ \A b1, b2 \in turns : b1 # b2 => BatchIds(b1) \cap BatchIds(b2) = {}
  /\ \A b \in turns :
       LET s == b.cancelled_events \o b.events
       IN  Cardinality(Ids(s)) = Len(s)

\* Nothing comes back: a settled event is in no queue, side table or turn.
SettledIsGone == settled \cap (HeldIds \cup TurnIds) = {}

Lost == (1..arrived) \ (HeldIds \cup TurnIds \cup settled)

\* An event that disappears without a named reason had been given to an agent
\* before, in a turn that was cancelled.
OnlyInterruptedLost == Lost \subseteq interrupted

-----------------------------------------------------------------------------
(* The promise of module EventDelivery *)

Delivery ==
  INSTANCE EventDelivery WITH waiting <- HeldIds,
                              turns <- {BatchIds(b) : b \in turns}

\* The queue and its callers implement EventDelivery: through every flush,
\* requeue, cancel, steer, expiry and drain a step either takes waiting events
\* into one new turn, or ends one turn and gives back what is not settled.
Implements == Delivery!Spec

\* When a requeued batch does not fit, requeue is to "trim oldest (back) events"
\* (queue.rs 491): every event that the cap pushes out is older than every event
\* that stays.
TrimsOldest ==
  [][\A b \in turns : Retry(b) =>
       \A i \in settled' \ settled, j \in Ids(q'.queues[b.channel_id]) : i < j]_vars
=============================================================================
