-------------------------- MODULE QueueProtocolProofs --------------------------
(***************************************************************************)
(* The invariants of module QueueProtocol, for every set of channels, every *)
(* number of events and every value of the limits.                          *)
(***************************************************************************)
EXTENDS QueueProtocol, EventQueueProofs

\* The queue's tables agree, and every batch that was handed out has events: a
\* cancelled batch that were empty would leave a reason behind.
IInv ==
  /\ QueueOK(q)
  /\ TypeOK
  /\ \A b \in turns : b.events # <<>>

\* The invariant parts that the runs check follow from IInv.
LEMMA IInvImplies ==
  IInv => /\ TypeOK
          /\ WithinCap
          /\ InFlightHasDeadline
          /\ ReasonForCancelled
          /\ RetryLimit
BY DEF IInv, QueueOK, WithinCap, InFlightHasDeadline, ReasonForCancelled,
       RetryLimit

\* The new queue of a starting harness, with no turn running, satisfies IInv.
LEMMA InitInv == Init => IInv
BY EmptyQueueOK DEF Init, IInv, TypeOK, QueueOK

\* Ids of events are natural numbers, so what settles is a set of them.
LEMMA IdsNat ==
  ASSUME NEW s \in Seq(Event)
  PROVE  Ids(s) \subseteq Nat
<1>1. \A i \in 1..Len(s) : s[i] \in Event
  OBVIOUS
<1> QED
  BY <1>1 DEF Ids, Event

\* What the cap cuts off a queue is a set of event ids.
LEMMA TrimmedNat ==
  ASSUME NEW s \in Seq(Event), NEW t \in Seq(Event)
  PROVE  Trimmed(s \o t) \subseteq Nat
<1>1. s \o t \in Seq(Event)
  BY ConcatProperties
<1>2. SubSeq(s \o t, MaxPending + 1, Len(s \o t)) \in Seq(Event)
  BY <1>1, QueueConstants
<1> QED
  BY <1>2, IdsNat DEF Trimmed

\* The ids of a batch, merged events included, are event ids.
LEMMA BatchIdsNat ==
  ASSUME NEW b \in FlushBatch
  PROVE  BatchIds(b) \subseteq Nat
BY IdsNat DEF BatchIds, FlushBatch

\* What an expiry pushes out of the queues is a set of event ids.
LEMMA ExpiryTrimmedNat ==
  ASSUME QueueOK(q)
  PROVE  ExpiryTrimmed(q) \subseteq Nat
<1>1. \A c \in Channel : /\ q.withheld_native_steer[c] \in Seq(Event)
                         /\ q.queues[c] \in Seq(Event)
  BY DEF QueueOK, QueueType
<1>2. \A c \in Channel : Trimmed(q.withheld_native_steer[c] \o q.queues[c]) \subseteq Nat
  BY <1>1, TrimmedNat
<1> QED
  BY <1>2 DEF ExpiryTrimmed, Expired

-----------------------------------------------------------------------------

\* Every step keeps IInv.
LEMMA NextInv == IInv /\ [Next]_vars => IInv'
<1> SUFFICES ASSUME IInv, [Next]_vars PROVE IInv'
  OBVIOUS
<1> USE DEF IInv
<1>0. /\ QueueOK(q) /\ arrived \in Nat /\ turns \in SUBSET FlushBatch
      /\ settled \in SUBSET Nat /\ interrupted \in SUBSET Nat
  BY DEF TypeOK
<1>q. \A c \in Channel : /\ q.queues[c] \in Seq(Event)
                         /\ q.withheld_native_steer[c] \in Seq(Event)
                         /\ q.cancelled_batches[c] \in Seq(Event)
  BY <1>0 DEF QueueOK, QueueType
<1>1. ASSUME NEW c \in Channel, Push(c) PROVE IInv'
  <2> DEFINE t == CreatedAt[arrived + 1]
             e == [id |-> arrived + 1, channel_id |-> c, created_at |-> t]
  <2>0. t \in Nat
    <3>1. arrived + 1 \in 1..MaxEvents
      BY <1>0, <1>1, ProtocolConstants DEF Push
    <3> QED
      BY <3>1, ProtocolConstants
  <2> HIDE DEF t
  <2>1. e \in Event
    BY <1>0, <2>0 DEF Event
  <2> USE DEF t
  <2>2. QueueOK(q')
    BY <1>0, <1>1, <2>1, PushOK DEF Push
  <2>3. Dropped(q, e) \subseteq Nat
    <3>1. q.queues[c] \in Seq(Event) /\ e.channel_id = c /\ e.id \in Nat
      BY <1>q, <1>0
    <3>2. Len(q.queues[c]) >= MaxPending => Head(q.queues[c]) \in Event
      BY <3>1, QueueConstants
    <3>3. Len(q.queues[c]) >= MaxPending => Head(q.queues[c]).id \in Nat
      BY <3>2 DEF Event
    <3> HIDE DEF e
    <3> QED
      BY <3>1, <3>3 DEF Dropped
  <2>4. arrived' \in Nat /\ settled' \in SUBSET Nat
    <3>1. arrived' = arrived + 1 /\ settled' = settled \cup Dropped(q, e)
      BY <1>1, Zenon DEF Push
    <3> HIDE DEF e
    <3>2. arrived' \in Nat
      BY <1>0, <3>1
    <3>3. settled' \in SUBSET Nat
      BY <1>0, <2>3, <3>1, Zenon
    <3> QED
      BY <3>2, <3>3
  <2>5. UNCHANGED <<turns, interrupted>>
    BY <1>1 DEF Push
  <2> QED
    BY <1>0, <2>2, <2>4, <2>5 DEF TypeOK, QueueOK
<1>2. CASE Flush
  <2> PICK c \in FlushChannels(expire(q)) :
         /\ q' = flush_next(expire(q), c)
         /\ turns' = turns \cup {FlushedBatch(expire(q), c)}
         /\ settled' = settled \cup ExpiryTrimmed(q)
         /\ UNCHANGED <<arrived, interrupted>>
    BY <1>2 DEF Flush
  <2>1. QueueOK(expire(q))
    BY <1>0, ExpireOK
  <2>2. /\ c \in Channel
        /\ FlushedBatch(expire(q), c) \in FlushBatch
        /\ FlushedBatch(expire(q), c).events # <<>>
    BY <2>1, FlushedBatchType
  <2>3. QueueOK(q')
    BY <2>1, <2>2, FlushOK
  <2>4. ExpiryTrimmed(q) \subseteq Nat
    BY <1>0, ExpiryTrimmedNat
  <2> QED
    BY <1>0, <2>2, <2>3, <2>4 DEF TypeOK, QueueOK
<1>3. CASE Expire
  BY <1>0, <1>3, ExpireOK, ExpiryTrimmedNat DEF Expire, TypeOK, QueueOK
<1>4. ASSUME NEW b \in turns, EndTurn(b) PROVE IInv'
  <2>1. /\ b \in FlushBatch /\ b.channel_id \in Channel /\ b.events # <<>>
        /\ b.events \in Seq(Event)
    BY <1>0 DEF FlushBatch
  <2>2. BatchIds(b) \subseteq Nat
    BY <2>1, BatchIdsNat
  <2>3. Trimmed(b.events \o q.queues[b.channel_id]) \subseteq Nat
    BY <2>1, <1>q, TrimmedNat
  <2>4. CASE Finish(b)
    BY <1>0, <2>1, <2>2, <2>4, MarkCompleteOK DEF Finish, TypeOK, QueueOK
  <2>5. CASE Retry(b)
    <3> PICK d \in BackoffDelays(q.retry_counts[b.channel_id] + 1) :
           q' = mark_complete(requeue(q, b, d), b.channel_id)
      BY <2>5 DEF Retry
    <3>1. q.retry_counts[b.channel_id] + 1 \in Nat \ {0}
      BY <1>0, <2>1 DEF QueueOK, QueueType
    <3>2. d \in Nat \ {0}
      BY <3>1, BackoffPositive
    <3>3. QueueOK(q')
      BY <1>0, <2>1, <3>2, RequeueOK, MarkCompleteOK
    <3> QED
      BY <1>0, <2>3, <2>5, <3>3 DEF Retry, TypeOK, QueueOK
  <2>6. CASE DeadLetter(b)
    <3>1. QueueOK(q')
      BY <1>0, <2>1, <2>6, RequeueOK, MarkCompleteOK DEF DeadLetter
    <3> QED
      BY <1>0, <2>2, <2>6, <3>1 DEF DeadLetter, TypeOK, QueueOK
  <2>7. CASE Bounce(b)
    <3>1. QueueOK(q')
      BY <1>0, <2>1, <2>7, PushFrontOK, MarkCompleteOK
      DEF Bounce, requeue_preserve_timestamps
    <3> QED
      BY <1>0, <2>3, <2>7, <3>1 DEF Bounce, TypeOK, QueueOK
  <2>8. ASSUME NEW reason \in CancelReason, Cancel(b, reason) PROVE IInv'
    <3>1. QueueOK(q')
      BY <1>0, <2>1, <2>8, RequeueAsCancelledOK, MarkCompleteOK DEF Cancel
    <3> QED
      BY <1>0, <2>2, <2>8, <3>1 DEF Cancel, TypeOK, QueueOK
  <2> QED
    BY <1>4, <2>4, <2>5, <2>6, <2>7, <2>8 DEF EndTurn
<1>5. ASSUME NEW c \in Channel, Withhold(c) PROVE IInv'
  BY <1>0, <1>5, MarkNativeSteerPendingOK DEF Withhold, TypeOK, QueueOK
<1>6. ASSUME NEW c \in Channel, Release(c) PROVE IInv'
  <2>1. QueueOK(q')
    BY <1>0, <1>6, ReleaseNativeSteerOK DEF Release
  <2>2. FrontTrimmed(q, c) \subseteq Nat
    <3>1. Len(q.queues[c]) >= MaxPending => q.queues[c][Len(q.queues[c])] \in Event
      BY <1>q, QueueConstants
    <3> QED
      BY <3>1 DEF FrontTrimmed, Event
  <2> QED
    BY <1>0, <1>6, <2>1, <2>2 DEF Release, TypeOK, QueueOK
<1>7. ASSUME NEW c \in Channel, Steered(c) PROVE IInv'
  <2> PICK id \in Ids(q.withheld_native_steer[c]) :
         /\ q' = remove_event(extend_in_flight_deadline(q, c), c, id)
         /\ settled' = settled \cup {id}
    BY <1>7 DEF Steered
  <2>1. QueueOK(q')
    BY <1>0, ExtendOK, RemoveEventOK
  <2>2. id \in Nat
    BY <1>q, IdsNat
  <2> QED
    BY <1>0, <1>7, <2>1, <2>2 DEF Steered, TypeOK, QueueOK
<1>8. ASSUME NEW c \in Channel, Drain(c) PROVE IInv'
  <2>1. QueueOK(q')
    BY <1>0, <1>8, DrainOK DEF Drain
  <2>2. Ids(q.queues[c]) \cup Ids(q.cancelled_batches[c])
          \cup Ids(q.withheld_native_steer[c]) \subseteq Nat
    BY <1>q, IdsNat
  <2> QED
    BY <1>0, <1>8, <2>1, <2>2 DEF Drain, TypeOK, QueueOK
<1>9. CASE Compact
  BY <1>0, <1>9, CompactOK DEF Compact, TypeOK, QueueOK
<1>10. CASE Tick
  BY <1>0, <1>10, ElapseOK DEF Tick, TypeOK, QueueOK
<1>11. CASE UNCHANGED vars
  BY <1>11 DEF vars, TypeOK, QueueOK
<1> QED
  BY <1>1, <1>2, <1>3, <1>4, <1>5, <1>6, <1>7, <1>8, <1>9, <1>10, <1>11 DEF Next

\* The state of the queue and of its callers keeps its type, whatever turns end
\* in whichever way and order.
THEOREM TypeCorrect == Spec => []TypeOK
<1>1. IInv => TypeOK
  BY IInvImplies
<1> QED
  BY <1>1, InitInv, NextInv, PTL DEF Spec

\* On every path back into a queue (requeue, release, expiry) and on push the
\* cap of MAX_PENDING_PER_CHANNEL holds.
THEOREM CapHolds == Spec => []WithinCap
<1>1. IInv => WithinCap
  BY IInvImplies
<1> QED
  BY <1>1, InitInv, NextInv, PTL DEF Spec

\* A channel is in flight exactly while it has a deadline, so that expiry can
\* always release it, also after its channel was drained under a turn.
THEOREM NoChannelStuck == Spec => []InFlightHasDeadline
<1>1. IInv => InFlightHasDeadline
  BY IInvImplies
<1> QED
  BY <1>1, InitInv, NextInv, PTL DEF Spec

\* The two tables of a cancelled turn, its events and its reason, are filled and
\* emptied together.
THEOREM ReasonKept == Spec => []ReasonForCancelled
<1>1. IInv => ReasonForCancelled
  BY IInvImplies
<1> QED
  BY <1>1, InitInv, NextInv, PTL DEF Spec

\* mark_complete keeps the attempts of every other channel, and of a throttled one.
LEMMA MarkCompleteCounts ==
  ASSUME NEW p, p \in QueueType, NEW d \in Channel, NEW c \in Channel,
         d # c \/ Throttled(p, c)
  PROVE  /\ mark_complete(p, d).retry_counts[c] = p.retry_counts[c]
         /\ Throttled(p, c) => Throttled(mark_complete(p, d), c)
BY DEF mark_complete, QueueType, Throttled

\* Putting events back at the front of a queue touches neither attempts nor throttles.
LEMMA PushFrontCounts ==
  ASSUME NEW p, p \in QueueType, NEW d \in Channel, NEW s \in Seq(Event)
  PROVE  /\ push_front(p, d, s).retry_counts = p.retry_counts
         /\ push_front(p, d, s).retry_after = p.retry_after
BY DEF push_front, QueueType

\* What a requeue that is not the last one leaves, before its mark_complete.
LEMMA RequeueCounts ==
  ASSUME NEW p, QueueOK(p), NEW b \in FlushBatch, NEW d \in Nat \ {0},
         ~Exhausted(p, b)
  PROVE  LET r == requeue(p, b, d) IN
         /\ r.retry_counts = [p.retry_counts EXCEPT ![b.channel_id] = @ + 1]
         /\ r.retry_after = [p.retry_after EXCEPT ![b.channel_id] = d]
<1> DEFINE c == b.channel_id
           f == push_front(p, c, b.events)
<1>1. /\ c \in Channel /\ b.events \in Seq(Event)
      /\ p \in QueueType
  BY DEF FlushBatch, QueueOK
<1>2. f \in QueueType /\ f.retry_counts = p.retry_counts /\ f.retry_after = p.retry_after
  BY <1>1, PushFrontCounts, PushFrontOK DEF QueueOK
<1>3. requeue(p, b, d) = [f EXCEPT !.retry_counts[c] = @ + 1, !.retry_after[c] = d]
  BY DEF requeue
<1> HIDE DEF f
<1> QED
  BY <1>2, <1>3 DEF QueueType

\* No step but a drain or a dead letter takes attempts from a throttled channel,
\* and a retry adds exactly one.
LEMMA AttemptsStep == IInv /\ [Next]_vars => [RetryStep]_vars
<1> SUFFICES ASSUME IInv, Next, NEW c \in Channel
             PROVE  /\ \A b \in turns :
                         b.channel_id = c /\ Retry(b) =>
                           /\ q'.retry_counts[c] = q.retry_counts[c] + 1
                           /\ Throttled(q', c)
                    /\ Throttled(q, c) /\ q'.retry_counts[c] < q.retry_counts[c] =>
                         \/ Drain(c)
                         \/ \E b \in turns : b.channel_id = c /\ DeadLetter(b)
  BY DEF RetryStep
<1>0. /\ QueueOK(q) /\ q \in QueueType /\ turns \in SUBSET FlushBatch
      /\ q.retry_counts[c] \in Nat /\ ~(q.retry_counts[c] < q.retry_counts[c])
  BY DEF IInv, TypeOK, QueueOK, QueueType
<1>1. ASSUME NEW b \in turns, Retry(b)
      PROVE  /\ b.channel_id # c => q'.retry_counts[c] = q.retry_counts[c]
             /\ b.channel_id = c => /\ q'.retry_counts[c] = q.retry_counts[c] + 1
                                    /\ Throttled(q', c)
  <2>0. b \in FlushBatch /\ b.channel_id \in Channel
    BY <1>0 DEF FlushBatch
  <2> DEFINE e == b.channel_id
  <2> PICK d \in BackoffDelays(q.retry_counts[e] + 1) :
         q' = mark_complete(requeue(q, b, d), e)
    BY <1>1 DEF Retry
  <2>1. q.retry_counts[e] + 1 \in Nat \ {0}
    BY <1>0, <2>0 DEF QueueType
  <2>2. d \in Nat \ {0}
    BY <2>1, BackoffPositive
  <2> DEFINE r == requeue(q, b, d)
  <2>3. ~Exhausted(q, b)
    BY <1>1 DEF Retry
  <2>4. /\ r.retry_counts = [q.retry_counts EXCEPT ![e] = @ + 1]
        /\ r.retry_after = [q.retry_after EXCEPT ![e] = d]
    BY <1>0, <2>0, <2>2, <2>3, RequeueCounts
  <2>5. r \in QueueType
    BY <1>0, <2>0, <2>2, RequeueOK DEF QueueOK
  <2> HIDE DEF r
  <2>6. Throttled(r, e)
    BY <1>0, <2>0, <2>2, <2>4, QueueConstants DEF Throttled, QueueType
  <2>7. e # c \/ Throttled(r, c)
    BY <2>6
  <2>8. /\ q'.retry_counts[c] = r.retry_counts[c]
        /\ Throttled(r, c) => Throttled(q', c)
    BY <2>0, <2>5, <2>7, MarkCompleteCounts DEF r
  <2> QED
    BY <1>0, <2>0, <2>4, <2>6, <2>8 DEF QueueType
<1>2. SUFFICES ASSUME Throttled(q, c), q'.retry_counts[c] < q.retry_counts[c],
                      ~Drain(c), ~\E b \in turns : b.channel_id = c /\ DeadLetter(b)
               PROVE  FALSE
  BY <1>1
<1>3. ASSUME NEW d \in Channel, Push(d) PROVE FALSE
  BY <1>0, <1>2, <1>3 DEF Push, push, QueueType
<1>4. ASSUME Flush PROVE FALSE
  <2> PICK d \in FlushChannels(expire(q)) : q' = flush_next(expire(q), d)
    BY <1>4 DEF Flush
  <2>1. expire(q).retry_counts = q.retry_counts
    BY <1>0 DEF expire, QueueType
  <2>2. expire(q) \in QueueType
    BY <1>0, ExpireOK DEF QueueOK
  <2>3. flush_next(expire(q), d).retry_counts = expire(q).retry_counts
    BY <2>2 DEF flush_next, QueueType
  <2> QED
    BY <1>0, <1>2, <2>1, <2>3
<1>5. ASSUME Expire PROVE FALSE
  BY <1>0, <1>2, <1>5 DEF Expire, expire, QueueType
<1>6. ASSUME NEW b \in turns, EndTurn(b) PROVE FALSE
  <2>0. /\ b \in FlushBatch /\ b.channel_id \in Channel /\ b.events \in Seq(Event)
    BY <1>0 DEF FlushBatch
  <2>1. ASSUME NEW p, p \in QueueType, p.retry_counts = q.retry_counts,
               p.retry_after = q.retry_after, q' = mark_complete(p, b.channel_id)
        PROVE  FALSE
    <3>1. Throttled(p, c)
      BY <1>2, <2>1 DEF Throttled
    <3> QED
      BY <1>0, <1>2, <2>0, <2>1, <3>1, MarkCompleteCounts
  <2>2. CASE Finish(b)
    BY <1>0, <2>1, <2>2 DEF Finish
  <2>3. CASE Retry(b)
    <3>1. q'.retry_counts[c] = q.retry_counts[c] \/ q'.retry_counts[c] = q.retry_counts[c] + 1
      BY <1>1, <2>3
    <3> QED
      BY <1>0, <1>2, <3>1
  <2>4. CASE DeadLetter(b)
    <3>1. b.channel_id # c
      BY <1>2, <2>4
    <3> DEFINE r == requeue(q, b, None)
    <3>2. q' = mark_complete(r, b.channel_id) /\ Exhausted(q, b)
      BY <2>4 DEF DeadLetter
    <3>3. r = [q EXCEPT !.retry_counts[b.channel_id] = 0, !.retry_after[b.channel_id] = None]
      BY <3>2 DEF requeue
    <3>4. r.retry_counts[c] = q.retry_counts[c]
      BY <1>0, <2>0, <3>1, <3>3 DEF QueueType
    <3>5. r \in QueueType
      BY <1>0, <2>0, <3>2, RequeueOK DEF QueueOK
    <3> HIDE DEF r
    <3>6. q'.retry_counts[c] = r.retry_counts[c]
      BY <2>0, <3>1, <3>2, <3>5, MarkCompleteCounts
    <3> QED
      BY <1>0, <1>2, <3>4, <3>6
  <2>5. CASE Bounce(b)
    <3> DEFINE r == push_front(q, b.channel_id, b.events)
    <3>1. r \in QueueType /\ r.retry_counts = q.retry_counts /\ r.retry_after = q.retry_after
      BY <1>0, <2>0, PushFrontCounts, PushFrontOK DEF QueueOK
    <3>2. q' = mark_complete(r, b.channel_id)
      BY <2>5 DEF Bounce, requeue_preserve_timestamps
    <3> HIDE DEF r
    <3> QED
      BY <2>1, <3>1, <3>2
  <2>6. ASSUME NEW reason \in CancelReason, Cancel(b, reason) PROVE FALSE
    <3> DEFINE r == requeue_as_cancelled(q, b, reason)
    <3>1. r \in QueueType
      BY <1>0, <2>0, RequeueAsCancelledOK DEF IInv, QueueOK
    <3>2. r.retry_counts = q.retry_counts /\ r.retry_after = q.retry_after
      BY <1>0 DEF requeue_as_cancelled, QueueType
    <3>3. q' = mark_complete(r, b.channel_id)
      BY <2>6 DEF Cancel
    <3> HIDE DEF r
    <3> QED
      BY <2>1, <3>1, <3>2, <3>3
  <2> QED
    BY <1>6, <2>2, <2>3, <2>4, <2>5, <2>6 DEF EndTurn
<1>7. ASSUME NEW d \in Channel, Withhold(d) PROVE FALSE
  BY <1>0, <1>2, <1>7 DEF Withhold, mark_native_steer_pending, QueueType
<1>8. ASSUME NEW d \in Channel, Release(d) PROVE FALSE
  BY <1>0, <1>2, <1>8 DEF Release, release_native_steer, push_front, QueueType
<1>9. ASSUME NEW d \in Channel, Steered(d) PROVE FALSE
  BY <1>0, <1>2, <1>9 DEF Steered, remove_event, extend_in_flight_deadline, QueueType
<1>10. ASSUME NEW d \in Channel, Drain(d) PROVE FALSE
  <2>1. d # c
    BY <1>2, <1>10
  <2> QED
    BY <1>0, <1>2, <1>10, <2>1 DEF Drain, drain_channel, QueueType
<1>11. ASSUME Compact PROVE FALSE
  BY <1>0, <1>2, <1>11 DEF Compact, compact_expired_state, QueueType
<1>12. ASSUME Tick PROVE FALSE
  BY <1>0, <1>2, <1>12 DEF Tick, elapse, QueueType
<1> QED
  BY <1>3, <1>4, <1>5, <1>6, <1>7, <1>8, <1>9, <1>10, <1>11, <1>12 DEF Next

\* For every limit and every backoff: the counter never exceeds MAX_RETRIES, a
\* retried failure counts once and leaves a throttle its mark_complete still sees,
\* and a throttled channel keeps its attempts until a drain or a dead letter.
THEOREM RetriesWithinLimit == Spec => RetryAccounting
<1>1. IInv => RetryLimit
  BY IInvImplies
<1>2. IInv /\ [Next]_vars => [RetryStep /\ RetryLimit']_vars
  <2>1. IInv' => RetryLimit'
    BY <1>1, PTL
  <2> QED
    BY <2>1, NextInv, AttemptsStep
<1> QED
  BY <1>2, InitInv, NextInv, PTL DEF Spec, RetryAccounting

-----------------------------------------------------------------------------
(* Where the events are *)

Promise == INSTANCE EventDeliveryProofs WITH waiting <- HeldIds,
                                             turns <- {BatchIds(b) : b \in turns}

\* The sets of events that the running turns hold: the turns of EventDelivery.
TurnSets == {BatchIds(b) : b \in turns}

\* No batch holds an event twice, no two share one, and what a batch has merged
\* was interrupted before.
TurnsApart ==
  /\ \A b \in turns : Distinct(b.cancelled_events \o b.events)
  /\ \A b1, b2 \in turns : b1 # b2 => BatchIds(b1) \cap BatchIds(b2) = {}
  /\ \A b \in turns : Ids(b.cancelled_events) \subseteq interrupted

\* The events put aside are those of interrupted turns.
AsideInterrupted ==
  \A c \in Channel : Ids(q.cancelled_batches[c]) \subseteq interrupted

\* Where every event is: what IInv says about the queue's tables, the places in
\* it and in the turns, and the account of module EventDelivery.
Placed ==
  /\ IInv
  /\ Neat(q)
  /\ TurnsApart
  /\ AsideInterrupted
  /\ Promise!IInv

\* The step is one of EventDelivery's, or none.
DeliveryStep == Delivery!Next \/ UNCHANGED Delivery!vars

\* What the queue holds is what its tables hold.
LEMMA HeldIsAll == HeldIds = AllIds(q)
BY DEF HeldIds, AllIds, ChannelIds

\* A batch has events, so that two turns are two sets of events.
LEMMA BatchHasEvents ==
  ASSUME IInv, NEW b \in turns
  PROVE  BatchIds(b) # {}
<1>1. b.events \in Seq(Event) /\ b.events # <<>>
  BY DEF IInv, TypeOK, FlushBatch
<1>2. 1 \in 1..Len(b.events)
  BY <1>1
<1> QED
  BY <1>2 DEF BatchIds, Ids

\* What Placed says about the sets of events.
LEMMA Account ==
  ASSUME Placed
  PROVE  /\ AllIds(q) \cup TurnIds \cup settled \cup interrupted \subseteq 1..arrived
         /\ AllIds(q) \cap TurnIds = {}
         /\ settled \cap (AllIds(q) \cup TurnIds) = {}
         /\ 1..arrived \subseteq AllIds(q) \cup TurnIds \cup settled \cup interrupted
         /\ arrived \in Nat
         /\ \A b \in turns : BatchIds(b) \subseteq TurnIds
BY HeldIsAll DEF Placed, Promise!IInv, Promise!Accounted, Promise!Working, TurnIds

\* A turn that ends leaves the others.
LEMMA TurnEnds ==
  ASSUME Placed, NEW b \in turns, turns' = turns \ {b}, interrupted \subseteq interrupted'
  PROVE  TurnSets' = TurnSets \ {BatchIds(b)} /\ TurnsApart'
<1>1. \A x \in turns : BatchIds(x) = BatchIds(b) => x = b
  BY BatchHasEvents DEF Placed, TurnsApart
<1>2. TurnSets' = TurnSets \ {BatchIds(b)}
  BY <1>1 DEF TurnSets
<1>3. TurnsApart'
  BY DEF Placed, TurnsApart
<1> QED
  BY <1>2, <1>3

\* A method that puts nothing aside leaves there what was interrupted.
LEMMA AsideKept ==
  ASSUME Placed, interrupted \subseteq interrupted',
         \A d \in Channel : q'.cancelled_batches[d] \in {<<>>, q.cancelled_batches[d]}
  PROVE  AsideInterrupted'
BY EmptyIds DEF Placed, AsideInterrupted

\* Once a step is one of EventDelivery's, the account is kept.
LEMMA StepAccounted ==
  ASSUME Placed, DeliveryStep
  PROVE  Promise!IInv'
<1>1. Promise!Next \/ UNCHANGED Promise!vars
  BY DEF DeliveryStep, Delivery!Next, Delivery!vars, Delivery!Arrive, Delivery!Start,
         Delivery!End, Delivery!Interrupt, Delivery!Drop, Delivery!Settle,
         Promise!Next, Promise!vars, Promise!Arrive, Promise!Start, Promise!End,
         Promise!Interrupt, Promise!Drop, Promise!Settle
<1> QED
  BY <1>1, Promise!NextAccounted DEF Placed

\* A step that moves no event.
LEMMA NothingMoves ==
  ASSUME Placed, \A d \in Channel : SameAt(q', q, d),
         UNCHANGED <<arrived, turns, settled, interrupted>>
  PROVE  DeliveryStep /\ Neat(q') /\ TurnsApart' /\ AsideInterrupted'
<1>1. AllIds(q') = AllIds(q) /\ Neat(q')
  BY ChangeNone DEF Placed
<1>2. HeldIds' = HeldIds
  BY <1>1, HeldIsAll DEF HeldIds, AllIds, ChannelIds
<1>3. DeliveryStep
  BY <1>2 DEF DeliveryStep, Delivery!vars
<1>4. TurnsApart' /\ AsideInterrupted'
  BY DEF Placed, TurnsApart, AsideInterrupted, SameAt
<1> QED
  BY <1>1, <1>3, <1>4

\* After a step, too, the queue holds what its tables hold.
LEMMA HeldIsAllNext == HeldIds' = AllIds(q')
BY DEF HeldIds, AllIds, ChannelIds

\* Waiting events that are settled.
LEMMA SomeDrop ==
  ASSUME Placed, NEW S \in SUBSET AllIds(q), AllIds(q') = AllIds(q) \ S, Neat(q'),
         \A d \in Channel : q'.cancelled_batches[d] \in {<<>>, q.cancelled_batches[d]},
         settled' = settled \cup S, UNCHANGED <<arrived, turns, interrupted>>
  PROVE  DeliveryStep /\ Neat(q') /\ TurnsApart' /\ AsideInterrupted'
<1>1. HeldIds' = HeldIds \ S /\ S \in SUBSET HeldIds
  BY HeldIsAll, HeldIsAllNext
<1>2. Delivery!Settle(S, HeldIds)
  BY <1>1 DEF Delivery!Settle
<1>3. Delivery!Drop
  BY <1>1, <1>2 DEF Delivery!Drop
<1>4. DeliveryStep
  BY <1>3 DEF DeliveryStep, Delivery!Next
<1>5. TurnsApart'
  BY DEF Placed, TurnsApart
<1> QED
  BY <1>4, <1>5, AsideKept

\* A turn ends: some of its events go back, others are settled, and one for which
\* neither is true had been interrupted.
LEMMA SomeEnd ==
  ASSUME Placed, NEW b \in turns, NEW back \in SUBSET BatchIds(b),
         NEW S \in SUBSET (AllIds(q) \cup BatchIds(b)),
         AllIds(q') = (AllIds(q) \cup back) \ S, Neat(q'),
         BatchIds(b) \ (back \cup S) \subseteq interrupted,
         \A d \in Channel : q'.cancelled_batches[d] \in {<<>>, q.cancelled_batches[d]},
         settled' = settled \cup S, turns' = turns \ {b}, UNCHANGED <<arrived, interrupted>>
  PROVE  DeliveryStep /\ Neat(q') /\ TurnsApart' /\ AsideInterrupted'
<1> DEFINE T == BatchIds(b)
<1>1. TurnSets' = TurnSets \ {T} /\ TurnsApart'
  BY TurnEnds
<1>2. HeldIds' = (HeldIds \cup back) \ S /\ S \in SUBSET (HeldIds \cup T)
  BY HeldIsAll, HeldIsAllNext
<1>3. T \in TurnSets /\ back \in SUBSET T /\ T \ (back \cup S) \subseteq interrupted
  BY DEF TurnSets
<1> HIDE DEF T
<1>4. Delivery!Settle(S, HeldIds \cup back)
  BY <1>2 DEF Delivery!Settle
<1>5. Delivery!End(T)
  <2>1. \E k \in SUBSET T, R \in SUBSET (HeldIds \cup T) :
          Delivery!Settle(R, HeldIds \cup k) /\ T \ (k \cup R) \subseteq interrupted
    BY <1>2, <1>3, <1>4, ZenonT(60)
  <2>2. {BatchIds(x) : x \in turns'} = {BatchIds(x) : x \in turns} \ {T}
    BY <1>1 DEF TurnSets
  <2> QED
    BY <2>1, <2>2 DEF Delivery!End
<1>6. DeliveryStep
  BY <1>3, <1>5 DEF DeliveryStep, Delivery!Next, TurnSets
<1> QED
  BY <1>1, <1>6, AsideKept

\* push: a new event waits, or is dropped, or pushes out the oldest.
LEMMA PushStep ==
  ASSUME Placed, NEW c \in Channel, Push(c)
  PROVE  DeliveryStep /\ Neat(q') /\ TurnsApart' /\ AsideInterrupted'
<1> DEFINE n == arrived + 1
           t == CreatedAt[n]
           e == [id |-> n, channel_id |-> c, created_at |-> t]
           S == Dropped(q, e)
<1>0. /\ arrived < MaxEvents /\ arrived' = n /\ q' = push(q, e)
      /\ settled' = settled \cup S /\ turns' = turns /\ interrupted' = interrupted
  BY DEF Push
<1>1. arrived \in Nat /\ n \notin AllIds(q)
  <2>1. arrived \in Nat /\ AllIds(q) \subseteq 1..arrived
    BY Account
  <2> QED
    BY <2>1
<1>2. n \in 1..MaxEvents
  BY <1>0, <1>1, ProtocolConstants
<1>3. t \in Nat /\ n \in Nat
  BY <1>1, <1>2, ProtocolConstants
<1> HIDE DEF t, n
<1>4. e \in Event /\ e.id = n
  BY <1>3 DEF Event
<1> HIDE DEF e, S
<1>5. QueueOK(q) /\ Neat(q)
  BY DEF Placed, IInv
<1>6. /\ Neat(q') /\ AllIds(q') = (AllIds(q) \cup {n}) \ S
      /\ S \subseteq AllIds(q) \cup {n}
      /\ q'.cancelled_batches = q.cancelled_batches
  BY <1>0, <1>1, <1>4, <1>5, PushMoves DEF S
<1>7. HeldIds' = (HeldIds \cup {n}) \ S /\ S \in SUBSET (HeldIds \cup {n})
  BY <1>6, HeldIsAll, HeldIsAllNext
<1>8. Delivery!Settle(S, HeldIds \cup {arrived'})
  BY <1>0, <1>7 DEF Delivery!Settle
<1>9. Delivery!Arrive
  BY <1>0, <1>7, <1>8 DEF Delivery!Arrive, n
<1>10. DeliveryStep
  BY <1>9 DEF DeliveryStep, Delivery!Next
<1>11. TurnsApart'
  BY <1>0 DEF Placed, TurnsApart
<1>12. AsideInterrupted'
  BY <1>0, <1>6, AsideKept
<1> QED
  BY <1>6, <1>10, <1>11, <1>12

\* flush_next: an expiry, and then a turn that takes some of what waits.
LEMMA FlushStep ==
  ASSUME Placed, Flush
  PROVE  DeliveryStep /\ Neat(q') /\ TurnsApart' /\ AsideInterrupted'
<1> DEFINE p == expire(q)
           S == ExpiryTrimmed(q)
<1>1. PICK c \in FlushChannels(p) :
        /\ q' = flush_next(p, c)
        /\ turns' = turns \cup {FlushedBatch(p, c)}
        /\ settled' = settled \cup S
        /\ arrived' = arrived /\ interrupted' = interrupted
  BY DEF Flush
<1> DEFINE b == FlushedBatch(p, c)
           T == BatchIds(b)
<1>2. QueueOK(q) /\ Neat(q) /\ QueueOK(p)
  BY ExpireOK DEF Placed, IInv
<1>3. /\ Neat(p) /\ AllIds(p) = AllIds(q) \ S /\ S \subseteq AllIds(q)
      /\ p.cancelled_batches = q.cancelled_batches
  BY <1>2, ExpireMoves
<1> HIDE DEF p
<1>4. /\ Neat(q') /\ AllIds(q') = AllIds(p) \ T
      /\ T \subseteq AllIds(p) /\ T # {}
      /\ Distinct(b.cancelled_events \o b.events)
      /\ Ids(b.cancelled_events) \subseteq Ids(p.cancelled_batches[c])
      /\ \A d \in Channel : q'.cancelled_batches[d] \in {<<>>, p.cancelled_batches[d]}
  BY <1>1, <1>2, <1>3, FlushMoves DEF BatchIds
<1>5. c \in Channel
  BY <1>2, FlushedBatchType
<1> HIDE DEF S, b, T
<1>6. turns' = turns \cup {b}
  BY <1>1 DEF b
<1>7. /\ T \in (SUBSET HeldIds) \ {{}} /\ S \in SUBSET (HeldIds \ T)
      /\ HeldIds' = (HeldIds \ T) \ S
  BY <1>3, <1>4, HeldIsAll, HeldIsAllNext
<1>8. TurnSets' = TurnSets \cup {T}
  BY <1>6 DEF TurnSets, T
<1>9. Delivery!Settle(S, HeldIds \ T)
  BY <1>1, <1>7 DEF Delivery!Settle
<1>10. Delivery!Start
  BY <1>1, <1>7, <1>8, <1>9 DEF Delivery!Start, TurnSets
<1>11. DeliveryStep
  BY <1>10 DEF DeliveryStep, Delivery!Next
<1>12. \A x \in turns : BatchIds(x) \cap T = {}
  BY <1>3, <1>4, Account
<1>13. Ids(b.cancelled_events) \subseteq interrupted
  BY <1>3, <1>4, <1>5 DEF Placed, AsideInterrupted
<1>14. TurnsApart'
  <2>1. \A x \in turns' : Distinct(x.cancelled_events \o x.events)
    BY <1>4, <1>6 DEF Placed, TurnsApart
  <2>2. \A x, y \in turns' : x # y => BatchIds(x) \cap BatchIds(y) = {}
    BY <1>6, <1>12 DEF Placed, TurnsApart, T
  <2>3. \A x \in turns' : Ids(x.cancelled_events) \subseteq interrupted
    BY <1>6, <1>13 DEF Placed, TurnsApart
  <2> QED
    BY <1>1, <2>1, <2>2, <2>3 DEF TurnsApart
<1>15. AsideInterrupted'
  BY <1>1, <1>3, <1>4, AsideKept
<1> QED
  BY <1>4, <1>11, <1>14, <1>15

\* The batch goes back to the front of its queue, without what it had merged, and
\* the cap drops what does not fit.
LEMMA GivenBack ==
  ASSUME Placed, NEW b \in turns,
         NEW r, QueueOK(r),
         \A d \in Channel : SameAt(r, push_front(q, b.channel_id, b.events), d),
         q' = mark_complete(r, b.channel_id),
         settled' = settled \cup Trimmed(b.events \o q.queues[b.channel_id]),
         turns' = turns \ {b}, UNCHANGED <<arrived, interrupted>>
  PROVE  DeliveryStep /\ Neat(q') /\ TurnsApart' /\ AsideInterrupted'
<1> DEFINE c == b.channel_id
           s == b.events
           p == push_front(q, c, s)
           S == Trimmed(s \o q.queues[c])
<1>1. /\ c \in Channel /\ s \in Seq(Event) /\ b.cancelled_events \in Seq(Event)
      /\ QueueOK(q) /\ Neat(q)
  BY DEF Placed, IInv, TypeOK, FlushBatch
<1>2. Distinct(s) /\ Ids(s) \subseteq BatchIds(b)
  <2>1. Distinct(b.cancelled_events \o b.events)
    BY DEF Placed, TurnsApart
  <2> QED
    BY <1>1, <2>1, ConcatIds DEF BatchIds
<1>3. Ids(s) \cap AllIds(q) = {}
  BY <1>2, Account
<1> HIDE DEF c, s
<1>4. /\ Neat(p) /\ AllIds(p) = (AllIds(q) \cup Ids(s)) \ S
      /\ S \subseteq AllIds(q) \cup Ids(s)
      /\ p.cancelled_batches = q.cancelled_batches
  BY <1>1, <1>2, <1>3, PushFrontMoves
<1>5. \A d \in Channel : SameAt(q', r, d) /\ SameAt(r, p, d)
  BY <1>1, TimersMoveNothing DEF c, s
<1> HIDE DEF p, S
<1>6. \A d \in Channel : SameAt(q', p, d)
  BY <1>5 DEF SameAt
<1>7. Neat(q') /\ AllIds(q') = (AllIds(q) \cup Ids(s)) \ S
  BY <1>4, <1>6, ChangeNone
<1>8. \A d \in Channel : q'.cancelled_batches[d] \in {<<>>, q.cancelled_batches[d]}
  BY <1>4, <1>6 DEF SameAt
<1>9. BatchIds(b) \ (Ids(s) \cup S) \subseteq interrupted
  BY DEF Placed, TurnsApart, BatchIds, s
<1>10. settled' = settled \cup S /\ Ids(s) \in SUBSET BatchIds(b)
       /\ S \in SUBSET (AllIds(q) \cup BatchIds(b))
  BY <1>2, <1>4 DEF S, s, c
<1> QED
  BY <1>7, <1>8, <1>9, <1>10, SomeEnd

\* The batch is settled: answered, or dead-lettered with a notice.
LEMMA BatchSettled ==
  ASSUME Placed, NEW b \in turns,
         NEW r, QueueOK(r), \A d \in Channel : SameAt(r, q, d),
         q' = mark_complete(r, b.channel_id),
         settled' = settled \cup BatchIds(b),
         turns' = turns \ {b}, UNCHANGED <<arrived, interrupted>>
  PROVE  DeliveryStep /\ Neat(q') /\ TurnsApart' /\ AsideInterrupted'
<1> DEFINE S == BatchIds(b)
           back == {}
<1>1. b.channel_id \in Channel /\ Neat(q)
  BY DEF Placed, IInv, TypeOK, FlushBatch
<1>2. \A d \in Channel : SameAt(q', q, d)
  <2>1. \A d \in Channel : SameAt(q', r, d)
    BY <1>1, TimersMoveNothing
  <2> QED
    BY <2>1 DEF SameAt
<1>3. Neat(q') /\ AllIds(q') = AllIds(q)
  BY <1>1, <1>2, ChangeNone
<1>4. S \cap AllIds(q) = {}
  BY Account
<1> HIDE DEF S
<1>5. /\ AllIds(q') = (AllIds(q) \cup back) \ S /\ back \in SUBSET BatchIds(b)
      /\ S \in SUBSET (AllIds(q) \cup BatchIds(b))
      /\ BatchIds(b) \ (back \cup S) \subseteq interrupted
  BY <1>3, <1>4 DEF S
<1>6. \A d \in Channel : q'.cancelled_batches[d] \in {<<>>, q.cancelled_batches[d]}
  BY <1>2 DEF SameAt
<1>7. settled' = settled \cup S
  BY DEF S
<1> HIDE DEF back
<1> QED
  BY <1>3, <1>5, <1>6, <1>7, SomeEnd

\* A turn that is cancelled for a new event puts its whole batch aside.
LEMMA CancelStep ==
  ASSUME Placed, NEW b \in turns, NEW reason \in CancelReason, Cancel(b, reason)
  PROVE  DeliveryStep /\ Neat(q') /\ TurnsApart' /\ AsideInterrupted'
<1> DEFINE T == BatchIds(b)
           r == requeue_as_cancelled(q, b, reason)
<1>0. /\ q' = mark_complete(r, b.channel_id) /\ turns' = turns \ {b}
      /\ interrupted' = interrupted \cup T /\ arrived' = arrived /\ settled' = settled
  BY DEF Cancel
<1>1. /\ QueueOK(q) /\ Neat(q) /\ b \in FlushBatch /\ b.channel_id \in Channel
      /\ b.events # <<>> /\ Distinct(b.cancelled_events \o b.events)
  BY DEF Placed, IInv, TypeOK, FlushBatch, TurnsApart
<1>2. T \cap AllIds(q) = {}
  BY Account
<1>3. /\ Neat(r) /\ AllIds(r) = AllIds(q) \cup T
      /\ \A d \in Channel : Ids(r.cancelled_batches[d]) \subseteq Ids(q.cancelled_batches[d]) \cup T
  BY <1>1, <1>2, CancelMoves DEF BatchIds
<1>4. QueueOK(r)
  BY <1>1, RequeueAsCancelledOK
<1> HIDE DEF r, T
<1>5. \A d \in Channel : SameAt(q', r, d)
  BY <1>0, <1>1, <1>4, TimersMoveNothing
<1>6. Neat(q') /\ AllIds(q') = AllIds(q) \cup T
  BY <1>3, <1>5, ChangeNone
<1>7. TurnSets' = TurnSets \ {T} /\ TurnsApart'
  BY <1>0, TurnEnds DEF T
<1>8. HeldIds' = HeldIds \cup T /\ T \in TurnSets
  BY <1>6, HeldIsAll, HeldIsAllNext DEF TurnSets, T
<1>9. Delivery!Interrupt(T)
  BY <1>0, <1>7, <1>8 DEF Delivery!Interrupt, TurnSets
<1>10. DeliveryStep
  BY <1>8, <1>9 DEF DeliveryStep, Delivery!Next, TurnSets
<1>11. AsideInterrupted'
  <2> SUFFICES ASSUME NEW d \in Channel
               PROVE  Ids(q'.cancelled_batches[d]) \subseteq interrupted \cup T
    BY <1>0 DEF AsideInterrupted
  <2>1. Ids(q.cancelled_batches[d]) \subseteq interrupted
    BY DEF Placed, AsideInterrupted
  <2>2. q'.cancelled_batches[d] = r.cancelled_batches[d]
    BY <1>5 DEF SameAt
  <2> QED
    BY <1>3, <2>1, <2>2
<1> QED
  BY <1>6, <1>7, <1>10, <1>11

\* Every end of a turn is one of EventDelivery's.
LEMMA EndStep ==
  ASSUME Placed, NEW b \in turns, EndTurn(b)
  PROVE  DeliveryStep /\ Neat(q') /\ TurnsApart' /\ AsideInterrupted'
<1>1. /\ QueueOK(q) /\ b \in FlushBatch /\ b.channel_id \in Channel /\ b.events # <<>>
      /\ b.events \in Seq(Event)
  BY DEF Placed, IInv, TypeOK, FlushBatch
<1>2. CASE Finish(b)
  <2>1. \A d \in Channel : SameAt(q, q, d)
    BY DEF SameAt
  <2> QED
    BY <1>1, <1>2, <2>1, BatchSettled DEF Finish
<1>3. CASE Retry(b)
  <2>1. PICK d \in BackoffDelays(q.retry_counts[b.channel_id] + 1) :
          q' = mark_complete(requeue(q, b, d), b.channel_id)
    BY <1>3 DEF Retry
  <2> DEFINE r == requeue(q, b, d)
  <2>2. q.retry_counts[b.channel_id] + 1 \in Nat \ {0}
    BY <1>1 DEF QueueOK, QueueType
  <2>3. d \in Nat \ {0}
    BY <2>2, BackoffPositive
  <2>4. QueueOK(r)
    BY <1>1, <2>3, RequeueOK
  <2>5. \A x \in Channel : SameAt(r, push_front(q, b.channel_id, b.events), x)
    BY <1>1, <1>3, RequeueSame DEF Retry
  <2>6. /\ settled' = settled \cup Trimmed(b.events \o q.queues[b.channel_id])
        /\ turns' = turns \ {b} /\ UNCHANGED <<arrived, interrupted>>
    BY <1>3 DEF Retry
  <2> HIDE DEF r
  <2>7. q' = mark_complete(r, b.channel_id)
    BY <2>1 DEF r
  <2> QED
    BY <2>4, <2>5, <2>6, <2>7, GivenBack
<1>4. CASE DeadLetter(b)
  <2> DEFINE r == requeue(q, b, None)
  <2>1. QueueOK(r) /\ \A x \in Channel : SameAt(r, q, x)
    BY <1>1, <1>4, RequeueOK, RequeueSame DEF DeadLetter
  <2>2. /\ settled' = settled \cup BatchIds(b) /\ q' = mark_complete(r, b.channel_id)
        /\ turns' = turns \ {b} /\ UNCHANGED <<arrived, interrupted>>
    BY <1>4 DEF DeadLetter
  <2> HIDE DEF r
  <2> QED
    BY <2>1, <2>2, BatchSettled
<1>5. CASE Bounce(b)
  <2> DEFINE r == push_front(q, b.channel_id, b.events)
  <2>1. QueueOK(r)
    BY <1>1, PushFrontOK
  <2>2. \A x \in Channel : SameAt(r, r, x)
    BY DEF SameAt
  <2>3. /\ settled' = settled \cup Trimmed(b.events \o q.queues[b.channel_id])
        /\ q' = mark_complete(r, b.channel_id)
        /\ turns' = turns \ {b} /\ UNCHANGED <<arrived, interrupted>>
    BY <1>5 DEF Bounce, requeue_preserve_timestamps
  <2> QED
    BY <2>1, <2>2, <2>3, GivenBack
<1>6. ASSUME NEW reason \in CancelReason, Cancel(b, reason)
      PROVE  DeliveryStep /\ Neat(q') /\ TurnsApart' /\ AsideInterrupted'
  BY <1>6, CancelStep
<1> QED
  BY <1>2, <1>3, <1>4, <1>5, <1>6 DEF EndTurn

\* Steering, draining and housekeeping.
LEMMA OtherStep ==
  ASSUME Placed,
         \/ Expire \/ Compact \/ Tick
         \/ \E c \in Channel : Withhold(c) \/ Release(c) \/ Steered(c) \/ Drain(c)
  PROVE  DeliveryStep /\ Neat(q') /\ TurnsApart' /\ AsideInterrupted'
<1>0. QueueOK(q) /\ Neat(q)
  BY DEF Placed, IInv
<1>1. CASE Expire
  <2>1. /\ q' = expire(q) /\ settled' = settled \cup ExpiryTrimmed(q)
        /\ UNCHANGED <<arrived, turns, interrupted>>
    BY <1>1 DEF Expire
  <2>2. /\ Neat(q') /\ AllIds(q') = AllIds(q) \ ExpiryTrimmed(q)
        /\ ExpiryTrimmed(q) \in SUBSET AllIds(q)
        /\ q'.cancelled_batches = q.cancelled_batches
    BY <1>0, <2>1, ExpireMoves
  <2> QED
    BY <2>1, <2>2, SomeDrop
<1>2. CASE Compact \/ Tick
  <2>1. q' = compact_expired_state(q) \/ q' = elapse(q)
    BY <1>2 DEF Compact, Tick
  <2>2. UNCHANGED <<arrived, turns, settled, interrupted>>
    BY <1>2 DEF Compact, Tick
  <2>3. \A d \in Channel : SameAt(q', q, d)
    BY <1>0, <2>1, TimersMoveNothing
  <2> QED
    BY <2>2, <2>3, NothingMoves
<1>3. ASSUME NEW c \in Channel, Withhold(c)
      PROVE  DeliveryStep /\ Neat(q') /\ TurnsApart' /\ AsideInterrupted'
  <2>1. PICK id \in Ids(q.queues[c]) : q' = mark_native_steer_pending(q, c, id)
    BY <1>3 DEF Withhold
  <2>2. UNCHANGED <<arrived, turns, settled, interrupted>>
    BY <1>3 DEF Withhold
  <2>3. Neat(q') /\ AllIds(q') = AllIds(q) /\ q'.cancelled_batches = q.cancelled_batches
    BY <1>0, <2>1, WithholdMoves
  <2> DEFINE S == {}
  <2>4. /\ S \in SUBSET AllIds(q) /\ AllIds(q') = AllIds(q) \ S /\ settled' = settled \cup S
        /\ \A d \in Channel : q'.cancelled_batches[d] \in {<<>>, q.cancelled_batches[d]}
    BY <2>2, <2>3
  <2> HIDE DEF S
  <2> QED
    BY <2>2, <2>3, <2>4, SomeDrop
<1>4. ASSUME NEW c \in Channel, Release(c)
      PROVE  DeliveryStep /\ Neat(q') /\ TurnsApart' /\ AsideInterrupted'
  <2>1. PICK id \in Ids(q.withheld_native_steer[c]) : q' = release_native_steer(q, c, id)
    BY <1>4 DEF Release
  <2>2. settled' = settled \cup FrontTrimmed(q, c) /\ UNCHANGED <<arrived, turns, interrupted>>
    BY <1>4 DEF Release
  <2>3. /\ Neat(q') /\ AllIds(q') = AllIds(q) \ FrontTrimmed(q, c)
        /\ FrontTrimmed(q, c) \in SUBSET AllIds(q)
        /\ q'.cancelled_batches = q.cancelled_batches
    BY <1>0, <2>1, ReleaseMoves
  <2> QED
    BY <2>2, <2>3, SomeDrop
<1>5. ASSUME NEW c \in Channel, Steered(c)
      PROVE  DeliveryStep /\ Neat(q') /\ TurnsApart' /\ AsideInterrupted'
  <2> DEFINE p == extend_in_flight_deadline(q, c)
  <2>1. PICK id \in Ids(q.withheld_native_steer[c]) :
          q' = remove_event(p, c, id) /\ settled' = settled \cup {id}
    BY <1>5 DEF Steered
  <2>2. UNCHANGED <<arrived, turns, interrupted>>
    BY <1>5 DEF Steered
  <2>3. QueueOK(p) /\ \A d \in Channel : SameAt(p, q, d)
    BY <1>0, ExtendOK, TimersMoveNothing
  <2> HIDE DEF p
  <2>4. Neat(p) /\ AllIds(p) = AllIds(q) /\ id \in Ids(p.withheld_native_steer[c])
    BY <1>0, <2>3, ChangeNone DEF SameAt
  <2>5. /\ Neat(q') /\ AllIds(q') = AllIds(p) \ {id} /\ id \in AllIds(p)
        /\ q'.cancelled_batches = p.cancelled_batches
    BY <2>1, <2>3, <2>4, RemoveMoves
  <2> DEFINE S == {id}
  <2>6. /\ S \in SUBSET AllIds(q) /\ AllIds(q') = AllIds(q) \ S /\ settled' = settled \cup S
        /\ \A d \in Channel : q'.cancelled_batches[d] \in {<<>>, q.cancelled_batches[d]}
    BY <2>1, <2>3, <2>4, <2>5 DEF SameAt
  <2> HIDE DEF S
  <2> QED
    BY <2>2, <2>5, <2>6, SomeDrop
<1>6. ASSUME NEW c \in Channel, Drain(c)
      PROVE  DeliveryStep /\ Neat(q') /\ TurnsApart' /\ AsideInterrupted'
  <2> DEFINE S == ChannelIds(q, c)
  <2>1. q' = drain_channel(q, c) /\ UNCHANGED <<arrived, turns, interrupted>>
    BY <1>6 DEF Drain
  <2>2. settled' = settled \cup S
    BY <1>6 DEF Drain, ChannelIds
  <2>3. /\ Neat(q') /\ AllIds(q') = AllIds(q) \ S /\ S \in SUBSET AllIds(q)
        /\ \A d \in Channel : q'.cancelled_batches[d] \in {<<>>, q.cancelled_batches[d]}
    BY <1>0, <2>1, DrainMoves
  <2> HIDE DEF S
  <2> QED
    BY <2>1, <2>2, <2>3, SomeDrop
<1> QED
  BY <1>1, <1>2, <1>3, <1>4, <1>5, <1>6

\* Every step keeps Placed and is one of EventDelivery's, or none.
LEMMA NextPlaced == Placed /\ [Next]_vars => Placed' /\ DeliveryStep
<1> SUFFICES ASSUME Placed, [Next]_vars PROVE Placed' /\ DeliveryStep
  OBVIOUS
<1>1. IInv'
  BY NextInv DEF Placed
<1>2. DeliveryStep /\ Neat(q') /\ TurnsApart' /\ AsideInterrupted'
  <2>1. CASE UNCHANGED vars
    <3>1. \A d \in Channel : SameAt(q', q, d)
      BY <2>1 DEF vars, SameAt
    <3> QED
      BY <2>1, <3>1, NothingMoves DEF vars
  <2>2. CASE Next
    BY <2>2, PushStep, FlushStep, EndStep, OtherStep DEF Next
  <2> QED
    BY <2>1, <2>2
<1>3. Promise!IInv'
  BY <1>2, StepAccounted
<1> QED
  BY <1>1, <1>2, <1>3 DEF Placed

\* Nothing is anywhere in the beginning.
LEMMA InitPlaced == Init => Placed /\ Delivery!Init
<1> SUFFICES ASSUME Init PROVE Placed /\ Delivery!Init
  OBVIOUS
<1>1. Neat(q) /\ HeldIds = {}
  BY EmptyQueueNeat, HeldIsAll DEF Init
<1>2. Delivery!Init
  BY <1>1 DEF Init, Delivery!Init
<1>3. Promise!IInv
  BY <1>2, Promise!InitAccounted DEF Delivery!Init, Promise!Init
<1>4. TurnsApart /\ AsideInterrupted
  <2>1. \A c \in Channel : q.cancelled_batches[c] = <<>>
    BY DEF Init, EmptyQueue
  <2> QED
    BY <2>1, EmptyIds DEF Init, TurnsApart, AsideInterrupted
<1>5. IInv
  BY InitInv
<1> QED
  BY <1>1, <1>2, <1>3, <1>4, <1>5 DEF Placed

\* A place of the queue names a table, a channel and an index.
LEMMA PlaceNames ==
  ASSUME NEW p \in Positions
  PROVE  \E c \in Channel :
           \/ /\ p = <<"queued", c, p[3]>> /\ p[3] \in 1..Len(q.queues[c])
              /\ IdAt(p) = q.queues[c][p[3]].id
           \/ /\ p = <<"withheld", c, p[3]>> /\ p[3] \in 1..Len(q.withheld_native_steer[c])
              /\ IdAt(p) = q.withheld_native_steer[c][p[3]].id
           \/ /\ p = <<"cancelled", c, p[3]>> /\ p[3] \in 1..Len(q.cancelled_batches[c])
              /\ IdAt(p) = q.cancelled_batches[c][p[3]].id
<1>1. PICK c \in Channel :
        \/ \E i \in 1..Len(q.queues[c]) : p = <<"queued", c, i>>
        \/ \E i \in 1..Len(q.withheld_native_steer[c]) : p = <<"withheld", c, i>>
        \/ \E i \in 1..Len(q.cancelled_batches[c]) : p = <<"cancelled", c, i>>
  BY DEF Positions
<1>2. ASSUME NEW i \in 1..Len(q.queues[c]), p = <<"queued", c, i>>
      PROVE  p = <<"queued", c, p[3]>> /\ p[3] = i /\ IdAt(p) = q.queues[c][i].id
  BY <1>2 DEF IdAt
<1>3. ASSUME NEW i \in 1..Len(q.withheld_native_steer[c]), p = <<"withheld", c, i>>
      PROVE  /\ p = <<"withheld", c, p[3]>> /\ p[3] = i
             /\ IdAt(p) = q.withheld_native_steer[c][i].id
  BY <1>3 DEF IdAt
<1>4. ASSUME NEW i \in 1..Len(q.cancelled_batches[c]), p = <<"cancelled", c, i>>
      PROVE  /\ p = <<"cancelled", c, p[3]>> /\ p[3] = i
             /\ IdAt(p) = q.cancelled_batches[c][i].id
  BY <1>4 DEF IdAt
<1> QED
  BY <1>1, <1>2, <1>3, <1>4

\* Two places of the queue hold two events.
LEMMA PlacesDiffer ==
  ASSUME Neat(q), NEW p1 \in Positions, NEW p2 \in Positions, IdAt(p1) = IdAt(p2)
  PROVE  p1 = p2
<1> DEFINE In(p, k, c, s) == p = <<k, c, p[3]>> /\ p[3] \in 1..Len(s) /\ IdAt(p) = s[p[3]].id
           Is(p, c) == \/ In(p, "queued", c, q.queues[c])
                       \/ In(p, "withheld", c, q.withheld_native_steer[c])
                       \/ In(p, "cancelled", c, q.cancelled_batches[c])
<1>1. PICK c \in Channel : Is(p1, c)
  BY PlaceNames
<1>2. PICK d \in Channel : Is(p2, d)
  BY PlaceNames
<1>3. IdAt(p1) \in ChannelIds(q, c) /\ IdAt(p2) \in ChannelIds(q, d)
  BY <1>1, <1>2 DEF ChannelIds, Ids
<1>4. c = d /\ NeatAt(q, c)
  BY <1>3 DEF Neat
<1>5. ASSUME NEW s, Distinct(s), NEW k, In(p1, k, c, s), In(p2, k, c, s)
      PROVE  p1 = p2
  BY <1>5 DEF Distinct
<1>6. ASSUME NEW s, NEW t, Apart(s, t), NEW k, NEW l, In(p1, k, c, s), In(p2, l, c, t)
      PROVE  FALSE
  BY <1>6 DEF Apart, Ids
<1>7. ASSUME NEW s, NEW t, Apart(s, t), NEW k, NEW l, In(p2, k, c, s), In(p1, l, c, t)
      PROVE  FALSE
  BY <1>7 DEF Apart, Ids
<1> HIDE DEF In
<1> QED
  BY <1>1, <1>2, <1>4, <1>5, <1>6, <1>7 DEF NeatAt

\* What the runs check about the places of events follows from Placed.
LEMMA PlacedImplies == Placed => OnePlace /\ SettledIsGone /\ OnlyInterruptedLost
<1> SUFFICES ASSUME Placed PROVE OnePlace /\ SettledIsGone /\ OnlyInterruptedLost
  OBVIOUS
<1>1. SettledIsGone /\ OnlyInterruptedLost
  BY Account, HeldIsAll DEF SettledIsGone, OnlyInterruptedLost, Lost
<1>2. \A p1, p2 \in Positions : IdAt(p1) = IdAt(p2) => p1 = p2
  BY PlacesDiffer DEF Placed
<1>3. HeldIds \cap TurnIds = {}
  BY Account, HeldIsAll
<1>4. \A b1, b2 \in turns : b1 # b2 => BatchIds(b1) \cap BatchIds(b2) = {}
  BY DEF Placed, TurnsApart
<1>5. ASSUME NEW b \in turns
      PROVE  LET s == b.cancelled_events \o b.events IN Cardinality(Ids(s)) = Len(s)
  <2>1. b.events \in Seq(Event) /\ b.cancelled_events \in Seq(Event)
    BY DEF Placed, IInv, TypeOK, FlushBatch
  <2>2. /\ b.cancelled_events \o b.events \in Seq(Event)
        /\ Distinct(b.cancelled_events \o b.events)
    BY <2>1, ConcatIds DEF Placed, TurnsApart
  <2> QED
    BY <2>2, DistinctCount
<1>6. OnePlace
  BY <1>2, <1>3, <1>4, <1>5 DEF OnePlace
<1> QED
  BY <1>1, <1>6

\* No event is in two places of the queue, in the queue and in a turn, or in two
\* turns: no event is delivered by two turns at once.
THEOREM NoEventTwice == Spec => []OnePlace
<1>1. Init => Placed
  BY InitPlaced
<1>2. Placed /\ [Next]_vars => Placed'
  BY NextPlaced
<1>3. Placed => OnePlace
  BY PlacedImplies
<1> QED
  BY <1>1, <1>2, <1>3, PTL DEF Spec

\* An event that was answered, dead-lettered, dropped by the cap, steered or
\* drained never comes back.
THEOREM NoEventReturns == Spec => []SettledIsGone
<1>1. Init => Placed
  BY InitPlaced
<1>2. Placed /\ [Next]_vars => Placed'
  BY NextPlaced
<1>3. Placed => SettledIsGone
  BY PlacedImplies
<1> QED
  BY <1>1, <1>2, <1>3, PTL DEF Spec

\* An event that is gone without a named reason had been given to an agent, in a
\* turn that was cancelled.
THEOREM NothingLostUnseen == Spec => []OnlyInterruptedLost
<1>1. Init => Placed
  BY InitPlaced
<1>2. Placed /\ [Next]_vars => Placed'
  BY NextPlaced
<1>3. Placed => OnlyInterruptedLost
  BY PlacedImplies
<1> QED
  BY <1>1, <1>2, <1>3, PTL DEF Spec

\* The queue and its callers implement EventDelivery.
THEOREM QueueDelivers == Spec => Implements
<1>1. Init => Placed /\ Delivery!Init
  BY InitPlaced
<1>2. Placed /\ [Next]_vars => Placed' /\ [Delivery!Next]_(Delivery!vars)
  BY NextPlaced DEF DeliveryStep
<1> QED
  BY <1>1, <1>2, PTL DEF Spec, Implements, Delivery!Spec
=============================================================================
