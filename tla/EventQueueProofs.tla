--------------------------- MODULE EventQueueProofs ---------------------------
(***************************************************************************)
(* What the methods of the event queue preserve, for every queue value and  *)
(* every value of the constants.  The facts are stated about queue values,  *)
(* so that every module that calls the methods in its actions can use them. *)
(***************************************************************************)
EXTENDS EventQueue, FiniteSetTheorems, SequenceTheorems, TLAPS

-----------------------------------------------------------------------------
(* Sequences of events *)

\* Cutting a queue at the length cap gives a queue within the cap.
LEMMA TrimBack ==
  ASSUME NEW s \in Seq(Event)
  PROVE  trim_back(s) \in Seq(Event) /\ Len(trim_back(s)) <= MaxPending
BY QueueConstants DEF trim_back

\* The event that Position finds is an event of the sequence.
LEMMA PositionFinds ==
  ASSUME NEW s \in Seq(Event), NEW id \in Ids(s)
  PROVE  Position(s, id) \in 1..Len(s) /\ s[Position(s, id)] \in Event
BY DEF Position, Ids

\* Taking an event out makes no sequence longer.
LEMMA WithoutShrinks ==
  ASSUME NEW s \in Seq(Event), NEW id
  PROVE  Without(s, id) \in Seq(Event) /\ Len(Without(s, id)) <= Len(s)
<1>1. CASE id \in Ids(s)
  <2> DEFINE p == Position(s, id)
  <2>1. p \in 1..Len(s)
    BY <1>1, PositionFinds
  <2>2. /\ SubSeq(s, 1, p - 1) \in Seq(Event)
        /\ Len(SubSeq(s, 1, p - 1)) = p - 1
    BY <2>1
  <2>3. /\ SubSeq(s, p + 1, Len(s)) \in Seq(Event)
        /\ Len(SubSeq(s, p + 1, Len(s))) = Len(s) - p
    BY <2>1
  <2>4. Without(s, id) = SubSeq(s, 1, p - 1) \o SubSeq(s, p + 1, Len(s))
    BY <1>1 DEF Without
  <2> QED
    BY <2>1, <2>2, <2>3, <2>4, ConcatProperties
<1>2. CASE id \notin Ids(s)
  BY <1>2 DEF Without
<1> QED
  BY <1>1, <1>2

\* An event of s sorts at or before another exactly if its rank is not larger:
\* the ranks are 1..Len(s), each taken once, so the sort is a permutation.
LEMMA RankIsPermutation ==
  ASSUME NEW s \in Seq(Event)
  PROVE  /\ \A k \in 1..Len(s) : \E i \in 1..Len(s) : Rank(s, i) = k
         /\ \A i \in 1..Len(s) : Rank(s, i) \in 1..Len(s)
         /\ \A i, j \in 1..Len(s) : Rank(s, i) = Rank(s, j) => i = j
<1> DEFINE n == Len(s)
           Before(i) == {j \in 1..n : \/ s[j].created_at < s[i].created_at
                                      \/ s[j].created_at = s[i].created_at /\ j <= i}
           f == [i \in 1..n |-> Rank(s, i)]
<1>1. n \in Nat /\ \A i \in 1..n : s[i].created_at \in Nat
  <2>1. n \in Nat /\ \A i \in 1..n : s[i] \in Event
    OBVIOUS
  <2> QED
    BY <2>1 DEF Event
<1>2. IsFiniteSet(1..n) /\ Cardinality(1..n) = n
  <2> HIDE DEF n
  <2>1. 1 \in Int /\ n \in Int /\ n \in Nat
    BY <1>1
  <2>2. /\ IsFiniteSet(1..n)
        /\ Cardinality(1..n) = IF 1 > n THEN 0 ELSE n - 1 + 1
    BY <2>1, FS_Interval
  <2> QED
    BY <2>1, <2>2
<1>3. \A i \in 1..n : /\ IsFiniteSet(Before(i))
                      /\ Cardinality(Before(i)) \in 0..n
                      /\ Cardinality(Before(i)) # 0
  <2> TAKE i \in 1..n
  <2>1. Before(i) \in SUBSET (1..n) /\ i \in Before(i)
    BY <1>1
  <2>2. IsFiniteSet(Before(i)) /\ Cardinality(Before(i)) <= n
    BY <2>1, <1>2, FS_Subset
  <2>3. Cardinality(Before(i)) \in Nat
    BY <2>2, FS_CardinalityType
  <2>4. Cardinality(Before(i)) # 0
    BY <2>1, <2>2, FS_EmptySet
  <2> QED
    BY <2>2, <2>3, <2>4, <1>1
<1>4. \A i \in 1..n : Rank(s, i) = Cardinality(Before(i))
  BY DEF Rank
<1>5. \A i, j \in 1..n : Rank(s, i) = Rank(s, j) => i = j
  <2> SUFFICES ASSUME NEW i \in 1..n, NEW j \in 1..n, i # j,
                      Rank(s, i) = Rank(s, j)
               PROVE  FALSE
    OBVIOUS
  <2>1. CASE Before(i) \subseteq Before(j)
    <3>1. Before(i) = Before(j)
      BY <2>1, <1>3, <1>4, FS_Subset
    <3> QED
      BY <3>1, <1>1
  <2>2. CASE Before(j) \subseteq Before(i)
    <3>1. Before(i) = Before(j)
      BY <2>2, <1>3, <1>4, FS_Subset
    <3> QED
      BY <3>1, <1>1
  <2>3. Before(i) \subseteq Before(j) \/ Before(j) \subseteq Before(i)
    BY <1>1
  <2> QED
    BY <2>1, <2>2, <2>3
<1>6. ASSUME NEW i \in 1..n PROVE Rank(s, i) \in 1..n
  <2> HIDE DEF Before, n
  <2>1. Rank(s, i) \in 0..n /\ Rank(s, i) # 0
    BY <1>3, <1>4
  <2> QED
    BY <2>1, <1>1
<1>7. f \in Injection(1..n, 1..n)
  BY <1>5, <1>6 DEF Injection, IsInjective
<1>8. f \in Surjection(1..n, 1..n)
  BY <1>7, <1>2, FS_Injection
<1>9. \A k \in 1..n : \E i \in 1..n : Rank(s, i) = k
  BY <1>8 DEF Surjection
<1> QED
  BY <1>5, <1>6, <1>9

\* The sorted batch holds the events of s and as many of them.
LEMMA SortType ==
  ASSUME NEW s \in Seq(Event)
  PROVE  sort_by_created_at(s) \in Seq(Event) /\ Len(sort_by_created_at(s)) = Len(s)
<1> DEFINE At(k) == CHOOSE i \in 1..Len(s) : Rank(s, i) = k
<1>1. \A k \in 1..Len(s) : At(k) \in 1..Len(s)
  BY RankIsPermutation
<1>2. sort_by_created_at(s) = [k \in 1..Len(s) |-> s[At(k)]]
  BY DEF sort_by_created_at
<1> HIDE DEF At
<1>3. \A k \in 1..Len(s) : s[At(k)] \in Event
  BY <1>1
<1> QED
  BY <1>2, <1>3

\* The backoff delay of a retry is at least one tick.
LEMMA BackoffPositive ==
  ASSUME NEW n \in Nat \ {0}, NEW d \in BackoffDelays(n)
  PROVE  d \in Nat \ {0}
<1>1. BaseSecs(n) \in Nat
  BY QueueConstants DEF BaseSecs, Doubling
<1>2. CappedSecs(n) \in Nat
  BY <1>1, QueueConstants DEF CappedSecs
<1>3. d \in 1..CappedSecs(n)
  BY DEF BackoffDelays
<1> QED
  BY <1>2, <1>3

-----------------------------------------------------------------------------
(* The queue's invariant *)

\* The tables of the queue agree with each other: no queue is longer than the
\* cap, a channel is in flight exactly while it has a deadline, it has a cancel
\* reason exactly while it has a cancelled batch, and a throttled channel has
\* between 1 and MaxRetries attempts on record.
QueueOK(q) ==
  /\ q \in QueueType
  /\ \A c \in Channel : Len(q.queues[c]) <= MaxPending
  /\ \A c \in Channel : c \in q.in_flight_channels <=> q.in_flight_deadlines[c] # None
  /\ \A c \in Channel : q.cancelled_batches[c] # <<>> <=> q.cancel_reasons[c] # None
  /\ \A c \in Channel : q.retry_counts[c] <= MaxRetries
  /\ \A c \in Channel : q.retry_after[c] # None => q.retry_counts[c] > 0

\* A new queue has its tables in agreement.
LEMMA EmptyQueueOK == QueueOK(EmptyQueue)
BY QueueConstants DEF QueueOK, EmptyQueue, QueueType, Timer

\* The passing of time only makes timers shorter.
LEMMA ElapseOK ==
  ASSUME NEW q, QueueOK(q)
  PROVE  QueueOK(elapse(q))
<1>1. \A t \in Timer : Later(t) \in Timer /\ (Later(t) = None <=> t = None)
  BY QueueConstants DEF Timer, Later
<1> QED
  BY <1>1 DEF QueueOK, elapse, QueueType

\* push evicts at the front when the queue is full.
LEMMA PushOK ==
  ASSUME NEW q, QueueOK(q), NEW e \in Event
  PROVE  QueueOK(push(q, e))
<1> DEFINE c == e.channel_id
           room == IF Len(q.queues[c]) >= MaxPending
                   THEN Tail(q.queues[c]) ELSE q.queues[c]
<1>1. c \in Channel
  BY DEF Event
<1>2. q.queues[c] \in Seq(Event) /\ Len(q.queues[c]) <= MaxPending
  BY <1>1 DEF QueueOK, QueueType
<1>3. Append(room, e) \in Seq(Event) /\ Len(Append(room, e)) <= MaxPending
  BY <1>2, QueueConstants
<1>4. push(q, e) = IF Accepts(q, e) THEN [q EXCEPT !.queues[c] = Append(room, e)] ELSE q
  BY DEF push
<1> HIDE DEF c, room
<1>5. CASE Accepts(q, e)
  <2> DEFINE r == [q EXCEPT !.queues[c] = Append(room, e)]
  <2>1. r \in QueueType
    BY <1>1, <1>3 DEF QueueOK, QueueType
  <2>2. \A d \in Channel : Len(r.queues[d]) <= MaxPending
    BY <1>1, <1>3 DEF QueueOK, QueueType
  <2>3. QueueOK(r)
    BY <2>1, <2>2 DEF QueueOK, QueueType
  <2> QED
    BY <1>4, <1>5, <2>3
<1>6. CASE ~Accepts(q, e)
  BY <1>4, <1>6
<1> QED
  BY <1>5, <1>6

\* push_front trims at the back.
LEMMA PushFrontOK ==
  ASSUME NEW q, QueueOK(q), NEW c \in Channel, NEW s \in Seq(Event)
  PROVE  QueueOK(push_front(q, c, s))
<1>1. s \o q.queues[c] \in Seq(Event)
  BY ConcatProperties DEF QueueOK, QueueType
<1>2. /\ trim_back(s \o q.queues[c]) \in Seq(Event)
      /\ Len(trim_back(s \o q.queues[c])) <= MaxPending
  BY <1>1, TrimBack
<1> QED
  BY <1>2 DEF QueueOK, QueueType, push_front

\* The expiry releases a channel together with its deadline.
LEMMA ExpireOK ==
  ASSUME NEW q, QueueOK(q)
  PROVE  QueueOK(expire(q))
<1> DEFINE X == Expired(q)
           r == expire(q)
<1>1. \A c \in Channel : c \in X <=> q.in_flight_deadlines[c] = 0
  BY DEF Expired
<1>2. ASSUME NEW c \in Channel
      PROVE  /\ trim_back(q.withheld_native_steer[c] \o q.queues[c]) \in Seq(Event)
             /\ Len(trim_back(q.withheld_native_steer[c] \o q.queues[c])) <= MaxPending
  <2>1. q.withheld_native_steer[c] \o q.queues[c] \in Seq(Event)
    BY ConcatProperties DEF QueueOK, QueueType
  <2> QED
    BY <2>1, TrimBack
<1>3. r \in QueueType
  <2>1. [c \in Channel |-> IF c \in X THEN None ELSE q.in_flight_deadlines[c]]
          \in [Channel -> Timer]
    BY DEF QueueOK, QueueType, Timer
  <2>2. [c \in Channel |-> IF c \in X /\ q.withheld_native_steer[c] # <<>>
                           THEN trim_back(q.withheld_native_steer[c] \o q.queues[c])
                           ELSE q.queues[c]] \in [Channel -> Seq(Event)]
    BY <1>2 DEF QueueOK, QueueType
  <2>3. [c \in Channel |-> IF c \in X THEN <<>> ELSE q.withheld_native_steer[c]]
          \in [Channel -> Seq(Event)]
    BY DEF QueueOK, QueueType
  <2> QED
    BY <2>1, <2>2, <2>3 DEF QueueOK, QueueType, expire
<1>4. \A c \in Channel : Len(r.queues[c]) <= MaxPending
  BY <1>2 DEF QueueOK, QueueType, expire
<1>5. \A c \in Channel : c \in r.in_flight_channels <=> r.in_flight_deadlines[c] # None
  BY DEF QueueOK, QueueType, expire
<1> QED
  BY <1>3, <1>4, <1>5 DEF QueueOK, QueueType, expire

\* flush_next marks the channel in flight and takes its cancelled batch along
\* with the reason.
LEMMA FlushOK ==
  ASSUME NEW q, QueueOK(q), NEW c \in Channel
  PROVE  QueueOK(flush_next(q, c))
<1> DEFINE rest == IF c \in Ready(q)
                   THEN SubSeq(q.queues[c], DrainCount(q, c) + 1, Len(q.queues[c]))
                   ELSE q.queues[c]
           r == flush_next(q, c)
<1>1. q.queues[c] \in Seq(Event) /\ Len(q.queues[c]) <= MaxPending
  BY DEF QueueOK, QueueType
<1>2. DrainCount(q, c) \in 0..Len(q.queues[c])
  BY <1>1, QueueConstants DEF DrainCount
<1>3. rest \in Seq(Event) /\ Len(rest) <= MaxPending
  BY <1>1, <1>2, QueueConstants
<1>4. in_flight_deadline \in Nat /\ in_flight_deadline # None
  BY QueueConstants DEF in_flight_deadline
<1>5. r = [q EXCEPT !.queues[c] = rest,
                    !.in_flight_channels = @ \cup {c},
                    !.in_flight_deadlines[c] = in_flight_deadline,
                    !.cancelled_batches[c] = <<>>,
                    !.cancel_reasons[c] = None]
  BY DEF flush_next
<1> HIDE DEF rest, r
<1>6. r \in QueueType
  <2>1. [q.queues EXCEPT ![c] = rest] \in [Channel -> Seq(Event)]
    BY <1>3 DEF QueueOK, QueueType
  <2>2. [q.in_flight_deadlines EXCEPT ![c] = in_flight_deadline] \in [Channel -> Timer]
    BY <1>4 DEF QueueOK, QueueType, Timer
  <2>3. [q.cancelled_batches EXCEPT ![c] = <<>>] \in [Channel -> Seq(Event)]
    BY DEF QueueOK, QueueType
  <2>4. [q.cancel_reasons EXCEPT ![c] = None] \in [Channel -> CancelReason \cup {None}]
    BY DEF QueueOK, QueueType
  <2> QED
    BY <2>1, <2>2, <2>3, <2>4, <1>5 DEF QueueOK, QueueType
<1>7. \A d \in Channel : Len(r.queues[d]) <= MaxPending
  BY <1>3, <1>5 DEF QueueOK, QueueType
<1>8. \A d \in Channel : d \in r.in_flight_channels <=> r.in_flight_deadlines[d] # None
  BY <1>4, <1>5 DEF QueueOK, QueueType
<1>9. \A d \in Channel : r.cancelled_batches[d] # <<>> <=> r.cancel_reasons[d] # None
  BY <1>5 DEF QueueOK, QueueType
<1> QED
  BY <1>5, <1>6, <1>7, <1>8, <1>9 DEF QueueOK, QueueType, r

\* The batch of a channel that flush_next may pick is not empty.
LEMMA FlushedBatchType ==
  ASSUME NEW q, QueueOK(q), NEW c \in FlushChannels(q)
  PROVE  /\ c \in Channel
         /\ FlushedBatch(q, c) \in FlushBatch
         /\ FlushedBatch(q, c).events # <<>>
<1>1. c \in Channel /\ (c \in Ready(q) \/ c \in CancelledOnly(q))
  BY DEF FlushChannels, Ready, CancelledOnly
<1>2. /\ q.queues[c] \in Seq(Event)
      /\ q.cancelled_batches[c] \in Seq(Event)
      /\ q.cancel_reasons[c] \in CancelReason \cup {None}
  BY <1>1 DEF QueueOK, QueueType
<1>3. CASE c \in Ready(q)
  <2> DEFINE head == SubSeq(q.queues[c], 1, DrainCount(q, c))
  <2>1. q.queues[c] # <<>>
    BY <1>3 DEF Ready
  <2>2. DrainCount(q, c) \in 1..Len(q.queues[c])
    BY <1>2, <2>1, QueueConstants DEF DrainCount
  <2>3. head \in Seq(Event) /\ Len(head) = DrainCount(q, c)
    BY <1>2, <2>2
  <2>4. /\ sort_by_created_at(head) \in Seq(Event)
        /\ Len(sort_by_created_at(head)) = DrainCount(q, c)
    BY <2>3, SortType
  <2>5. sort_by_created_at(head) # <<>>
    BY <2>2, <2>4, <1>2
  <2>6. FlushedBatch(q, c) =
          [channel_id       |-> c,
           events           |-> sort_by_created_at(head),
           cancelled_events |-> q.cancelled_batches[c],
           cancel_reason    |-> IF q.cancelled_batches[c] = <<>>
                                THEN None ELSE q.cancel_reasons[c]]
    BY <1>3 DEF FlushedBatch
  <2> HIDE DEF head
  <2> QED
    BY <1>1, <1>2, <2>4, <2>5, <2>6 DEF FlushBatch
<1>4. CASE c \notin Ready(q)
  <2>1. q.cancelled_batches[c] # <<>>
    BY <1>1, <1>4 DEF CancelledOnly
  <2> QED
    BY <1>1, <1>2, <1>4, <2>1 DEF FlushedBatch, FlushBatch
<1> QED
  BY <1>1, <1>3, <1>4

\* mark_complete releases the channel and keeps the attempts of a throttled one.
LEMMA MarkCompleteOK ==
  ASSUME NEW q, QueueOK(q), NEW c \in Channel
  PROVE  QueueOK(mark_complete(q, c))
<1> DEFINE r == mark_complete(q, c)
           t == IF Throttled(q, c) THEN q.retry_after[c] ELSE None
           n == IF Throttled(q, c) THEN q.retry_counts[c] ELSE 0
<1>1. r = [q EXCEPT !.in_flight_channels = @ \ {c},
                    !.in_flight_deadlines[c] = None,
                    !.retry_after[c] = t,
                    !.retry_counts[c] = n]
  BY DEF mark_complete
<1>2. t \in Timer /\ n \in Nat /\ n <= MaxRetries /\ (t # None => n > 0)
  BY QueueConstants DEF QueueOK, QueueType, Timer
<1> HIDE DEF r, t, n
<1>3. r \in QueueType
  <2>1. [q.in_flight_deadlines EXCEPT ![c] = None] \in [Channel -> Timer]
    BY DEF QueueOK, QueueType, Timer
  <2>2. [q.retry_after EXCEPT ![c] = t] \in [Channel -> Timer]
    BY <1>2 DEF QueueOK, QueueType
  <2>3. [q.retry_counts EXCEPT ![c] = n] \in [Channel -> Nat]
    BY <1>2 DEF QueueOK, QueueType
  <2> QED
    BY <1>1, <2>1, <2>2, <2>3 DEF QueueOK, QueueType
<1>4. \A d \in Channel : d \in r.in_flight_channels <=> r.in_flight_deadlines[d] # None
  BY <1>1 DEF QueueOK, QueueType
<1>5. \A d \in Channel : /\ r.retry_counts[d] <= MaxRetries
                         /\ r.retry_after[d] # None => r.retry_counts[d] > 0
  BY <1>1, <1>2 DEF QueueOK, QueueType
<1>6. r.queues = q.queues /\ r.cancelled_batches = q.cancelled_batches
        /\ r.cancel_reasons = q.cancel_reasons
  BY <1>1 DEF QueueOK, QueueType
<1>7. QueueOK(r)
  BY <1>3, <1>4, <1>5, <1>6 DEF QueueOK
<1> QED
  BY <1>7 DEF r

\* requeue counts an attempt that is within the limit, and forgets the attempts
\* of a batch that it gives up.
LEMMA RequeueOK ==
  ASSUME NEW q, QueueOK(q), NEW b \in FlushBatch, NEW delay,
         Exhausted(q, b) \/ delay \in Nat \ {0}
  PROVE  QueueOK(requeue(q, b, delay))
<1> DEFINE c == b.channel_id
           p == push_front(q, c, b.events)
<1>1. c \in Channel /\ b.events \in Seq(Event)
  BY DEF FlushBatch
<1>2. CASE Exhausted(q, b)
  <2> DEFINE r == [q EXCEPT !.retry_counts[c] = 0, !.retry_after[c] = None]
  <2>1. requeue(q, b, delay) = r
    BY <1>2 DEF requeue
  <2>2. r \in QueueType
    BY <1>1 DEF QueueOK, QueueType, Timer
  <2>3. \A d \in Channel : /\ r.retry_counts[d] <= MaxRetries
                           /\ r.retry_after[d] # None => r.retry_counts[d] > 0
    BY <1>1, QueueConstants DEF QueueOK, QueueType
  <2>4. QueueOK(r)
    BY <2>2, <2>3 DEF QueueOK
  <2> QED
    BY <2>1, <2>4
<1>3. CASE ~Exhausted(q, b)
  <2> DEFINE r == [p EXCEPT !.retry_counts[c] = @ + 1, !.retry_after[c] = delay]
  <2>1. requeue(q, b, delay) = r
    BY <1>3 DEF requeue
  <2>2. QueueOK(p)
    BY <1>1, PushFrontOK
  <2>3. p.retry_counts = q.retry_counts
    BY DEF push_front, QueueOK, QueueType
  <2>4. q.retry_counts[c] \in Nat /\ q.retry_counts[c] + 1 <= MaxRetries
    BY <1>1, <1>3, QueueConstants DEF Exhausted, QueueOK, QueueType
  <2>5. delay \in Nat \ {0} /\ delay # None
    BY <1>3, QueueConstants
  <2> HIDE DEF p
  <2>6. r \in QueueType
    <3>1. [p.retry_counts EXCEPT ![c] = @ + 1] \in [Channel -> Nat]
      <4>1. p.retry_counts \in [Channel -> Nat]
        BY <2>2 DEF QueueOK, QueueType
      <4>2. p.retry_counts[c] + 1 \in Nat
        BY <1>1, <4>1
      <4> QED
        BY <4>1, <4>2
    <3>2. [p.retry_after EXCEPT ![c] = delay] \in [Channel -> Timer]
      BY <2>2, <2>5 DEF QueueOK, QueueType, Timer
    <3> QED
      BY <2>2, <3>1, <3>2 DEF QueueOK, QueueType
  <2>7. \A d \in Channel : /\ r.retry_counts[d] <= MaxRetries
                           /\ r.retry_after[d] # None => r.retry_counts[d] > 0
    BY <1>1, <2>2, <2>3, <2>4, <2>5, SMTT(40) DEF QueueOK, QueueType
  <2>8. QueueOK(r)
    BY <2>2, <2>6, <2>7 DEF QueueOK
  <2> QED
    BY <2>1, <2>8
<1> QED
  BY <1>2, <1>3

\* A cancelled batch is put aside together with the reason.
LEMMA RequeueAsCancelledOK ==
  ASSUME NEW q, QueueOK(q), NEW b \in FlushBatch, b.events # <<>>,
         NEW reason \in CancelReason
  PROVE  QueueOK(requeue_as_cancelled(q, b, reason))
<1> DEFINE c == b.channel_id
           s == q.cancelled_batches[c] \o b.cancelled_events \o b.events
           r == [q EXCEPT !.cancelled_batches[c] = s, !.cancel_reasons[c] = reason]
<1>1. /\ c \in Channel
      /\ b.events \in Seq(Event)
      /\ b.cancelled_events \in Seq(Event)
      /\ q.cancelled_batches[c] \in Seq(Event)
  BY DEF FlushBatch, QueueOK, QueueType
<1>2. q.cancelled_batches[c] \o b.cancelled_events \in Seq(Event)
  BY <1>1, ConcatProperties
<1>3. s \in Seq(Event) /\ s # <<>>
  BY <1>1, <1>2, ConcatProperties, ConcatEqualIffEmpty
<1>4. requeue_as_cancelled(q, b, reason) = r
  BY DEF requeue_as_cancelled
<1>5. reason # None
  BY NoneIsNoReason DEF CancelReason
<1> HIDE DEF c, s
<1>6. r \in QueueType
  BY <1>1, <1>3 DEF QueueOK, QueueType
<1>7. \A d \in Channel : r.cancelled_batches[d] # <<>> <=> r.cancel_reasons[d] # None
  BY <1>1, <1>3, <1>5 DEF QueueOK, QueueType
<1>8. QueueOK(r)
  BY <1>6, <1>7 DEF QueueOK
<1> QED
  BY <1>4, <1>8

-----------------------------------------------------------------------------
(* Steering and housekeeping *)

\* Any change of the withheld events leaves the tables in agreement.
LEMMA WithheldOK ==
  ASSUME NEW q, QueueOK(q), NEW c \in Channel, NEW s \in Seq(Event)
  PROVE  QueueOK([q EXCEPT !.withheld_native_steer[c] = s])
BY DEF QueueOK, QueueType

\* Taking an event out of a queue leaves the tables in agreement.
LEMMA DequeueOK ==
  ASSUME NEW q, QueueOK(q), NEW c \in Channel, NEW id
  PROVE  QueueOK([q EXCEPT !.queues[c] = Without(@, id)])
<1>1. q.queues[c] \in Seq(Event) /\ Len(q.queues[c]) <= MaxPending
  BY DEF QueueOK, QueueType
<1>2. Without(q.queues[c], id) \in Seq(Event)
  BY <1>1, WithoutShrinks
<1>3. Len(Without(q.queues[c], id)) <= MaxPending
  <2>1. Len(Without(q.queues[c], id)) <= Len(q.queues[c])
    BY <1>1, WithoutShrinks
  <2> QED
    BY <1>1, <1>2, <2>1, QueueConstants
<1> QED
  BY <1>2, <1>3 DEF QueueOK, QueueType

\* Withholding an event moves it from the queue to the side table.
LEMMA MarkNativeSteerPendingOK ==
  ASSUME NEW q, QueueOK(q), NEW c \in Channel, NEW id \in Ids(q.queues[c])
  PROVE  QueueOK(mark_native_steer_pending(q, c, id))
<1> DEFINE e == q.queues[c][Position(q.queues[c], id)]
           w == Append(q.withheld_native_steer[c], e)
           p == [q EXCEPT !.queues[c] = Without(@, id)]
<1>1. e \in Event
  BY PositionFinds DEF QueueOK, QueueType
<1>2. w \in Seq(Event)
  BY <1>1 DEF QueueOK, QueueType
<1>3. QueueOK(p)
  BY DequeueOK
<1>4. QueueOK([p EXCEPT !.withheld_native_steer[c] = w])
  BY <1>2, <1>3, WithheldOK
<1>5. mark_native_steer_pending(q, c, id) = [p EXCEPT !.withheld_native_steer[c] = w]
  BY DEF mark_native_steer_pending, QueueOK, QueueType
<1> QED
  BY <1>4, <1>5

\* A released event comes back to the front of a queue within the cap.
LEMMA ReleaseNativeSteerOK ==
  ASSUME NEW q, QueueOK(q), NEW c \in Channel, NEW id \in Ids(q.withheld_native_steer[c])
  PROVE  QueueOK(release_native_steer(q, c, id))
<1> DEFINE w == q.withheld_native_steer[c]
           e == w[Position(w, id)]
           p == [q EXCEPT !.withheld_native_steer[c] = Without(@, id)]
<1>1. w \in Seq(Event)
  BY DEF QueueOK, QueueType
<1>2. e \in Event /\ Without(w, id) \in Seq(Event)
  BY <1>1, PositionFinds, WithoutShrinks
<1>3. QueueOK(p)
  BY <1>2, WithheldOK
<1>4. <<e>> \in Seq(Event)
  BY <1>2
<1>5. QueueOK(push_front(p, c, <<e>>))
  BY <1>3, <1>4, PushFrontOK
<1>6. release_native_steer(q, c, id) = push_front(p, c, <<e>>)
  BY DEF release_native_steer
<1> QED
  BY <1>5, <1>6

\* A steered event is taken out of both tables and nothing else changes.
LEMMA RemoveEventOK ==
  ASSUME NEW q, QueueOK(q), NEW c \in Channel, NEW id
  PROVE  QueueOK(remove_event(q, c, id))
<1> DEFINE w == q.withheld_native_steer[c]
           p == [q EXCEPT !.withheld_native_steer[c] = Without(@, id)]
<1>1. Without(w, id) \in Seq(Event)
  BY WithoutShrinks DEF QueueOK, QueueType
<1>2. QueueOK(p)
  BY <1>1, WithheldOK
<1>3. QueueOK([p EXCEPT !.queues[c] = Without(@, id)])
  BY <1>2, DequeueOK
<1>4. remove_event(q, c, id) = [p EXCEPT !.queues[c] = Without(@, id)]
  BY DEF remove_event
<1> QED
  BY <1>3, <1>4

\* A deadline is moved only where there is one.
LEMMA ExtendOK ==
  ASSUME NEW q, QueueOK(q), NEW c \in Channel
  PROVE  QueueOK(extend_in_flight_deadline(q, c))
<1> DEFINE t == q.in_flight_deadlines[c]
           u == IF t = None \/ t > in_flight_deadline THEN t ELSE in_flight_deadline
           r == [q EXCEPT !.in_flight_deadlines[c] = u]
<1>1. t \in Timer
  BY DEF QueueOK, QueueType
<1>2. in_flight_deadline \in Nat /\ in_flight_deadline # None
  BY QueueConstants DEF in_flight_deadline
<1>3. u \in Timer /\ (u = None <=> t = None)
  BY <1>1, <1>2 DEF Timer
<1>4. extend_in_flight_deadline(q, c) = r
  BY DEF extend_in_flight_deadline
<1> HIDE DEF u
<1>5. r \in QueueType
  BY <1>3 DEF QueueOK, QueueType
<1>6. \A d \in Channel : d \in r.in_flight_channels <=> r.in_flight_deadlines[d] # None
  BY <1>3 DEF QueueOK, QueueType
<1>7. QueueOK(r)
  BY <1>5, <1>6 DEF QueueOK
<1> QED
  BY <1>4, <1>7

\* drain_channel keeps the deadline of a turn that is still running.
LEMMA DrainOK ==
  ASSUME NEW q, QueueOK(q), NEW c \in Channel
  PROVE  QueueOK(drain_channel(q, c))
<1> DEFINE r == drain_channel(q, c)
<1>1. r \in QueueType
  <2>1. /\ [q.queues EXCEPT ![c] = <<>>] \in [Channel -> Seq(Event)]
        /\ [q.cancelled_batches EXCEPT ![c] = <<>>] \in [Channel -> Seq(Event)]
        /\ [q.withheld_native_steer EXCEPT ![c] = <<>>] \in [Channel -> Seq(Event)]
    BY DEF QueueOK, QueueType
  <2>2. /\ [q.retry_after EXCEPT ![c] = None] \in [Channel -> Timer]
        /\ [q.retry_counts EXCEPT ![c] = 0] \in [Channel -> Nat]
    BY DEF QueueOK, QueueType, Timer
  <2>3. [q.cancel_reasons EXCEPT ![c] = None] \in [Channel -> CancelReason \cup {None}]
    BY DEF QueueOK, QueueType
  <2> QED
    BY <2>1, <2>2, <2>3 DEF drain_channel, QueueOK, QueueType
<1>2. \A d \in Channel : Len(r.queues[d]) <= MaxPending
  BY QueueConstants DEF drain_channel, QueueOK, QueueType
<1>3. \A d \in Channel : d \in r.in_flight_channels <=> r.in_flight_deadlines[d] # None
  BY DEF drain_channel, QueueOK, QueueType
<1>4. \A d \in Channel : r.cancelled_batches[d] # <<>> <=> r.cancel_reasons[d] # None
  BY DEF drain_channel, QueueOK, QueueType
<1>5. \A d \in Channel : /\ r.retry_counts[d] <= MaxRetries
                         /\ r.retry_after[d] # None => r.retry_counts[d] > 0
  BY QueueConstants DEF drain_channel, QueueOK, QueueType
<1> QED
  BY <1>1, <1>2, <1>3, <1>4, <1>5 DEF QueueOK

\* compact_expired_state forgets no attempt of a channel that is still throttled.
LEMMA CompactOK ==
  ASSUME NEW q, QueueOK(q)
  PROVE  QueueOK(compact_expired_state(q))
<1> DEFINE r == compact_expired_state(q)
<1>1. r \in QueueType
  <2>1. [c \in Channel |-> IF Throttled(q, c) THEN q.retry_after[c] ELSE None]
          \in [Channel -> Timer]
    BY DEF QueueOK, QueueType, Timer
  <2>2. [c \in Channel |-> IF \/ Throttled(q, c)
                              \/ q.queues[c] # <<>>
                              \/ c \in q.in_flight_channels
                           THEN q.retry_counts[c] ELSE 0] \in [Channel -> Nat]
    BY DEF QueueOK, QueueType
  <2> QED
    BY <2>1, <2>2 DEF compact_expired_state, QueueOK, QueueType
<1>2. \A d \in Channel : /\ r.retry_counts[d] <= MaxRetries
                         /\ r.retry_after[d] # None => r.retry_counts[d] > 0
  BY QueueConstants DEF compact_expired_state, QueueOK, QueueType
<1>3. /\ r.queues = q.queues
      /\ r.in_flight_channels = q.in_flight_channels
      /\ r.in_flight_deadlines = q.in_flight_deadlines
      /\ r.cancelled_batches = q.cancelled_batches
      /\ r.cancel_reasons = q.cancel_reasons
  BY DEF compact_expired_state, QueueOK, QueueType
<1> QED
  BY <1>1, <1>2, <1>3 DEF QueueOK

-----------------------------------------------------------------------------
(* Which events a sequence holds, and that it holds none twice *)

\* No event is in s twice.
Distinct(s) == \A i, j \in 1..Len(s) : s[i].id = s[j].id => i = j

\* No event is in both sequences.
Apart(s, t) == Ids(s) \cap Ids(t) = {}

\* The empty sequence holds nothing.
LEMMA EmptyIds == Ids(<<>>) = {} /\ Distinct(<<>>)
BY DEF Ids, Distinct

\* A single event is held once.
LEMMA SingleIds ==
  ASSUME NEW e \in Event
  PROVE  Ids(<<e>>) = {e.id} /\ Distinct(<<e>>)
BY DEF Ids, Distinct

\* Joining two sequences joins what they hold; nothing is in the result twice
\* exactly if nothing was in either twice or in both.
LEMMA ConcatIds ==
  ASSUME NEW s \in Seq(Event), NEW t \in Seq(Event)
  PROVE  /\ s \o t \in Seq(Event)
         /\ Ids(s \o t) = Ids(s) \cup Ids(t)
         /\ Distinct(s \o t) <=> Distinct(s) /\ Distinct(t) /\ Apart(s, t)
<1> DEFINE u == s \o t
           m == Len(s)
           n == Len(t)
<1>1. /\ u \in Seq(Event) /\ Len(u) = m + n /\ m \in Nat /\ n \in Nat
      /\ \A i \in 1..m : u[i] = s[i]
      /\ \A i \in 1..n : u[m + i] = t[i]
  BY ConcatProperties
<1>2. \A i \in 1..Len(u) : \/ i \in 1..m /\ u[i] = s[i]
                           \/ i - m \in 1..n /\ u[i] = t[i - m]
  <2> TAKE i \in 1..Len(u)
  <2>1. CASE i \in 1..m
    BY <1>1, <2>1
  <2>2. CASE i \notin 1..m
    <3>1. i - m \in 1..n /\ i = m + (i - m)
      BY <1>1, <2>2
    <3> QED
      BY <1>1, <3>1
  <2> QED
    BY <2>1, <2>2
<1>3. (\A i \in 1..m : i \in 1..Len(u)) /\ (\A i \in 1..n : m + i \in 1..Len(u))
  BY <1>1
<1> HIDE DEF u, m, n
<1>4. Ids(u) = Ids(s) \cup Ids(t)
  <2>1. Ids(u) \subseteq Ids(s) \cup Ids(t)
    <3> SUFFICES ASSUME NEW i \in 1..Len(u) PROVE u[i].id \in Ids(s) \cup Ids(t)
      BY DEF Ids
    <3> QED
      BY <1>2 DEF Ids, m, n
  <2>2. Ids(s) \subseteq Ids(u)
    BY <1>1, <1>3 DEF Ids, m
  <2>3. Ids(t) \subseteq Ids(u)
    BY <1>1, <1>3 DEF Ids, n
  <2> QED
    BY <2>1, <2>2, <2>3
<1>5. ASSUME Distinct(u) PROVE Distinct(s) /\ Distinct(t) /\ Apart(s, t)
  <2>1. Distinct(s)
    BY <1>1, <1>3, <1>5 DEF Distinct, m
  <2>2. Distinct(t)
    <3> SUFFICES ASSUME NEW i \in 1..n, NEW j \in 1..n, t[i].id = t[j].id
                 PROVE  i = j
      BY DEF Distinct, n
    <3>1. u[m + i].id = u[m + j].id /\ m + i \in 1..Len(u) /\ m + j \in 1..Len(u)
      BY <1>1, <1>3
    <3>2. m + i = m + j
      BY <3>1, <1>5 DEF Distinct
    <3> QED
      BY <3>2, <1>1
  <2>3. Apart(s, t)
    <3> SUFFICES ASSUME NEW i \in 1..m, NEW j \in 1..n, s[i].id = t[j].id
                 PROVE  FALSE
      BY DEF Apart, Ids, m, n
    <3>1. u[i].id = u[m + j].id /\ i \in 1..Len(u) /\ m + j \in 1..Len(u)
      BY <1>1, <1>3
    <3>2. i = m + j
      BY <3>1, <1>5 DEF Distinct
    <3> QED
      BY <3>2, <1>1
  <2> QED
    BY <2>1, <2>2, <2>3
<1>6. ASSUME Distinct(s), Distinct(t), Apart(s, t) PROVE Distinct(u)
  <2> SUFFICES ASSUME NEW i \in 1..Len(u), NEW j \in 1..Len(u), u[i].id = u[j].id
               PROVE  i = j
    BY DEF Distinct
  <2>1. \A k \in 1..m, l \in 1..n : s[k].id # t[l].id
    BY <1>6 DEF Apart, Ids, m, n
  <2>2. CASE i \in 1..m /\ u[i] = s[i] /\ j \in 1..m /\ u[j] = s[j]
    BY <1>6, <2>2 DEF Distinct, m
  <2>3. CASE i - m \in 1..n /\ u[i] = t[i - m] /\ j - m \in 1..n /\ u[j] = t[j - m]
    <3>1. i - m = j - m
      BY <1>6, <2>3 DEF Distinct, n
    <3> QED
      BY <3>1, <1>1
  <2>4. CASE i \in 1..m /\ u[i] = s[i] /\ j - m \in 1..n /\ u[j] = t[j - m]
    BY <2>1, <2>4
  <2>5. CASE i - m \in 1..n /\ u[i] = t[i - m] /\ j \in 1..m /\ u[j] = s[j]
    BY <2>1, <2>5
  <2> QED
    BY <1>2, <2>2, <2>3, <2>4, <2>5
<1> QED
  BY <1>1, <1>4, <1>5, <1>6 DEF u

\* A sequence is its first n events and the others.
LEMMA SplitIds ==
  ASSUME NEW s \in Seq(Event), NEW n \in 0..Len(s)
  PROVE  /\ SubSeq(s, 1, n) \in Seq(Event)
         /\ SubSeq(s, n + 1, Len(s)) \in Seq(Event)
         /\ Ids(s) = Ids(SubSeq(s, 1, n)) \cup Ids(SubSeq(s, n + 1, Len(s)))
         /\ Distinct(s) => /\ Distinct(SubSeq(s, 1, n))
                           /\ Distinct(SubSeq(s, n + 1, Len(s)))
                           /\ Apart(SubSeq(s, 1, n), SubSeq(s, n + 1, Len(s)))
<1>1. SubSeq(s, 1, n) \in Seq(Event) /\ SubSeq(s, n + 1, Len(s)) \in Seq(Event)
  OBVIOUS
<1>2. SubSeq(s, 1, n) \o SubSeq(s, n + 1, Len(s)) = s
  <2>0. 1 \in 1..Len(s) + 1 /\ n \in 1 - 1..Len(s) /\ Len(s) \in n..Len(s)
    OBVIOUS
  <2>1. SubSeq(s, 1, n) \o SubSeq(s, n + 1, Len(s)) = SubSeq(s, 1, Len(s))
    BY <2>0, ConcatAdjacentSubSeq, Zenon
  <2> QED
    BY <2>1, SubSeqFull
<1> DEFINE a == SubSeq(s, 1, n)
           z == SubSeq(s, n + 1, Len(s))
<1> HIDE DEF a, z
<1>3. a \in Seq(Event) /\ z \in Seq(Event) /\ a \o z = s
  BY <1>1, <1>2 DEF a, z
<1>4. /\ Ids(s) = Ids(a) \cup Ids(z)
      /\ Distinct(s) => Distinct(a) /\ Distinct(z) /\ Apart(a, z)
  BY <1>3, ConcatIds
<1> QED
  BY <1>1, <1>4 DEF a, z

\* What trim_back cuts off, and what it leaves, is what there was.
LEMMA TrimIds ==
  ASSUME NEW s \in Seq(Event)
  PROVE  /\ Ids(s) = Ids(trim_back(s)) \cup Trimmed(s)
         /\ Distinct(s) => /\ Distinct(trim_back(s))
                           /\ Ids(trim_back(s)) \cap Trimmed(s) = {}
         /\ Len(s) <= MaxPending => trim_back(s) = s /\ Trimmed(s) = {}
<1>1. CASE Len(s) > MaxPending
  BY <1>1, SplitIds, QueueConstants DEF trim_back, Trimmed, Apart
<1>2. CASE ~(Len(s) > MaxPending)
  <2>1. SubSeq(s, MaxPending + 1, Len(s)) = <<>>
    BY <1>2, QueueConstants, SubSeqEmpty
  <2> QED
    BY <1>2, <2>1, EmptyIds, QueueConstants DEF trim_back, Trimmed
<1>3. Len(s) <= MaxPending => ~(Len(s) > MaxPending)
  BY QueueConstants
<1> QED
  BY <1>1, <1>2, <1>3, QueueConstants

\* Taking an event out of a sequence that holds it once leaves all the others.
LEMMA WithoutIds ==
  ASSUME NEW s \in Seq(Event), Distinct(s), NEW id
  PROVE  Ids(Without(s, id)) = Ids(s) \ {id} /\ Distinct(Without(s, id))
<1>1. CASE id \in Ids(s)
  <2> DEFINE p == Position(s, id)
             front == SubSeq(s, 1, p - 1)
             rest == SubSeq(s, p + 1, Len(s))
  <2>1. p \in 1..Len(s) /\ s[p] \in Event /\ s[p].id = id
    <3>1. \E i \in 1..Len(s) : s[i].id = id
      BY <1>1 DEF Ids
    <3> QED
      BY <3>1 DEF Position
  <2>2. Without(s, id) = front \o rest
    BY <1>1 DEF Without
  <2> HIDE DEF p
  <2>3. front \in Seq(Event) /\ rest \in Seq(Event) /\ <<s[p]>> \in Seq(Event)
    BY <2>1
  <2>4. s = front \o (<<s[p]>> \o rest) /\ <<s[p]>> \o rest \in Seq(Event)
    <3>1. SubSeq(s, p, Len(s)) = <<s[p]>> \o rest
      BY <2>1, SubSeqRecursiveFirst
    <3>2. p - 1 \in 0..Len(s) /\ (p - 1) + 1 = p
      BY <2>1
    <3>3. front \o SubSeq(s, (p - 1) + 1, Len(s)) = SubSeq(s, 1, Len(s))
      BY <3>2, ConcatAdjacentSubSeq, SMTT(40)
    <3>4. SubSeq(s, 1, Len(s)) = s
      BY SubSeqFull
    <3> QED
      BY <2>3, <3>1, <3>2, <3>3, <3>4, ConcatProperties
  <2> HIDE DEF front, rest
  <2>5. Ids(<<s[p]>>) = {id}
    BY <2>1, SingleIds
  <2>6. /\ Ids(s) = Ids(front) \cup Ids(<<s[p]>> \o rest)
        /\ Distinct(front) /\ Distinct(<<s[p]>> \o rest) /\ Apart(front, <<s[p]>> \o rest)
    BY <2>3, <2>4, ConcatIds, ZenonT(60)
  <2>7. /\ Ids(<<s[p]>> \o rest) = {id} \cup Ids(rest)
        /\ Distinct(rest) /\ id \notin Ids(rest)
    <3> DEFINE x == <<s[p]>>
    <3> HIDE DEF x
    <3>1. /\ Ids(x \o rest) = Ids(x) \cup Ids(rest)
          /\ Distinct(x \o rest) => Distinct(rest) /\ Apart(x, rest)
      BY <2>3, ConcatIds DEF x
    <3>2. Ids(x) = {id} /\ Distinct(x \o rest)
      BY <2>5, <2>6 DEF x
    <3>3. /\ Ids(x \o rest) = {id} \cup Ids(rest)
          /\ Distinct(rest) /\ id \notin Ids(rest)
      BY <3>1, <3>2 DEF Apart
    <3> QED
      BY <3>3 DEF x
  <2>8. Apart(front, rest) /\ id \notin Ids(front)
    BY <2>6, <2>7 DEF Apart
  <2> QED
    BY <2>2, <2>3, <2>6, <2>7, <2>8, ConcatIds
<1>2. CASE id \notin Ids(s)
  BY <1>2 DEF Without
<1> QED
  BY <1>1, <1>2

\* Sorting a batch neither loses nor doubles an event.
LEMMA SortIds ==
  ASSUME NEW s \in Seq(Event)
  PROVE  /\ Ids(sort_by_created_at(s)) = Ids(s)
         /\ Distinct(s) => Distinct(sort_by_created_at(s))
<1> DEFINE At(k) == CHOOSE i \in 1..Len(s) : Rank(s, i) = k
           r == sort_by_created_at(s)
<1>1. \A k \in 1..Len(s) : At(k) \in 1..Len(s) /\ Rank(s, At(k)) = k
  BY RankIsPermutation
<1>2. r = [k \in 1..Len(s) |-> s[At(k)]] /\ Len(r) = Len(s)
  BY SortType DEF sort_by_created_at
<1>3. \A i \in 1..Len(s) : \E k \in 1..Len(s) : At(k) = i
  <2> TAKE i \in 1..Len(s)
  <2>1. Rank(s, i) \in 1..Len(s) /\ At(Rank(s, i)) = i
    BY <1>1, RankIsPermutation
  <2> QED
    BY <2>1
<1> HIDE DEF At, r
<1>4. Ids(r) = Ids(s)
  BY <1>1, <1>2, <1>3 DEF Ids
<1>5. ASSUME Distinct(s) PROVE Distinct(r)
  BY <1>1, <1>2, <1>5 DEF Distinct
<1> QED
  BY <1>4, <1>5 DEF r

\* A sequence that holds no event twice holds as many as it is long.
LEMMA DistinctCount ==
  ASSUME NEW s \in Seq(Event), Distinct(s)
  PROVE  Cardinality(Ids(s)) = Len(s)
<1> DEFINE n == Len(s)
           f == [i \in 1..n |-> s[i].id]
<1>1. n \in Nat
  OBVIOUS
<1>2. IsFiniteSet(1..n) /\ Cardinality(1..n) = n
  <2> HIDE DEF n
  <2>1. 1 \in Int /\ n \in Int
    BY <1>1
  <2>2. /\ IsFiniteSet(1..n)
        /\ Cardinality(1..n) = IF 1 > n THEN 0 ELSE n - 1 + 1
    BY <2>1, FS_Interval
  <2> QED
    BY <1>1, <2>2
<1>3. f \in Bijection(1..n, Ids(s))
  <2>1. f \in Injection(1..n, Ids(s))
    BY DEF Injection, IsInjective, Ids, Distinct
  <2>2. f \in Surjection(1..n, Ids(s))
    BY DEF Surjection, Ids
  <2> QED
    BY <2>1, <2>2 DEF Bijection
<1>4. Cardinality(Ids(s)) = Cardinality(1..n)
  BY <1>2, <1>3, FS_Bijection DEF ExistsBijection
<1> QED
  BY <1>2, <1>4

-----------------------------------------------------------------------------
(* Where a queue value holds its events *)

\* The events that the queue holds for channel c.
ChannelIds(q, c) == Ids(q.queues[c]) \cup Ids(q.withheld_native_steer[c])
                                     \cup Ids(q.cancelled_batches[c])

\* All events that the queue holds.
AllIds(q) == UNION {ChannelIds(q, c) : c \in Channel}

\* The tables of channel c hold no event twice.
NeatAt(q, c) ==
  /\ Distinct(q.queues[c])
  /\ Distinct(q.withheld_native_steer[c])
  /\ Distinct(q.cancelled_batches[c])
  /\ Apart(q.queues[c], q.withheld_native_steer[c])
  /\ Apart(q.queues[c], q.cancelled_batches[c])
  /\ Apart(q.withheld_native_steer[c], q.cancelled_batches[c])

\* The queue holds no event twice.
Neat(q) ==
  /\ \A c \in Channel : NeatAt(q, c)
  /\ \A c, d \in Channel : c # d => ChannelIds(q, c) \cap ChannelIds(q, d) = {}

\* The events of channel d are where they were.
SameAt(r, q, d) ==
  /\ r.queues[d] = q.queues[d]
  /\ r.withheld_native_steer[d] = q.withheld_native_steer[d]
  /\ r.cancelled_batches[d] = q.cancelled_batches[d]

\* A method that works on the tables of one channel, brings in events that the
\* queue does not hold and takes some out, does that to the whole queue.
LEMMA ChangeOne ==
  ASSUME NEW q, Neat(q), NEW r, NEW c \in Channel, NEW add, NEW del,
         \A d \in Channel \ {c} : SameAt(r, q, d),
         NeatAt(r, c),
         add \cap AllIds(q) = {},
         del \subseteq ChannelIds(q, c) \cup add,
         ChannelIds(r, c) = (ChannelIds(q, c) \cup add) \ del
  PROVE  Neat(r) /\ AllIds(r) = (AllIds(q) \cup add) \ del
<1>1. \A d \in Channel \ {c} : ChannelIds(r, d) = ChannelIds(q, d) /\ NeatAt(r, d)
  BY DEF SameAt, ChannelIds, Neat, NeatAt
<1>2. \A d \in Channel : ChannelIds(q, d) \subseteq AllIds(q)
  BY DEF AllIds
<1>3. \A d, e \in Channel : d # e => ChannelIds(q, d) \cap ChannelIds(q, e) = {}
  BY DEF Neat
<1> HIDE DEF ChannelIds
<1>4. \A d \in Channel \ {c} : ChannelIds(r, c) \cap ChannelIds(r, d) = {}
  BY <1>1, <1>2, <1>3
<1>5. \A d, e \in Channel : d # e => ChannelIds(r, d) \cap ChannelIds(r, e) = {}
  BY <1>1, <1>3, <1>4
<1>6. \A d \in Channel : NeatAt(r, d)
  BY <1>1
<1>7. Neat(r)
  BY <1>5, <1>6 DEF Neat
<1>8. AllIds(r) \subseteq (AllIds(q) \cup add) \ del
  <2> SUFFICES ASSUME NEW d \in Channel, NEW x \in ChannelIds(r, d)
               PROVE  x \in (AllIds(q) \cup add) \ del
    BY DEF AllIds
  <2>1. CASE d = c
    BY <1>2, <2>1
  <2>2. CASE d # c
    BY <1>1, <1>2, <1>3, <2>2
  <2> QED
    BY <2>1, <2>2
<1>9. (AllIds(q) \cup add) \ del \subseteq AllIds(r)
  <2> SUFFICES ASSUME NEW x \in (AllIds(q) \cup add) \ del PROVE x \in AllIds(r)
    OBVIOUS
  <2>1. CASE x \in add
    BY <2>1 DEF AllIds
  <2>2. CASE x \in AllIds(q)
    <3>1. PICK d \in Channel : x \in ChannelIds(q, d)
      BY <2>2 DEF AllIds
    <3>2. x \in ChannelIds(r, d)
      BY <1>1, <3>1
    <3> QED
      BY <3>2 DEF AllIds
  <2> QED
    BY <2>1, <2>2
<1> QED
  BY <1>7, <1>8, <1>9

\* A method that leaves the tables alone moves no event.
LEMMA ChangeNone ==
  ASSUME NEW q, NEW r, \A d \in Channel : SameAt(r, q, d)
  PROVE  /\ AllIds(r) = AllIds(q)
         /\ Neat(q) => Neat(r)
<1>1. \A d \in Channel : ChannelIds(r, d) = ChannelIds(q, d)
  BY DEF SameAt, ChannelIds
<1>2. \A d \in Channel : NeatAt(q, d) => NeatAt(r, d)
  BY DEF SameAt, NeatAt
<1>3. AllIds(r) = AllIds(q)
  BY <1>1 DEF AllIds
<1> QED
  BY <1>1, <1>2, <1>3 DEF Neat

\* A new queue is empty.
LEMMA EmptyQueueNeat == Neat(EmptyQueue) /\ AllIds(EmptyQueue) = {}
<1>1. \A c \in Channel : /\ EmptyQueue.queues[c] = <<>>
                         /\ EmptyQueue.withheld_native_steer[c] = <<>>
                         /\ EmptyQueue.cancelled_batches[c] = <<>>
  BY DEF EmptyQueue
<1>2. \A c \in Channel : ChannelIds(EmptyQueue, c) = {} /\ NeatAt(EmptyQueue, c)
  BY <1>1, EmptyIds DEF ChannelIds, NeatAt, Apart
<1> QED
  BY <1>2 DEF Neat, AllIds

\* mark_complete, the passing of time, compaction and a longer deadline move no
\* event.
LEMMA TimersMoveNothing ==
  ASSUME NEW q, QueueOK(q), NEW c \in Channel
  PROVE  \A d \in Channel : /\ SameAt(mark_complete(q, c), q, d)
                            /\ SameAt(elapse(q), q, d)
                            /\ SameAt(compact_expired_state(q), q, d)
                            /\ SameAt(extend_in_flight_deadline(q, c), q, d)
<1> TAKE d \in Channel
<1>1. SameAt(mark_complete(q, c), q, d)
  BY DEF SameAt, mark_complete, QueueOK, QueueType
<1>2. SameAt(elapse(q), q, d)
  BY DEF SameAt, elapse, QueueOK, QueueType
<1>3. SameAt(compact_expired_state(q), q, d)
  BY DEF SameAt, compact_expired_state, QueueOK, QueueType
<1>4. SameAt(extend_in_flight_deadline(q, c), q, d)
  BY DEF SameAt, extend_in_flight_deadline, QueueOK, QueueType
<1> QED
  BY <1>1, <1>2, <1>3, <1>4

\* push adds the new event and drops what Dropped says.
LEMMA PushMoves ==
  ASSUME NEW q, QueueOK(q), Neat(q), NEW e \in Event, e.id \notin AllIds(q)
  PROVE  /\ Neat(push(q, e))
         /\ AllIds(push(q, e)) = (AllIds(q) \cup {e.id}) \ Dropped(q, e)
         /\ Dropped(q, e) \subseteq AllIds(q) \cup {e.id}
         /\ push(q, e).cancelled_batches = q.cancelled_batches
<1> DEFINE c == e.channel_id
           s == q.queues[c]
           full == Len(s) >= MaxPending
           room == IF full THEN Tail(s) ELSE s
           r == [q EXCEPT !.queues[c] = Append(room, e)]
<1>1. c \in Channel
  BY DEF Event
<1>2. /\ q.queues \in [Channel -> Seq(Event)] /\ s \in Seq(Event)
      /\ ChannelIds(q, c) \subseteq AllIds(q) /\ NeatAt(q, c)
  BY <1>1 DEF QueueOK, QueueType, AllIds, Neat
<1>3. CASE ~Accepts(q, e)
  BY <1>3 DEF push, Dropped
<1>4. CASE Accepts(q, e)
  <2>1. push(q, e) = r /\ Dropped(q, e) = IF full THEN {Head(s).id} ELSE {}
    BY <1>4 DEF push, Dropped
  <2> DEFINE out == IF full THEN {Head(s).id} ELSE {}
  <2>2. room \in Seq(Event) /\ Distinct(room) /\ Ids(room) = Ids(s) \ out /\ out \subseteq Ids(s)
    <3>1. CASE full
      <4>1. s # <<>> /\ Len(s) >= 1 /\ 1 \in 1..Len(s)
        BY <1>2, <3>1, QueueConstants
      <4>2. Tail(s) = SubSeq(s, 1 + 1, Len(s)) /\ s[1] = Head(s) /\ Head(s) \in Event
        BY <1>2, <4>1
      <4>3. SubSeq(s, 1, 1) = <<s[1]>>
        <5>1. SubSeq(s, 1, 1) = <<s[1]>> \o SubSeq(s, 2, 1)
          BY <1>2, <4>1, SubSeqRecursiveFirst
        <5>2. SubSeq(s, 2, 1) = <<>>
          BY SubSeqEmpty
        <5>3. <<s[1]>> \in Seq(Event)
          BY <4>2
        <5> QED
          BY <5>1, <5>2, <5>3, ConcatEmptySeq
      <4>4. Ids(<<s[1]>>) = {s[1].id}
        BY <4>2, SingleIds
      <4>5. 1 \in 0..Len(s) /\ Distinct(s)
        BY <1>2, <4>1 DEF NeatAt
      <4>6. /\ Tail(s) \in Seq(Event) /\ Ids(s) = {s[1].id} \cup Ids(Tail(s))
            /\ Distinct(Tail(s)) /\ {s[1].id} \cap Ids(Tail(s)) = {}
        <5> HIDE DEF s
        <5>1. /\ SubSeq(s, 1 + 1, Len(s)) \in Seq(Event)
              /\ Ids(s) = Ids(SubSeq(s, 1, 1)) \cup Ids(SubSeq(s, 1 + 1, Len(s)))
              /\ Distinct(SubSeq(s, 1 + 1, Len(s)))
              /\ Apart(SubSeq(s, 1, 1), SubSeq(s, 1 + 1, Len(s)))
          BY <1>2, <4>5, SplitIds
        <5> QED
          BY <4>2, <4>3, <4>4, <5>1 DEF Apart
      <4> HIDE DEF s
      <4> QED
        BY <3>1, <4>2, <4>6
    <3>2. CASE ~full
      BY <1>2, <3>2 DEF NeatAt
    <3> QED
      BY <3>1, <3>2
  <2> HIDE DEF room, out
  <2>3. <<e>> \in Seq(Event) /\ Append(room, e) = room \o <<e>>
    BY <2>2
  <2>4. e.id \notin ChannelIds(q, c)
    BY <1>2
  <2>5. /\ Append(room, e) \in Seq(Event) /\ Distinct(Append(room, e))
        /\ Ids(Append(room, e)) = Ids(room) \cup {e.id}
    <3> DEFINE x == <<e>>
    <3>1. x \in Seq(Event) /\ Ids(x) = {e.id} /\ Distinct(x)
      BY <2>3, SingleIds
    <3>2. Append(room, e) = room \o x
      BY <2>3
    <3> HIDE DEF x
    <3>3. Apart(room, x)
      BY <2>2, <2>4, <3>1 DEF Apart, ChannelIds
    <3> QED
      BY <2>2, <3>1, <3>2, <3>3, ConcatIds
  <2>6. /\ r.queues[c] = Append(room, e)
        /\ r.withheld_native_steer = q.withheld_native_steer
        /\ r.cancelled_batches = q.cancelled_batches
        /\ \A d \in Channel \ {c} : SameAt(r, q, d)
    BY <1>1, <1>2 DEF QueueOK, QueueType, SameAt
  <2> HIDE DEF r
  <2>7. NeatAt(r, c)
    BY <1>2, <2>2, <2>4, <2>5, <2>6 DEF NeatAt, Apart, ChannelIds
  <2>8. ChannelIds(r, c) = (ChannelIds(q, c) \cup {e.id}) \ out
    BY <1>2, <2>2, <2>4, <2>5, <2>6 DEF NeatAt, Apart, ChannelIds
  <2>9. out \subseteq ChannelIds(q, c) \cup {e.id}
    BY <2>2 DEF ChannelIds
  <2>10. Neat(r) /\ AllIds(r) = (AllIds(q) \cup {e.id}) \ out
    <3> DEFINE add == {e.id}
    <3>1. add \cap AllIds(q) = {}
      OBVIOUS
    <3> HIDE DEF c, add
    <3>2. out \subseteq ChannelIds(q, c) \cup add
      BY <2>9 DEF add
    <3>3. ChannelIds(r, c) = (ChannelIds(q, c) \cup add) \ out
      BY <2>8 DEF add
    <3>4. Neat(r) /\ AllIds(r) = (AllIds(q) \cup add) \ out
      BY <1>1, <2>6, <2>7, <3>1, <3>2, <3>3, ChangeOne
    <3> QED
      BY <3>4 DEF add
  <2> QED
    BY <1>2, <2>1, <2>6, <2>9, <2>10 DEF out
<1> QED
  BY <1>3, <1>4

\* push_front adds the events given back and drops what the cap cuts off.
LEMMA PushFrontMoves ==
  ASSUME NEW q, QueueOK(q), Neat(q), NEW c \in Channel,
         NEW s \in Seq(Event), Distinct(s), Ids(s) \cap AllIds(q) = {}
  PROVE  /\ Neat(push_front(q, c, s))
         /\ AllIds(push_front(q, c, s)) = (AllIds(q) \cup Ids(s)) \ Trimmed(s \o q.queues[c])
         /\ Trimmed(s \o q.queues[c]) \subseteq AllIds(q) \cup Ids(s)
         /\ push_front(q, c, s).cancelled_batches = q.cancelled_batches
<1> DEFINE t == q.queues[c]
           u == s \o t
           r == push_front(q, c, s)
           out == Trimmed(u)
<1>1. t \in Seq(Event) /\ NeatAt(q, c) /\ ChannelIds(q, c) \subseteq AllIds(q)
  BY DEF QueueOK, QueueType, Neat, AllIds
<1>2. Distinct(t) /\ Apart(s, t)
  BY <1>1 DEF NeatAt, Apart, ChannelIds
<1>3. u \in Seq(Event) /\ Ids(u) = Ids(s) \cup Ids(t) /\ Distinct(u)
  BY <1>1, <1>2, ConcatIds
<1>4. /\ r.queues[c] = trim_back(u)
      /\ r.withheld_native_steer = q.withheld_native_steer
      /\ r.cancelled_batches = q.cancelled_batches
      /\ \A d \in Channel \ {c} : SameAt(r, q, d)
  BY DEF push_front, QueueOK, QueueType, SameAt
<1> HIDE DEF u, r
<1>5. /\ Ids(u) = Ids(trim_back(u)) \cup out /\ Distinct(trim_back(u))
      /\ Ids(trim_back(u)) \cap out = {}
  BY <1>3, TrimIds
<1> HIDE DEF out
<1>6. NeatAt(r, c)
  BY <1>1, <1>3, <1>4, <1>5 DEF NeatAt, Apart, ChannelIds
<1>7. ChannelIds(r, c) = (ChannelIds(q, c) \cup Ids(s)) \ out
  BY <1>1, <1>3, <1>4, <1>5 DEF NeatAt, Apart, ChannelIds
<1>8. out \subseteq ChannelIds(q, c) \cup Ids(s)
  BY <1>3, <1>5 DEF ChannelIds
<1>9. Neat(r) /\ AllIds(r) = (AllIds(q) \cup Ids(s)) \ out
  BY <1>4, <1>6, <1>7, <1>8, ChangeOne
<1> QED
  BY <1>1, <1>4, <1>8, <1>9 DEF r, out, u

\* The expiry gives withheld events back and drops what ExpiryTrimmed says.
LEMMA ExpireMoves ==
  ASSUME NEW q, QueueOK(q), Neat(q)
  PROVE  /\ Neat(expire(q))
         /\ AllIds(expire(q)) = AllIds(q) \ ExpiryTrimmed(q)
         /\ ExpiryTrimmed(q) \subseteq AllIds(q)
         /\ expire(q).cancelled_batches = q.cancelled_batches
<1> DEFINE r == expire(q)
           X == Expired(q)
           out(c) == IF c \in X THEN Trimmed(q.withheld_native_steer[c] \o q.queues[c])
                                ELSE {}
<1>1. /\ r.cancelled_batches = q.cancelled_batches
      /\ \A c \in Channel :
           /\ r.withheld_native_steer[c] = IF c \in X THEN <<>> ELSE q.withheld_native_steer[c]
           /\ r.queues[c] = IF c \in X /\ q.withheld_native_steer[c] # <<>>
                            THEN trim_back(q.withheld_native_steer[c] \o q.queues[c])
                            ELSE q.queues[c]
  BY DEF expire, QueueOK, QueueType
<1>2. \A c \in Channel : /\ q.queues[c] \in Seq(Event) /\ Len(q.queues[c]) <= MaxPending
                         /\ q.withheld_native_steer[c] \in Seq(Event)
                         /\ NeatAt(q, c)
                         /\ ChannelIds(q, c) \subseteq AllIds(q)
  BY DEF QueueOK, QueueType, Neat, AllIds
<1> HIDE DEF r, X
<1>3. ASSUME NEW c \in Channel
      PROVE  /\ NeatAt(r, c) /\ out(c) \subseteq ChannelIds(q, c)
             /\ ChannelIds(r, c) = ChannelIds(q, c) \ out(c)
  <2> DEFINE w == q.withheld_native_steer[c]
             t == q.queues[c]
             u == w \o t
  <2>1. u \in Seq(Event) /\ Ids(u) = Ids(w) \cup Ids(t) /\ Distinct(u)
    <3>1. w \in Seq(Event) /\ t \in Seq(Event) /\ Distinct(w) /\ Distinct(t) /\ Apart(w, t)
      BY <1>2 DEF NeatAt, Apart
    <3> HIDE DEF w, t
    <3> QED
      BY <3>1, ConcatIds
  <2> HIDE DEF u
  <2>2. CASE c \notin X
    BY <1>1, <1>2, <2>2 DEF NeatAt, ChannelIds
  <2>3. CASE c \in X /\ w # <<>>
    <3>1. /\ Ids(u) = Ids(trim_back(u)) \cup Trimmed(u) /\ Distinct(trim_back(u))
          /\ Ids(trim_back(u)) \cap Trimmed(u) = {}
      BY <2>1, TrimIds
    <3>2. r.queues[c] = trim_back(u) /\ r.withheld_native_steer[c] = <<>>
      BY <1>1, <2>3 DEF u
    <3>3. out(c) = Trimmed(u)
      BY <2>3 DEF u
    <3>4. NeatAt(q, c) /\ r.cancelled_batches[c] = q.cancelled_batches[c]
      BY <1>1, <1>2
    <3> HIDE DEF out
    <3> QED
      BY <2>1, <3>1, <3>2, <3>3, <3>4, EmptyIds DEF NeatAt, Apart, ChannelIds
  <2>4. CASE c \in X /\ w = <<>>
    <3>1. u = t
      BY <1>2, <2>4, ConcatEmptySeq DEF u
    <3>2. Trimmed(u) = {}
      BY <1>2, <3>1, TrimIds
    <3>3. out(c) = {}
      BY <2>4, <3>2 DEF u
    <3>4. /\ r.queues[c] = q.queues[c] /\ r.withheld_native_steer[c] = q.withheld_native_steer[c]
          /\ r.cancelled_batches[c] = q.cancelled_batches[c]
      BY <1>1, <2>4
    <3> QED
      BY <1>2, <3>3, <3>4 DEF NeatAt, ChannelIds
  <2> QED
    BY <2>2, <2>3, <2>4
<1>4. ExpiryTrimmed(q) = UNION {out(c) : c \in Channel}
  BY DEF ExpiryTrimmed, Expired, X
<1> HIDE DEF out
<1>5. \A c, d \in Channel : c # d => ChannelIds(q, c) \cap ChannelIds(q, d) = {}
  BY DEF Neat
<1>6. Neat(r)
  BY <1>3, <1>5 DEF Neat
<1>7. AllIds(r) \subseteq AllIds(q) \ ExpiryTrimmed(q)
  <2> SUFFICES ASSUME NEW c \in Channel, NEW x \in ChannelIds(r, c)
               PROVE  x \in AllIds(q) \ ExpiryTrimmed(q)
    BY DEF AllIds
  <2>1. x \in ChannelIds(q, c) /\ x \notin out(c)
    BY <1>3
  <2>2. \A d \in Channel : x \notin out(d)
    BY <1>3, <1>5, <2>1
  <2> QED
    BY <1>2, <1>4, <2>1, <2>2
<1>8. AllIds(q) \ ExpiryTrimmed(q) \subseteq AllIds(r)
  <2> SUFFICES ASSUME NEW c \in Channel, NEW x \in ChannelIds(q, c), x \notin ExpiryTrimmed(q)
               PROVE  x \in AllIds(r)
    BY DEF AllIds
  <2>1. x \in ChannelIds(r, c)
    BY <1>3, <1>4
  <2> QED
    BY <2>1 DEF AllIds
<1>9. ExpiryTrimmed(q) \subseteq AllIds(q)
  BY <1>2, <1>3, <1>4
<1> QED
  BY <1>1, <1>6, <1>7, <1>8, <1>9 DEF r

\* flush_next takes out of the queue what it hands over as the batch, the merged
\* events included, and a batch holds no event twice.
LEMMA FlushMoves ==
  ASSUME NEW q, QueueOK(q), Neat(q), NEW c \in FlushChannels(q)
  PROVE  LET r == flush_next(q, c)
             b == FlushedBatch(q, c)
             T == Ids(b.events) \cup Ids(b.cancelled_events)
         IN  /\ Neat(r) /\ AllIds(r) = AllIds(q) \ T
             /\ T \subseteq AllIds(q) /\ T # {}
             /\ Distinct(b.cancelled_events \o b.events)
             /\ Ids(b.cancelled_events) \subseteq Ids(q.cancelled_batches[c])
             /\ \A d \in Channel : r.cancelled_batches[d] \in {<<>>, q.cancelled_batches[d]}
<1> DEFINE r == flush_next(q, c)
           b == FlushedBatch(q, c)
           T == Ids(b.events) \cup Ids(b.cancelled_events)
           s == q.queues[c]
           w == q.withheld_native_steer[c]
           x == q.cancelled_batches[c]
           n == DrainCount(q, c)
<1>1. c \in Channel /\ (c \in Ready(q) \/ (c \notin Ready(q) /\ x # <<>>))
  BY DEF FlushChannels, Ready, CancelledOnly
<1>2. s \in Seq(Event) /\ x \in Seq(Event) /\ NeatAt(q, c) /\ ChannelIds(q, c) \subseteq AllIds(q)
  BY <1>1 DEF QueueOK, QueueType, Neat, AllIds
<1>3. /\ r.queues[c] = IF c \in Ready(q) THEN SubSeq(s, n + 1, Len(s)) ELSE s
      /\ r.withheld_native_steer[c] = w /\ r.cancelled_batches[c] = <<>>
      /\ \A d \in Channel \ {c} : SameAt(r, q, d)
  BY <1>1 DEF flush_next, QueueOK, QueueType, SameAt
<1>4. b.events \in Seq(Event) /\ b.events # <<>>
  BY FlushedBatchType DEF FlushBatch
<1>5. Ids(b.events) # {}
  <2>1. Len(b.events) \in Nat /\ Len(b.events) # 0
    BY <1>4
  <2>2. 1 \in 1..Len(b.events)
    BY <2>1
  <2> QED
    BY <2>2 DEF Ids
<1>6. /\ NeatAt(r, c) /\ ChannelIds(r, c) = (ChannelIds(q, c) \cup {}) \ T
      /\ T \subseteq ChannelIds(q, c) \cup {}
      /\ Distinct(b.cancelled_events \o b.events)
      /\ Ids(b.cancelled_events) \subseteq Ids(x)
  <2>1. CASE c \in Ready(q)
    <3> DEFINE a == SubSeq(s, 1, n)
               z == SubSeq(s, n + 1, Len(s))
    <3>1. n \in 0..Len(s)
      BY <1>2, QueueConstants DEF DrainCount
    <3>2. /\ a \in Seq(Event) /\ Ids(s) = Ids(a) \cup Ids(z)
          /\ Distinct(a) /\ Distinct(z) /\ Apart(a, z)
      <4> HIDE DEF s, n
      <4>1. Distinct(s)
        BY <1>2 DEF NeatAt, s
      <4> QED
        BY <1>2, <3>1, <4>1, SplitIds
    <3>3. b.events = sort_by_created_at(a) /\ b.cancelled_events = x
      BY <2>1 DEF FlushedBatch
    <3>4. r.queues[c] = z /\ r.withheld_native_steer[c] = w /\ r.cancelled_batches[c] = <<>>
      BY <1>3, <2>1
    <3> HIDE DEF a, z, b, r
    <3>5. Ids(b.events) = Ids(a) /\ Distinct(b.events)
      BY <3>2, <3>3, SortIds
    <3>6. Distinct(x \o b.events)
      <4>1. Distinct(x) /\ Apart(x, b.events)
        BY <1>2, <3>2, <3>5 DEF NeatAt, Apart
      <4> HIDE DEF x
      <4> QED
        BY <1>2, <1>4, <3>5, <4>1, ConcatIds
    <3>7. T = Ids(a) \cup Ids(x)
      BY <3>3, <3>5
    <3>8. NeatAt(r, c)
      BY <1>2, <3>2, <3>4, EmptyIds DEF NeatAt, Apart
    <3>9. ChannelIds(r, c) = ChannelIds(q, c) \ T /\ T \subseteq ChannelIds(q, c)
      BY <1>2, <3>2, <3>4, <3>7, EmptyIds DEF NeatAt, Apart, ChannelIds
    <3> QED
      BY <3>3, <3>6, <3>8, <3>9
  <2>2. CASE c \notin Ready(q)
    <3>1. b.events = x /\ b.cancelled_events = <<>>
      BY <2>2 DEF FlushedBatch
    <3>2. r.queues[c] = s /\ r.withheld_native_steer[c] = w /\ r.cancelled_batches[c] = <<>>
      BY <1>3, <2>2
    <3> HIDE DEF b, r
    <3>3. T = Ids(x)
      BY <3>1, EmptyIds
    <3>4. NeatAt(r, c)
      BY <1>2, <3>2, EmptyIds DEF NeatAt, Apart
    <3>5. ChannelIds(r, c) = ChannelIds(q, c) \ T /\ T \subseteq ChannelIds(q, c)
      BY <1>2, <3>2, <3>3, EmptyIds DEF NeatAt, Apart, ChannelIds
    <3>6. Distinct(<<>> \o x)
      BY <1>2, ConcatEmptySeq DEF NeatAt
    <3> QED
      BY <3>1, <3>4, <3>5, <3>6, EmptyIds
  <2> QED
    BY <2>1, <2>2
<1> HIDE DEF r, b, T
<1>7. Neat(r) /\ AllIds(r) = (AllIds(q) \cup {}) \ T
  <2> DEFINE add == {}
  <2> HIDE DEF add
  <2>1. /\ ChannelIds(r, c) = (ChannelIds(q, c) \cup add) \ T
        /\ T \subseteq ChannelIds(q, c) \cup add /\ add \cap AllIds(q) = {}
    BY <1>6 DEF add
  <2>2. Neat(r) /\ AllIds(r) = (AllIds(q) \cup add) \ T
    BY <1>1, <1>3, <1>6, <2>1, ChangeOne
  <2> QED
    BY <2>2 DEF add
<1>8. \A d \in Channel : r.cancelled_batches[d] \in {<<>>, q.cancelled_batches[d]}
  BY <1>3 DEF SameAt
<1>9. T \subseteq AllIds(q) /\ T # {}
  BY <1>2, <1>5, <1>6 DEF T
<1>10. AllIds(r) = AllIds(q) \ T
  BY <1>7
<1> QED
  BY <1>6, <1>7, <1>8, <1>9, <1>10 DEF r, b, T, x

\* requeue puts the batch's own events back at the front, or nothing at all.
LEMMA RequeueSame ==
  ASSUME NEW q, QueueOK(q), NEW b \in FlushBatch, NEW delay
  PROVE  \A d \in Channel :
           /\ Exhausted(q, b) => SameAt(requeue(q, b, delay), q, d)
           /\ ~Exhausted(q, b) =>
                SameAt(requeue(q, b, delay), push_front(q, b.channel_id, b.events), d)
<1> TAKE d \in Channel
<1>1. b.channel_id \in Channel
  BY DEF FlushBatch
<1>2. CASE Exhausted(q, b)
  BY <1>1, <1>2 DEF requeue, SameAt, QueueOK, QueueType
<1>3. CASE ~Exhausted(q, b)
  <2> DEFINE p == push_front(q, b.channel_id, b.events)
  <2>1. p \in QueueType
    BY <1>1, PushFrontOK DEF QueueOK, FlushBatch
  <2> HIDE DEF p
  <2>2. requeue(q, b, delay) = [p EXCEPT !.retry_counts[b.channel_id] = @ + 1,
                                         !.retry_after[b.channel_id] = delay]
    BY <1>3 DEF requeue, p
  <2>3. SameAt(requeue(q, b, delay), p, d)
    BY <2>1, <2>2 DEF SameAt, QueueType
  <2> QED
    BY <1>3, <2>3 DEF p
<1> QED
  BY <1>2, <1>3

\* requeue_as_cancelled keeps the whole batch aside, what it had merged included.
LEMMA CancelMoves ==
  ASSUME NEW q, QueueOK(q), Neat(q), NEW b \in FlushBatch, NEW reason,
         Distinct(b.cancelled_events \o b.events),
         (Ids(b.events) \cup Ids(b.cancelled_events)) \cap AllIds(q) = {}
  PROVE  LET r == requeue_as_cancelled(q, b, reason)
             T == Ids(b.events) \cup Ids(b.cancelled_events)
         IN  /\ Neat(r) /\ AllIds(r) = AllIds(q) \cup T
             /\ \A d \in Channel : Ids(r.cancelled_batches[d])
                                     \subseteq Ids(q.cancelled_batches[d]) \cup T
<1> DEFINE r == requeue_as_cancelled(q, b, reason)
           c == b.channel_id
           e == b.events
           m == b.cancelled_events
           T == Ids(e) \cup Ids(m)
           x == q.cancelled_batches[c]
           y == x \o m
           z == y \o e
<1>1. /\ c \in Channel /\ e \in Seq(Event) /\ m \in Seq(Event) /\ x \in Seq(Event)
      /\ NeatAt(q, c) /\ ChannelIds(q, c) \subseteq AllIds(q)
  BY DEF FlushBatch, QueueOK, QueueType, Neat, AllIds
<1>2. /\ r.queues[c] = q.queues[c]
      /\ r.withheld_native_steer[c] = q.withheld_native_steer[c]
      /\ r.cancelled_batches[c] = z
      /\ \A d \in Channel \ {c} : SameAt(r, q, d)
  BY <1>1 DEF requeue_as_cancelled, QueueOK, QueueType, SameAt
<1>3. Distinct(m) /\ Distinct(e) /\ Apart(m, e) /\ Distinct(x) /\ Apart(x, m) /\ Apart(x, e)
  <2>1. Distinct(m) /\ Distinct(e) /\ Apart(m, e)
    <3> HIDE DEF m, e
    <3>1. Distinct(m \o e)
      BY DEF m, e
    <3> QED
      BY <1>1, <3>1, ConcatIds
  <2>2. Distinct(x) /\ Apart(x, m) /\ Apart(x, e)
    BY <1>1 DEF NeatAt, Apart, ChannelIds
  <2> QED
    BY <2>1, <2>2
<1> HIDE DEF e, m, x, c, r
<1>4. y \in Seq(Event) /\ Ids(y) = Ids(x) \cup Ids(m) /\ Distinct(y)
  BY <1>1, <1>3, ConcatIds
<1> HIDE DEF y
<1>5. Ids(z) = Ids(x) \cup T /\ Distinct(z)
  <2>1. Apart(y, e)
    BY <1>3, <1>4 DEF Apart
  <2>2. Ids(z) = Ids(y) \cup Ids(e) /\ Distinct(z)
    BY <1>1, <1>3, <1>4, <2>1, ConcatIds
  <2> QED
    BY <1>4, <2>2
<1> HIDE DEF z, T
<1>6. T \cap AllIds(q) = {}
  BY DEF T, e, m
<1>7. NeatAt(r, c)
  BY <1>1, <1>2, <1>5, <1>6 DEF NeatAt, Apart, ChannelIds, x
<1>8. ChannelIds(r, c) = (ChannelIds(q, c) \cup T) \ {}
  BY <1>2, <1>5 DEF ChannelIds, x
<1>9. Neat(r) /\ AllIds(r) = (AllIds(q) \cup T) \ {}
  <2> DEFINE del == {}
  <2> HIDE DEF del
  <2>1. del \subseteq ChannelIds(q, c) \cup T /\ ChannelIds(r, c) = (ChannelIds(q, c) \cup T) \ del
    BY <1>8 DEF del
  <2>2. Neat(r) /\ AllIds(r) = (AllIds(q) \cup T) \ del
    BY <1>1, <1>2, <1>6, <1>7, <2>1, ChangeOne
  <2> QED
    BY <2>2 DEF del
<1>10. \A d \in Channel : Ids(r.cancelled_batches[d]) \subseteq Ids(q.cancelled_batches[d]) \cup T
  BY <1>2, <1>5 DEF SameAt, x
<1> QED
  BY <1>9, <1>10 DEF r, T, e, m

\* Taking an event out of the side table of channel c takes it out of the queue.
LEMMA UnwithholdMoves ==
  ASSUME NEW q, QueueOK(q), Neat(q), NEW c \in Channel,
         NEW id \in Ids(q.withheld_native_steer[c])
  PROVE  LET p == [q EXCEPT !.withheld_native_steer[c] = Without(@, id)]
         IN  Neat(p) /\ AllIds(p) = AllIds(q) \ {id}
<1> DEFINE w == q.withheld_native_steer[c]
           p == [q EXCEPT !.withheld_native_steer[c] = Without(@, id)]
           out == {id}
           add == {}
<1>1. w \in Seq(Event) /\ NeatAt(q, c) /\ ChannelIds(q, c) \subseteq AllIds(q) /\ Distinct(w)
  BY DEF QueueOK, QueueType, Neat, NeatAt, AllIds
<1>2. Ids(Without(w, id)) = Ids(w) \ {id} /\ Distinct(Without(w, id))
  BY <1>1, WithoutIds
<1>3. /\ p.queues[c] = q.queues[c] /\ p.cancelled_batches[c] = q.cancelled_batches[c]
      /\ p.withheld_native_steer[c] = Without(w, id)
      /\ \A d \in Channel \ {c} : SameAt(p, q, d)
  BY DEF QueueOK, QueueType, SameAt
<1> HIDE DEF p
<1>4. NeatAt(p, c)
  BY <1>1, <1>2, <1>3 DEF NeatAt, Apart
<1>5. /\ ChannelIds(p, c) = (ChannelIds(q, c) \cup add) \ out
      /\ out \subseteq ChannelIds(q, c) \cup add /\ add \cap AllIds(q) = {}
  BY <1>1, <1>2, <1>3 DEF NeatAt, Apart, ChannelIds
<1> HIDE DEF add, out
<1>6. Neat(p) /\ AllIds(p) = (AllIds(q) \cup add) \ out
  BY <1>3, <1>4, <1>5, ChangeOne
<1> QED
  BY <1>6 DEF add, out, p

\* Withholding an event moves it from the queue to the side table.
LEMMA WithholdMoves ==
  ASSUME NEW q, QueueOK(q), Neat(q), NEW c \in Channel, NEW id \in Ids(q.queues[c])
  PROVE  LET r == mark_native_steer_pending(q, c, id)
         IN  /\ Neat(r) /\ AllIds(r) = AllIds(q)
             /\ r.cancelled_batches = q.cancelled_batches
<1> DEFINE r == mark_native_steer_pending(q, c, id)
           s == q.queues[c]
           w == q.withheld_native_steer[c]
           e == s[Position(s, id)]
           x == <<e>>
           none == {}
<1>1. /\ w \in Seq(Event) /\ s \in Seq(Event) /\ NeatAt(q, c)
      /\ ChannelIds(q, c) \subseteq AllIds(q) /\ Distinct(w) /\ Distinct(s) /\ Apart(s, w)
  BY DEF QueueOK, QueueType, Neat, NeatAt, AllIds
<1>2. Ids(Without(s, id)) = Ids(s) \ {id} /\ Distinct(Without(s, id))
  BY <1>1, WithoutIds
<1>3. e \in Event /\ e.id = id
  <2>1. \E i \in 1..Len(s) : s[i].id = id
    BY DEF Ids
  <2> QED
    BY <1>1, <2>1 DEF Position
<1>4. /\ r.queues[c] = Without(s, id) /\ r.cancelled_batches = q.cancelled_batches
      /\ r.withheld_native_steer[c] = Append(w, e)
      /\ \A d \in Channel \ {c} : SameAt(r, q, d)
  BY DEF mark_native_steer_pending, QueueOK, QueueType, SameAt
<1>5. Append(w, e) = w \o x /\ x \in Seq(Event) /\ Ids(x) = {id} /\ Distinct(x)
  <2>1. x \in Seq(Event) /\ Ids(x) = {id} /\ Distinct(x)
    BY <1>3, SingleIds
  <2>2. Append(w, e) = w \o x
    BY <1>1, <1>3, AppendIsConcat
  <2> QED
    BY <2>1, <2>2
<1> HIDE DEF r, x
<1>6. Ids(w \o x) = Ids(w) \cup {id} /\ Distinct(w \o x)
  <2>1. Apart(w, x)
    BY <1>1, <1>5 DEF Apart
  <2> HIDE DEF w
  <2> QED
    BY <1>1, <1>5, <2>1, ConcatIds
<1>7. NeatAt(r, c)
  BY <1>1, <1>2, <1>4, <1>5, <1>6 DEF NeatAt, Apart
<1>8. /\ ChannelIds(r, c) = (ChannelIds(q, c) \cup none) \ none
      /\ none \subseteq ChannelIds(q, c) \cup none /\ none \cap AllIds(q) = {}
  BY <1>2, <1>4, <1>5, <1>6 DEF ChannelIds
<1> HIDE DEF none
<1>9. Neat(r) /\ AllIds(r) = (AllIds(q) \cup none) \ none
  BY <1>4, <1>7, <1>8, ChangeOne
<1> QED
  BY <1>4, <1>9 DEF r, none

\* One more event at the front of a queue within the cap pushes out the last one
\* of a full queue and nothing else.
LEMMA FrontTrims ==
  ASSUME NEW q, QueueOK(q), NEW c \in Channel, NEW e \in Event
  PROVE  Trimmed(<<e>> \o q.queues[c]) = FrontTrimmed(q, c)
<1> DEFINE s == q.queues[c]
           x == <<e>>
           u == x \o s
           n == MaxPending
<1>1. s \in Seq(Event) /\ Len(s) <= n /\ n \in Nat /\ n > 0
  BY QueueConstants DEF QueueOK, QueueType
<1>2. x \in Seq(Event) /\ Len(x) = 1
  OBVIOUS
<1>3. /\ u \in Seq(Event) /\ Len(u) = 1 + Len(s)
      /\ \A i \in 1..1 + Len(s) : u[i] = IF i <= 1 THEN x[i] ELSE s[i - 1]
  <2> HIDE DEF x, s
  <2>1. /\ x \o s \in Seq(Event) /\ Len(x \o s) = Len(x) + Len(s)
        /\ \A i \in 1..Len(x) + Len(s) : (x \o s)[i] = IF i <= Len(x) THEN x[i] ELSE s[i - Len(x)]
    BY <1>1, <1>2, ConcatProperties
  <2> QED
    BY <1>2, <2>1
<1> HIDE DEF u, s, n
<1>4. CASE Len(s) >= n
  <2>1. Len(s) = n /\ Len(u) = n + 1
    BY <1>1, <1>3, <1>4
  <2>2. u[n + 1] = s[n] /\ u[n + 1] \in Event
    BY <1>1, <1>3, <2>1
  <2>3. SubSeq(u, n + 1, n + 1) = <<u[n + 1]>>
    <3>1. SubSeq(u, n + 1, n + 1) = <<u[n + 1]>> \o SubSeq(u, n + 1 + 1, n + 1)
      BY <1>1, <1>3, <2>1, SubSeqRecursiveFirst
    <3>2. SubSeq(u, n + 1 + 1, n + 1) = <<>>
      BY <1>1, SubSeqEmpty
    <3>3. <<u[n + 1]>> \in Seq(Event)
      BY <2>2
    <3> QED
      BY <3>1, <3>2, <3>3, ConcatEmptySeq
  <2>4. Trimmed(u) = {s[n].id}
    BY <2>1, <2>2, <2>3, SingleIds DEF Trimmed, n
  <2> QED
    BY <1>4, <2>1, <2>4 DEF FrontTrimmed, u, s, n
<1>5. CASE ~(Len(s) >= n)
  <2>1. Len(u) <= MaxPending
    BY <1>1, <1>3, <1>5 DEF n
  <2>2. Trimmed(u) = {}
    BY <1>3, <2>1, TrimIds
  <2> QED
    BY <1>5, <2>2 DEF FrontTrimmed, u, s, n
<1> QED
  BY <1>4, <1>5

\* A released event goes back to the queue, and what it pushes out is dropped.
LEMMA ReleaseMoves ==
  ASSUME NEW q, QueueOK(q), Neat(q), NEW c \in Channel,
         NEW id \in Ids(q.withheld_native_steer[c])
  PROVE  LET r == release_native_steer(q, c, id)
         IN  /\ Neat(r) /\ AllIds(r) = AllIds(q) \ FrontTrimmed(q, c)
             /\ FrontTrimmed(q, c) \subseteq AllIds(q)
             /\ r.cancelled_batches = q.cancelled_batches
<1> DEFINE w == q.withheld_native_steer[c]
           e == w[Position(w, id)]
           x == <<e>>
           p == [q EXCEPT !.withheld_native_steer[c] = Without(@, id)]
           r == push_front(p, c, x)
           out == FrontTrimmed(q, c)
<1>1. w \in Seq(Event)
  BY DEF QueueOK, QueueType
<1>2. e \in Event /\ e.id = id
  <2>1. \E i \in 1..Len(w) : w[i].id = id
    BY DEF Ids
  <2> QED
    BY <1>1, <2>1 DEF Position
<1>3. x \in Seq(Event) /\ Ids(x) = {id} /\ Distinct(x)
  BY <1>2, SingleIds
<1>4. Neat(p) /\ AllIds(p) = AllIds(q) \ {id}
  BY UnwithholdMoves
<1>5. QueueOK(p)
  BY <1>1, WithoutShrinks, WithheldOK
<1>6. p.queues = q.queues /\ p.cancelled_batches = q.cancelled_batches
  BY DEF QueueOK, QueueType
<1>7. release_native_steer(q, c, id) = r
  BY DEF release_native_steer
<1>8. Trimmed(x \o p.queues[c]) = out
  BY <1>2, <1>6, FrontTrims
<1>9. id \in AllIds(q)
  BY DEF AllIds, ChannelIds
<1> HIDE DEF p, x, out
<1>10. Ids(x) \cap AllIds(p) = {}
  BY <1>3, <1>4
<1>11. /\ Neat(r) /\ AllIds(r) = (AllIds(p) \cup Ids(x)) \ out
       /\ out \subseteq AllIds(p) \cup Ids(x)
       /\ r.cancelled_batches = p.cancelled_batches
  BY <1>3, <1>4, <1>5, <1>8, <1>10, PushFrontMoves
<1>12. AllIds(p) \cup Ids(x) = AllIds(q)
  BY <1>3, <1>4, <1>9
<1> HIDE DEF r
<1> QED
  BY <1>6, <1>7, <1>11, <1>12 DEF out

\* A steered event leaves both tables.
LEMMA RemoveMoves ==
  ASSUME NEW q, QueueOK(q), Neat(q), NEW c \in Channel,
         NEW id \in Ids(q.withheld_native_steer[c])
  PROVE  LET r == remove_event(q, c, id)
         IN  /\ Neat(r) /\ AllIds(r) = AllIds(q) \ {id} /\ id \in AllIds(q)
             /\ r.cancelled_batches = q.cancelled_batches
<1> DEFINE p == [q EXCEPT !.withheld_native_steer[c] = Without(@, id)]
           r == [p EXCEPT !.queues[c] = Without(@, id)]
           s == q.queues[c]
           none == {}
<1>1. remove_event(q, c, id) = r
  BY DEF remove_event
<1>2. Neat(p) /\ AllIds(p) = AllIds(q) \ {id}
  BY UnwithholdMoves
<1>3. s \in Seq(Event) /\ Distinct(s) /\ id \notin Ids(s)
  BY DEF QueueOK, QueueType, Neat, NeatAt, Apart
<1>4. Without(s, id) = s
  BY <1>3 DEF Without
<1>5. \A d \in Channel : SameAt(r, p, d)
  BY <1>4 DEF SameAt, QueueOK, QueueType
<1>6. r.cancelled_batches = q.cancelled_batches
  BY DEF QueueOK, QueueType
<1>7. id \in AllIds(q)
  BY DEF AllIds, ChannelIds
<1> HIDE DEF p, r
<1>8. AllIds(r) = AllIds(p) /\ Neat(r)
  BY <1>2, <1>5, ChangeNone
<1> QED
  BY <1>1, <1>2, <1>6, <1>7, <1>8

\* drain_channel takes out all events of the channel.
LEMMA DrainMoves ==
  ASSUME NEW q, QueueOK(q), Neat(q), NEW c \in Channel
  PROVE  LET r == drain_channel(q, c)
         IN  /\ Neat(r) /\ AllIds(r) = AllIds(q) \ ChannelIds(q, c)
             /\ ChannelIds(q, c) \subseteq AllIds(q)
             /\ \A d \in Channel : r.cancelled_batches[d] \in {<<>>, q.cancelled_batches[d]}
<1> DEFINE r == drain_channel(q, c)
           out == ChannelIds(q, c)
           add == {}
<1>1. /\ r.queues[c] = <<>> /\ r.withheld_native_steer[c] = <<>> /\ r.cancelled_batches[c] = <<>>
      /\ \A d \in Channel \ {c} : SameAt(r, q, d)
  BY DEF drain_channel, QueueOK, QueueType, SameAt
<1> HIDE DEF r
<1>2. NeatAt(r, c) /\ ChannelIds(r, c) = {}
  BY <1>1, EmptyIds DEF NeatAt, Apart, ChannelIds
<1>3. out \subseteq AllIds(q)
  BY DEF AllIds
<1>4. /\ out \subseteq ChannelIds(q, c) \cup add /\ add \cap AllIds(q) = {}
      /\ ChannelIds(r, c) = (ChannelIds(q, c) \cup add) \ out
  BY <1>2
<1> HIDE DEF out, add
<1>5. Neat(r) /\ AllIds(r) = (AllIds(q) \cup add) \ out
  BY <1>1, <1>2, <1>4, ChangeOne
<1>6. AllIds(r) = AllIds(q) \ out
  BY <1>5 DEF add
<1>7. \A d \in Channel : r.cancelled_batches[d] \in {<<>>, q.cancelled_batches[d]}
  BY <1>1 DEF SameAt
<1> QED
  BY <1>3, <1>5, <1>6, <1>7 DEF r, out
=============================================================================
