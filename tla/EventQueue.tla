------------------------------ MODULE EventQueue ------------------------------
(***************************************************************************)
(* The per-channel event queue of the agent harness, buzz-acp/src/queue.rs. *)
(*                                                                         *)
(* The queue is a plain data structure owned by the harness's main loop, so *)
(* its methods are written as operators from a queue value (and arguments)  *)
(* to the new queue value: a handler that calls several methods composes    *)
(* them inside one action.                                                  *)
(*                                                                         *)
(* A queue value is a record with one field per HashMap / HashSet of the    *)
(* struct.  A missing key is <<>> (no events), 0 (no retry attempts) or     *)
(* None (no timer, no reason).  An Instant is the number of ticks left      *)
(* until it: "now >= deadline" is "0 ticks left", and the passing of time   *)
(* is the operator elapse.  in_flight_batch_sizes only feeds a log line and *)
(* is left out.                                                            *)
(***************************************************************************)
EXTENDS Naturals, Sequences, FiniteSets

CONSTANTS
  Channel,            \* channel ids
  None,               \* an absent timer or reason
  DropMode,           \* TRUE for DedupMode::Drop, FALSE for DedupMode::Queue
  MaxPending,         \* MAX_PENDING_PER_CHANNEL
  MaxBatch,           \* MAX_BATCH_EVENTS
  MaxRetries,         \* MAX_RETRIES
  BaseRetryDelay,     \* BASE_RETRY_DELAY_SECS, in ticks
  MaxRetryDelay,      \* MAX_RETRY_DELAY_SECS, in ticks
  MaxTurn,            \* max_turn_duration_secs, in ticks
  DeadlineBuffer      \* IN_FLIGHT_DEADLINE_BUFFER_SECS, in ticks

ASSUME QueueConstants ==
  /\ DropMode \in BOOLEAN
  /\ MaxPending \in Nat \ {0}
  /\ MaxBatch \in Nat \ {0}
  /\ MaxRetries \in Nat
  /\ BaseRetryDelay \in Nat \ {0}
  /\ MaxRetryDelay \in Nat \ {0}
  /\ MaxTurn \in Nat \ {0}
  /\ DeadlineBuffer \in Nat \ {0}
  /\ None \notin Nat

ASSUME NoneIsNoReason == None \notin {"steer", "interrupt"}

CancelReason == {"steer", "interrupt"}

(* An event.  received_at is taken from a monotonic clock just before push   *)
(* (lib.rs 2963), and the relay client hands every event id over once, so    *)
(* the arrival number id is both the event's identity and its received_at.   *)
Event == [id : Nat, channel_id : Channel, created_at : Nat]

FlushBatch == [channel_id : Channel, events : Seq(Event),
               cancelled_events : Seq(Event),
               cancel_reason : CancelReason \cup {None}]

Timer == Nat \cup {None}

QueueType ==
  [queues                : [Channel -> Seq(Event)],
   in_flight_channels    : SUBSET Channel,
   in_flight_deadlines   : [Channel -> Timer],
   retry_after           : [Channel -> Timer],
   retry_counts          : [Channel -> Nat],
   cancelled_batches     : [Channel -> Seq(Event)],
   cancel_reasons        : [Channel -> CancelReason \cup {None}],
   withheld_native_steer : [Channel -> Seq(Event)]]

EmptyQueue ==
  [queues                |-> [c \in Channel |-> <<>>],
   in_flight_channels    |-> {},
   in_flight_deadlines   |-> [c \in Channel |-> None],
   retry_after           |-> [c \in Channel |-> None],
   retry_counts          |-> [c \in Channel |-> 0],
   cancelled_batches     |-> [c \in Channel |-> <<>>],
   cancel_reasons        |-> [c \in Channel |-> None],
   withheld_native_steer |-> [c \in Channel |-> <<>>]]

-----------------------------------------------------------------------------
(* Sequences *)

\* The events of s, by identity.
Ids(s) == {s[i].id : i \in 1..Len(s)}

\* while queue.len() > MAX_PENDING_PER_CHANNEL { queue.pop_back(); }
trim_back(s) == IF Len(s) > MaxPending THEN SubSeq(s, 1, MaxPending) ELSE s

\* The events that trim_back is meant to cut off.
Trimmed(s) == Ids(SubSeq(s, MaxPending + 1, Len(s)))

\* s.iter().position(|qe| qe.event.id == id)
Position(s, id) == CHOOSE i \in 1..Len(s) : s[i].id = id

\* s without event id, which it holds at most once: remove(pos), retain.
Without(s, id) ==
  IF id \in Ids(s)
  THEN SubSeq(s, 1, Position(s, id) - 1) \o SubSeq(s, Position(s, id) + 1, Len(s))
  ELSE s

\* Position of i in the stable order by created_at: how many positions of s
\* sort at or before it.
Rank(s, i) ==
  Cardinality({j \in 1..Len(s) :
                 \/ s[j].created_at < s[i].created_at
                 \/ s[j].created_at = s[i].created_at /\ j <= i})

\* events.sort_by_key(|be| be.event.created_at), a stable sort.
sort_by_created_at(s) ==
  [k \in 1..Len(s) |-> s[CHOOSE i \in 1..Len(s) : Rank(s, i) = k]]

-----------------------------------------------------------------------------
(* Time *)

in_flight_deadline == MaxTurn + DeadlineBuffer

Later(t) == IF t = None \/ t = 0 THEN t ELSE t - 1

elapse(q) ==
  [q EXCEPT !.in_flight_deadlines = [c \in Channel |-> Later(@[c])],
            !.retry_after = [c \in Channel |-> Later(@[c])]]

Throttled(q, c) == q.retry_after[c] # None /\ q.retry_after[c] # 0

\* 1u64 << (attempt - 1).min(6), for attempt = 1, 2, ...
Doubling == <<1, 2, 4, 8, 16, 32, 64>>

BaseSecs(attempt) ==
  BaseRetryDelay * Doubling[IF attempt < 7 THEN attempt ELSE 7]

CappedSecs(attempt) ==
  IF BaseSecs(attempt) < MaxRetryDelay THEN BaseSecs(attempt) ELSE MaxRetryDelay

\* The jitter factor, in thousandths, when the wall clock reads ms milliseconds
\* past a whole second: 0.8 + (nanos / u32::MAX) * 0.4 with nanos = ms * 10^6.
Jitter(ms) == 800 + (400 * ms) \div 4294

\* The delays the jitter can produce, in whole ticks, rounded up.
BackoffDelays(attempt) ==
  LET b == CappedSecs(attempt)
  IN  {d \in 1..b : /\ 1000 * d >= b * Jitter(0)
                    /\ 1000 * (d - 1) < b * Jitter(999)}

-----------------------------------------------------------------------------
(* Adding events *)

Accepts(q, e) == ~(DropMode /\ e.channel_id \in q.in_flight_channels)

\* Faulty variant: the cap is tested one too late.
push_off_by_one(q, e) ==
  LET c == e.channel_id
      room == IF Len(q.queues[c]) > MaxPending
              THEN Tail(q.queues[c]) ELSE q.queues[c]
  IN  IF Accepts(q, e) THEN [q EXCEPT !.queues[c] = Append(room, e)] ELSE q

push(q, e) ==
  LET c == e.channel_id
      room == IF Len(q.queues[c]) >= MaxPending
              THEN Tail(q.queues[c]) ELSE q.queues[c]
  IN  IF Accepts(q, e) THEN [q EXCEPT !.queues[c] = Append(room, e)] ELSE q

\* The events that a push is meant to drop: the one that is not accepted, or the
\* oldest one of a full queue.
Dropped(q, e) ==
  IF ~Accepts(q, e) THEN {e.id}
  ELSE IF Len(q.queues[e.channel_id]) >= MaxPending
  THEN {Head(q.queues[e.channel_id]).id} ELSE {}

push_front(q, c, s) == [q EXCEPT !.queues[c] = trim_back(s \o @)]

-----------------------------------------------------------------------------
(* Taking a batch *)

Expired(q) == {c \in Channel : q.in_flight_deadlines[c] = 0}

\* Faulty variant: withheld events of an expired channel are logged and dropped.
expire_dropping_withheld(q) ==
  LET X == Expired(q) IN
  [q EXCEPT
     !.in_flight_channels = @ \ X,
     !.in_flight_deadlines = [c \in Channel |-> IF c \in X THEN None ELSE @[c]],
     !.withheld_native_steer = [c \in Channel |->
                                  IF c \in X THEN <<>> ELSE @[c]]]

\* The expiry loop that opens flush_next and has_flushable_work: the channel is
\* released, and the events withheld for a steer go back to the queue's front
\* (recover_withheld_for_expired_channel).
expire(q) ==
  LET X == Expired(q) IN
  [q EXCEPT
     !.in_flight_channels = @ \ X,
     !.in_flight_deadlines = [c \in Channel |-> IF c \in X THEN None ELSE @[c]],
     !.queues = [c \in Channel |->
                   IF c \in X /\ q.withheld_native_steer[c] # <<>>
                   THEN trim_back(q.withheld_native_steer[c] \o @[c])
                   ELSE @[c]],
     !.withheld_native_steer = [c \in Channel |->
                                  IF c \in X THEN <<>> ELSE @[c]]]

\* The events that an expiry is meant to drop.
ExpiryTrimmed(q) ==
  UNION {Trimmed(q.withheld_native_steer[c] \o q.queues[c]) : c \in Expired(q)}

Ready(q) == {c \in Channel : /\ q.queues[c] # <<>>
                             /\ c \notin q.in_flight_channels
                             /\ ~Throttled(q, c)}

CancelledOnly(q) == {c \in Channel : /\ q.cancelled_batches[c] # <<>>
                                     /\ c \notin q.in_flight_channels}

\* The channels flush_next may pick: the ready one whose head event is oldest,
\* or, when none is ready, any one with a cancelled batch (HashMap order).
FlushChannels(q) ==
  IF Ready(q) # {}
  THEN {c \in Ready(q) :
          \A d \in Ready(q) : Head(q.queues[c]).id <= Head(q.queues[d]).id}
  ELSE CancelledOnly(q)

DrainCount(q, c) ==
  IF Len(q.queues[c]) < MaxBatch THEN Len(q.queues[c]) ELSE MaxBatch

\* The batch that flush_next returns for channel c of an expired queue.
FlushedBatch(q, c) ==
  IF c \in Ready(q)
  THEN [channel_id       |-> c,
        events           |-> sort_by_created_at(SubSeq(q.queues[c], 1, DrainCount(q, c))),
        cancelled_events |-> q.cancelled_batches[c],
        cancel_reason    |-> IF q.cancelled_batches[c] = <<>>
                             THEN None ELSE q.cancel_reasons[c]]
  ELSE [channel_id       |-> c,
        events           |-> q.cancelled_batches[c],
        cancelled_events |-> <<>>,
        cancel_reason    |-> q.cancel_reasons[c]]

\* Faulty variant: the reason of the merged batch is left behind.
flush_next_keeping_reason(q, c) ==
  [q EXCEPT
     !.queues[c] = IF c \in Ready(q)
                   THEN SubSeq(@, DrainCount(q, c) + 1, Len(@)) ELSE @,
     !.in_flight_channels = @ \cup {c},
     !.in_flight_deadlines[c] = in_flight_deadline,
     !.cancelled_batches[c] = <<>>]

\* Faulty variant: the merged batch itself is read with get and not removed.
flush_next_keeping_cancelled(q, c) ==
  [q EXCEPT
     !.queues[c] = IF c \in Ready(q)
                   THEN SubSeq(@, DrainCount(q, c) + 1, Len(@)) ELSE @,
     !.in_flight_channels = @ \cup {c},
     !.in_flight_deadlines[c] = in_flight_deadline]

\* The queue that flush_next leaves behind.
flush_next(q, c) ==
  [q EXCEPT
     !.queues[c] = IF c \in Ready(q)
                   THEN SubSeq(@, DrainCount(q, c) + 1, Len(@)) ELSE @,
     !.in_flight_channels = @ \cup {c},
     !.in_flight_deadlines[c] = in_flight_deadline,
     !.cancelled_batches[c] = <<>>,
     !.cancel_reasons[c] = None]

has_flushable_work(q) == Ready(q) \cup CancelledOnly(q) # {}

has_undispatched_work(q) ==
  \E c \in Channel \ q.in_flight_channels :
     \/ q.queues[c] # <<>>
     \/ q.cancelled_batches[c] # <<>>
     \/ q.withheld_native_steer[c] # <<>>

-----------------------------------------------------------------------------
(* Giving a batch back *)

\* Faulty variant: a turn that went well takes one attempt back instead of all.
mark_complete_decrementing(q, c) ==
  [q EXCEPT
     !.in_flight_channels = @ \ {c},
     !.in_flight_deadlines[c] = None,
     !.retry_after[c] = IF Throttled(q, c) THEN @ ELSE None,
     !.retry_counts[c] = IF Throttled(q, c) THEN @ ELSE @ - 1]

\* The retry counter survives only while the channel is still throttled.
mark_complete(q, c) ==
  [q EXCEPT
     !.in_flight_channels = @ \ {c},
     !.in_flight_deadlines[c] = None,
     !.retry_after[c] = IF Throttled(q, c) THEN @ ELSE None,
     !.retry_counts[c] = IF Throttled(q, c) THEN @ ELSE 0]

\* Faulty variant: one attempt too many.
Exhausted_off_by_one(q, b) == q.retry_counts[b.channel_id] > MaxRetries

\* requeue gives the batch up once it has been tried MaxRetries times again.
Exhausted(q, b) == q.retry_counts[b.channel_id] + 1 > MaxRetries

\* A failed batch: back to the front, throttled for delay ticks.  The batch's
\* cancelled_events are not put back.
requeue(q, b, delay) ==
  LET c == b.channel_id IN
  IF Exhausted(q, b)
  THEN [q EXCEPT !.retry_counts[c] = 0, !.retry_after[c] = None]
  ELSE [push_front(q, c, b.events) EXCEPT !.retry_counts[c] = @ + 1,
                                          !.retry_after[c] = delay]

\* Faulty variant: the batch no agent was free for is dropped.
requeue_preserve_dropping(q, b) == q

\* A batch no agent was free for.  Again without its cancelled_events.
requeue_preserve_timestamps(q, b) == push_front(q, b.channel_id, b.events)

\* Faulty variant: a batch interrupted twice forgets what it had merged.
requeue_as_cancelled_forgetting(q, b, reason) ==
  [q EXCEPT !.cancelled_batches[b.channel_id] = @ \o b.events,
            !.cancel_reasons[b.channel_id] = reason]

\* The batch of a cancelled turn is kept aside, to be merged into the next one.
requeue_as_cancelled(q, b, reason) ==
  [q EXCEPT !.cancelled_batches[b.channel_id] = @ \o b.cancelled_events \o b.events,
            !.cancel_reasons[b.channel_id] = reason]

-----------------------------------------------------------------------------
(* Steering: an event handed to a running turn is withheld meanwhile *)

\* Faulty variant: the event is copied to the side table and stays queued.
mark_native_steer_pending_copying(q, c, id) ==
  IF id \notin Ids(q.queues[c]) THEN q
  ELSE [q EXCEPT !.withheld_native_steer[c] =
                    Append(@, q.queues[c][Position(q.queues[c], id)])]

mark_native_steer_pending(q, c, id) ==
  IF id \notin Ids(q.queues[c]) THEN q
  ELSE [q EXCEPT !.queues[c] = Without(@, id),
                 !.withheld_native_steer[c] =
                    Append(@, q.queues[c][Position(q.queues[c], id)])]

release_native_steer(q, c, id) ==
  IF id \notin Ids(q.withheld_native_steer[c]) THEN q
  ELSE LET w == q.withheld_native_steer[c]
       IN  push_front([q EXCEPT !.withheld_native_steer[c] = Without(@, id)],
                      c, <<w[Position(w, id)]>>)

\* The event that one more at the front of channel c is meant to drop.
FrontTrimmed(q, c) ==
  LET s == q.queues[c] IN IF Len(s) >= MaxPending THEN {s[Len(s)].id} ELSE {}

\* Faulty variant: only the queue is searched.
remove_event_from_queue(q, c, id) == [q EXCEPT !.queues[c] = Without(@, id)]

remove_event(q, c, id) ==
  [q EXCEPT !.withheld_native_steer[c] = Without(@, id),
            !.queues[c] = Without(@, id)]

\* Faulty variant: a successful steer leaves the in-flight deadline as it was.
extend_in_flight_deadline_not(q, c) == q

\* A deadline is only ever moved forward, and never set for a channel without one.
extend_in_flight_deadline(q, c) ==
  [q EXCEPT !.in_flight_deadlines[c] =
              IF @ = None \/ @ > in_flight_deadline THEN @ ELSE in_flight_deadline]

-----------------------------------------------------------------------------
(* Housekeeping *)

\* Faulty variant: the deadline is dropped although the turn still runs.
drain_channel_with_deadline(q, c) ==
  [q EXCEPT !.queues[c] = <<>>,
            !.in_flight_deadlines[c] = None,
            !.retry_after[c] = None,
            !.retry_counts[c] = 0,
            !.cancelled_batches[c] = <<>>,
            !.cancel_reasons[c] = None,
            !.withheld_native_steer[c] = <<>>]

drain_channel(q, c) ==
  [q EXCEPT !.queues[c] = <<>>,
            !.retry_after[c] = None,
            !.retry_counts[c] = 0,
            !.cancelled_batches[c] = <<>>,
            !.cancel_reasons[c] = None,
            !.withheld_native_steer[c] = <<>>]

compact_expired_state(q) ==
  [q EXCEPT
     !.retry_after = [c \in Channel |-> IF Throttled(q, c) THEN @[c] ELSE None],
     !.retry_counts = [c \in Channel |->
                         IF \/ Throttled(q, c)
                            \/ q.queues[c] # <<>>
                            \/ c \in q.in_flight_channels
                         THEN @[c] ELSE 0]]
=============================================================================
