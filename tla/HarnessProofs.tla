----------------------------- MODULE HarnessProofs -----------------------------
(***************************************************************************)
(* The invariants of module Harness, for every number of agents, channels   *)
(* and events, every mode and every value of the limits.                    *)
(*                                                                         *)
(* The functions of the main loop are operators on the record of its data,  *)
(* so the invariant is a predicate of that record (and of the acks on their *)
(* way and the number of events that have arrived), and every operator is   *)
(* shown to keep it.                                                        *)
(***************************************************************************)
EXTENDS Harness, EventQueueProofs, WellFoundedInduction

MainType ==
  [q : QueueType, idle : SUBSET Agent, task : [Agent -> TaskType \cup {None}],
   respawn : [Agent -> {"no", "flying", "ok", "failed"}],
   circuit : [Agent -> Circuit], removed : SUBSET Channel, hb : BOOLEAN,
   maint : 0..MaintInterval, exited : BOOLEAN, settled : SUBSET Nat,
   interrupted : SUBSET Nat, failures : [1..MaxEvents -> Nat]]

\* What a task's fields say about each other: a heartbeat has no batch and no
\* control channel, the result carries the task's own batch or none, and only a
\* read loop that still takes steers has one.
TaskOK(t) ==
  /\ t.channel_id = None <=> t.batch = None
  /\ t.channel_id = None => t.control = "none" /\ ~t.steerable
  /\ t.batch # None => /\ t.batch.channel_id = t.channel_id
                       /\ t.batch.events # <<>>
  /\ ~t.steerable => t.steer_tx = None /\ t.pending_steer = None
  /\ t.phase = "init" => InitialMessage
  /\ t.result # None =>
       /\ ~t.steerable
       /\ t.result.batch # None =>
            /\ ~DropMode /\ t.batch # None
            /\ t.result.batch.channel_id = t.batch.channel_id
            /\ t.result.batch.events = t.batch.events
            /\ t.result.batch.cancelled_events = t.batch.cancelled_events

\* Every slot is in one state, and at most one heartbeat is on its way.
Slots(s) ==
  /\ s.idle \cap Busy(s.task) = {}
  /\ \A a \in Agent : s.respawn[a] # "no" => a \notin s.idle \cup Busy(s.task)
  /\ \A a \in Agent : s.circuit[a].open # "closed" =>
       a \notin s.idle \cup Busy(s.task) /\ s.respawn[a] = "no"
  /\ s.hb <=> \E a \in Busy(s.task) : s.task[a].channel_id = None
  /\ \A a, b \in Busy(s.task) :
       s.task[a].channel_id = None /\ s.task[b].channel_id = None => a = b

BatchIdsOf(s, a) == BatchIds(s.task[a].batch)

InTurns(s) == UNION {BatchIdsOf(s, a) : a \in Busy(s.task)}

\* Every one of the n events that have arrived is accounted for, in one place.
Events(s, n) ==
  /\ Neat(s.q)
  /\ \A a \in Busy(s.task) : s.task[a].batch # None =>
       /\ Distinct(s.task[a].batch.cancelled_events \o s.task[a].batch.events)
       /\ Ids(s.task[a].batch.cancelled_events) \subseteq s.interrupted
  /\ \A a, b \in Busy(s.task) : a # b => BatchIdsOf(s, a) \cap BatchIdsOf(s, b) = {}
  /\ \A c \in Channel : Ids(s.q.cancelled_batches[c]) \subseteq s.interrupted
  /\ AllIds(s.q) \cap InTurns(s) = {}
  /\ s.settled \cap (AllIds(s.q) \cup InTurns(s)) = {}
  /\ AllIds(s.q) \cup InTurns(s) \cup s.settled \subseteq 1..n
  /\ 1..n \subseteq AllIds(s.q) \cup InTurns(s) \cup s.settled \cup s.interrupted
  /\ DropMode => s.interrupted = {}

SteerIds(t) == {t.steer_tx, t.pending_steer} \ {None}

\* A steer under way is for an event that is withheld for it, or settled since;
\* every event has at most one; and nothing else is withheld.
Steers(s, A) ==
  /\ \A a \in Busy(s.task) :
       s.task[a].steer_tx # None => s.task[a].steer_tx # s.task[a].pending_steer
  /\ \A a, b \in Busy(s.task) : a # b => SteerIds(s.task[a]) \cap SteerIds(s.task[b]) = {}
  /\ \A a \in Busy(s.task), k \in A : k.event_id \notin SteerIds(s.task[a])
  /\ \A k1, k2 \in A : k1.event_id = k2.event_id => k1 = k2
  /\ \A a \in Busy(s.task) : \A i \in SteerIds(s.task[a]) :
       i \in Ids(s.q.withheld_native_steer[s.task[a].channel_id]) \cup s.settled
  /\ \A k \in A : k.event_id \in Ids(s.q.withheld_native_steer[k.channel_id]) \cup s.settled
  /\ \A c \in Channel : \A i \in Ids(s.q.withheld_native_steer[c]) :
       \/ \E a \in Busy(s.task) : i \in SteerIds(s.task[a])
       \/ \E k \in A : i = k.event_id

\* Channel c's deadline lies beyond the hard cap of turn t, or will once the ack
\* of a successful steer is handled.
Covered(s, A, t) ==
  LET d == s.q.in_flight_deadlines[t.channel_id] IN
  /\ d # None /\ d # 0
  /\ \/ d >= t.left + DeadlineBuffer
     \/ \E k \in A : k.channel_id = t.channel_id /\ k.kind = "success"

\* No deadline expires under a turn that can be steered or that has a steer's
\* ack under way; and, without an initial message, under no turn at all, so that
\* a channel has exactly one turn while it is in flight.
Deadlines(s, A) ==
  /\ \A k \in A : s.q.in_flight_deadlines[k.channel_id] # 0
  /\ \A a \in Busy(s.task) : s.task[a].steerable =>
       \/ s.q.in_flight_deadlines[s.task[a].channel_id] = None
       \/ Covered(s, A, s.task[a])
  /\ ~InitialMessage =>
       /\ \A a \in Busy(s.task) : s.task[a].channel_id # None => Covered(s, A, s.task[a])
       /\ \A a, b \in Busy(s.task) :
            s.task[a].channel_id # None /\ s.task[a].channel_id = s.task[b].channel_id
              => a = b
       /\ \A c \in s.q.in_flight_channels : \E a \in Busy(s.task) : s.task[a].channel_id = c

AckType == [channel_id : Channel, event_id : Nat, kind : {"success", "rejected", "unknown"}]

Good(s, A, n) ==
  /\ s \in MainType /\ QueueOK(s.q)
  /\ \A a \in Busy(s.task) : TaskOK(s.task[a])
  /\ Slots(s)
  /\ Events(s, n)
  /\ Steers(s, A)
  /\ Deadlines(s, A)

IInv == /\ acks \subseteq AckType /\ arrived \in Nat
        /\ Good(Main, acks, arrived)

-----------------------------------------------------------------------------
(* The record of the main loop's data *)

\* A loop that goes on with record t has t as its data.
LEMMA BecomeMain ==
  ASSUME NEW t \in MainType, Become(t)
  PROVE  Main' = t
BY DEF Become, Main, MainType

\* Only the slots, timers and flags change.
LEMMA SlotsChange ==
  ASSUME NEW s, NEW A, NEW n, Good(s, A, n), NEW t \in MainType, Slots(t),
         t.q = s.q, t.task = s.task, t.settled = s.settled,
         t.interrupted = s.interrupted
  PROVE  Good(t, A, n)
<1>1. InTurns(t) = InTurns(s)
  BY DEF InTurns, BatchIdsOf
<1>2. \A a, b : BatchIdsOf(t, a) = BatchIdsOf(s, a)
  BY DEF BatchIdsOf
<1>3. Events(t, n)
  BY <1>1, <1>2 DEF Good, Events
<1>4. Steers(t, A)
  BY DEF Good, Steers
<1>5. Deadlines(t, A)
  BY DEF Good, Deadlines, Covered
<1> QED
  BY <1>3, <1>4, <1>5 DEF Good

\* The fields that are not the queue's are those of s.
SameSlots(t, s) ==
  /\ t.idle = s.idle /\ t.task = s.task /\ t.respawn = s.respawn
  /\ t.circuit = s.circuit /\ t.hb = s.hb

\* Some queued events are dropped and settled, and some that were interrupted
\* before are lost.
LEMMA EventsLose ==
  ASSUME NEW s, NEW n, Events(s, n), NEW t, t.task = s.task, t.interrupted = s.interrupted,
         NEW D, D \subseteq AllIds(s.q), NEW L, L \subseteq s.interrupted,
         Neat(t.q), AllIds(t.q) = AllIds(s.q) \ (D \cup L),
         t.settled = s.settled \cup D,
         \A c \in Channel : t.q.cancelled_batches[c] \in {<<>>, s.q.cancelled_batches[c]}
  PROVE  Events(t, n)
<1>1. InTurns(t) = InTurns(s) /\ \A a \in Agent : BatchIdsOf(t, a) = BatchIdsOf(s, a)
  BY DEF InTurns, BatchIdsOf
<1>2. \A c \in Channel : Ids(t.q.cancelled_batches[c]) \subseteq t.interrupted
  BY EmptyIds DEF Events
<1> QED
  BY <1>1, <1>2 DEF Events, Busy

\* Some queued events are dropped and settled.
LEMMA EventsDrop ==
  ASSUME NEW s, NEW n, Events(s, n), NEW t, t.task = s.task, t.interrupted = s.interrupted,
         NEW D, D \subseteq AllIds(s.q), Neat(t.q), AllIds(t.q) = AllIds(s.q) \ D,
         t.settled = s.settled \cup D,
         \A c \in Channel : t.q.cancelled_batches[c] \in {<<>>, s.q.cancelled_batches[c]}
  PROVE  Events(t, n)
<1> DEFINE L == {}
<1>1. L \subseteq s.interrupted /\ AllIds(t.q) = AllIds(s.q) \ (D \cup L)
  OBVIOUS
<1> HIDE DEF L
<1> QED
  BY <1>1, EventsLose

\* No event moves.
LEMMA EventsStay ==
  ASSUME NEW s, NEW n, Events(s, n), NEW t, t.task = s.task, t.interrupted = s.interrupted,
         t.settled = s.settled, \A c \in Channel : SameAt(t.q, s.q, c)
  PROVE  Events(t, n)
<1>1. AllIds(t.q) = AllIds(s.q) /\ Neat(t.q)
  BY ChangeNone DEF Events
<1>2. \A c \in Channel : t.q.cancelled_batches[c] \in {<<>>, s.q.cancelled_batches[c]}
  BY DEF SameAt
<1> QED
  <2> DEFINE D == {}
  <2>1. D \subseteq AllIds(s.q) /\ AllIds(t.q) = AllIds(s.q) \ D
        /\ t.settled = s.settled \cup D
    BY <1>1
  <2> HIDE DEF D
  <2> QED
    BY <1>1, <1>2, <2>1, EventsDrop

\* Only the turns of channels are steered.
LEMMA SteeredChannel ==
  ASSUME NEW task0 \in [Agent -> TaskType \cup {None}], NEW a \in Busy(task0),
         TaskOK(task0[a]), NEW i \in SteerIds(task0[a])
  PROVE  task0[a].channel_id \in Channel /\ task0[a].steerable
BY DEF TaskOK, SteerIds, TaskType, Busy

\* The withheld events stay.
LEMMA SteersStay ==
  ASSUME NEW s, NEW A, Steers(s, A), NEW t, t.task = s.task, s.settled \subseteq t.settled,
         A \subseteq AckType, \A a \in Busy(s.task) : TaskOK(s.task[a]),
         s.task \in [Agent -> TaskType \cup {None}],
         \A c \in Channel : t.q.withheld_native_steer[c] = s.q.withheld_native_steer[c]
  PROVE  Steers(t, A)
<1>1. ASSUME NEW a \in Busy(s.task), NEW i \in SteerIds(s.task[a])
      PROVE  s.task[a].channel_id \in Channel
  BY SteeredChannel
<1>2. ASSUME NEW a \in Busy(s.task), NEW i \in SteerIds(s.task[a])
      PROVE  i \in Ids(t.q.withheld_native_steer[t.task[a].channel_id]) \cup t.settled
  BY <1>1, <1>2 DEF Steers
<1>3. ASSUME NEW k \in A
      PROVE  k.event_id \in Ids(t.q.withheld_native_steer[k.channel_id]) \cup t.settled
  <2>1. k.channel_id \in Channel
    BY DEF AckType
  <2> QED
    BY <2>1 DEF Steers
<1>4. \A c \in Channel : \A i \in Ids(t.q.withheld_native_steer[c]) :
       \/ \E a \in Busy(t.task) : i \in SteerIds(t.task[a])
       \/ \E k \in A : i = k.event_id
  BY DEF Steers
<1> QED
  BY <1>2, <1>3, <1>4 DEF Steers

\* A table of timers names no channel but those of the set.
LEMMA TimerType ==
  ASSUME NEW q0, QueueOK(q0), NEW c \in Channel
  PROVE  /\ q0.in_flight_deadlines[c] \in Nat \cup {None}
         /\ q0.queues[c] \in Seq(Event)
         /\ q0.withheld_native_steer[c] \in Seq(Event)
         /\ q0.cancelled_batches[c] \in Seq(Event)
BY DEF QueueOK, QueueType, Timer

\* The deadline of every channel stays, or is taken away with the last turn.
LEMMA DeadlinesStay ==
  ASSUME NEW s, NEW A, Deadlines(s, A), NEW t, t.task = s.task,
         A \subseteq AckType, s.task \in [Agent -> TaskType \cup {None}],
         \A a \in Busy(s.task) : TaskOK(s.task[a]),
         \A c \in Channel : t.q.in_flight_deadlines[c] = s.q.in_flight_deadlines[c],
         t.q.in_flight_channels = s.q.in_flight_channels
  PROVE  Deadlines(t, A)
<1>1. ASSUME NEW a \in Busy(s.task), s.task[a].steerable \/ s.task[a].channel_id # None
      PROVE  s.task[a].channel_id \in Channel
  BY <1>1 DEF TaskOK, TaskType, Busy
<1>2. \A k \in A : k.channel_id \in Channel
  BY DEF AckType
<1>3. \A a \in Busy(s.task) : s.task[a].channel_id \in Channel
        /\ Covered(s, A, s.task[a]) => Covered(t, A, s.task[a])
  BY DEF Covered
<1>4. \A k \in A : t.q.in_flight_deadlines[k.channel_id] # 0
  BY <1>2 DEF Deadlines
<1>5. ASSUME NEW a \in Busy(t.task), t.task[a].steerable
      PROVE  \/ t.q.in_flight_deadlines[t.task[a].channel_id] = None
             \/ Covered(t, A, t.task[a])
  BY <1>1, <1>3, <1>5 DEF Deadlines
<1>6. ASSUME ~InitialMessage, NEW a \in Busy(t.task), t.task[a].channel_id # None
      PROVE  Covered(t, A, t.task[a])
  BY <1>1, <1>3, <1>6 DEF Deadlines
<1>7. ~InitialMessage =>
       /\ \A a, b \in Busy(t.task) :
            t.task[a].channel_id # None /\ t.task[a].channel_id = t.task[b].channel_id
              => a = b
       /\ \A c \in t.q.in_flight_channels : \E a \in Busy(t.task) : t.task[a].channel_id = c
  BY DEF Deadlines
<1> QED
  BY <1>4, <1>5, <1>6, <1>7 DEF Deadlines

-----------------------------------------------------------------------------
(* Expiry *)

\* What a channel whose deadline has run out has not: a turn that can be steered
\* or an ack on its way; and, without an initial message, there is none such.
LEMMA ExpiredIsQuiet ==
  ASSUME NEW s, NEW A, NEW n, Good(s, A, n), A \subseteq AckType,
         NEW c \in Expired(s.q)
  PROVE  /\ c \in Channel
         /\ \A k \in A : k.channel_id # c
         /\ \A a \in Busy(s.task) : s.task[a].steerable => s.task[a].channel_id # c
         /\ InitialMessage
<1>1. c \in Channel /\ s.q.in_flight_deadlines[c] = 0
  BY DEF Expired
<1>2. 0 # None
  BY QueueConstants
<1>3. \A a \in Busy(s.task) : s.task[a].channel_id = c => ~Covered(s, A, s.task[a])
  BY <1>1 DEF Covered
<1>4. c \in s.q.in_flight_channels
  BY <1>1, <1>2 DEF Good, QueueOK
<1>5. \A k \in A : k.channel_id # c
  BY <1>1 DEF Good, Deadlines
<1>6. \A a \in Busy(s.task) : s.task[a].steerable => s.task[a].channel_id # c
  BY <1>1, <1>2, <1>3 DEF Good, Deadlines
<1>7. c # None
  BY <1>1, HarnessConstants
<1>8. InitialMessage
  BY <1>3, <1>4, <1>7, HarnessConstants DEF Good, Deadlines
<1> QED
  BY <1>1, <1>5, <1>6, <1>8

\* The fields of the record after an expiry.
LEMMA ExpireFields ==
  ASSUME NEW s \in MainType
  PROVE  /\ SameSlots(Expire(s), s)
         /\ Expire(s).q = expire(s.q)
         /\ Expire(s).settled = s.settled \cup ExpiryTrimmed(s.q)
         /\ Expire(s).interrupted = s.interrupted
         /\ expire(s.q) \in QueueType /\ ExpiryTrimmed(s.q) \subseteq Nat => Expire(s) \in MainType
BY DEF Expire, Settle, SameSlots, MainType

\* What an expiry leaves in the tables of a channel.
LEMMA ExpireTables ==
  ASSUME NEW r, QueueOK(r), NEW c \in Channel
  PROVE  /\ c \notin Expired(r) =>
              /\ expire(r).withheld_native_steer[c] = r.withheld_native_steer[c]
              /\ expire(r).in_flight_deadlines[c] = r.in_flight_deadlines[c]
         /\ c \in Expired(r) =>
              /\ expire(r).withheld_native_steer[c] = <<>>
              /\ expire(r).in_flight_deadlines[c] = None
         /\ expire(r).in_flight_channels = r.in_flight_channels \ Expired(r)
         /\ expire(r).cancelled_batches = r.cancelled_batches
BY DEF expire, QueueOK, QueueType

\* The expiry loop of flush_next and has_flushable_work.
LEMMA ExpireGood ==
  ASSUME NEW s, NEW A, NEW n, Good(s, A, n), A \subseteq AckType, n \in Nat
  PROVE  Good(Expire(s), A, n)
<1> DEFINE t == Expire(s)
           X == Expired(s.q)
<1>1. /\ s \in MainType /\ QueueOK(s.q) /\ Events(s, n) /\ Neat(s.q)
      /\ \A a \in Busy(s.task) : TaskOK(s.task[a])
      /\ s.task \in [Agent -> TaskType \cup {None}]
  BY DEF Good, Events, MainType
<1>2. /\ Neat(expire(s.q)) /\ AllIds(expire(s.q)) = AllIds(s.q) \ ExpiryTrimmed(s.q)
      /\ ExpiryTrimmed(s.q) \subseteq AllIds(s.q)
      /\ expire(s.q).cancelled_batches = s.q.cancelled_batches
  BY <1>1, ExpireMoves
<1>3. QueueOK(expire(s.q)) /\ expire(s.q) \in QueueType
  BY <1>1, ExpireOK DEF QueueOK
<1>4. ExpiryTrimmed(s.q) \subseteq Nat
  BY <1>1, <1>2 DEF Events
<1>5. /\ t \in MainType /\ SameSlots(t, s) /\ t.q = expire(s.q)
      /\ t.settled = s.settled \cup ExpiryTrimmed(s.q) /\ t.interrupted = s.interrupted
  BY <1>1, <1>3, <1>4, ExpireFields
<1> HIDE DEF t
<1>6. Events(t, n)
  <2>1. \A c \in Channel : t.q.cancelled_batches[c] \in {<<>>, s.q.cancelled_batches[c]}
    BY <1>2, <1>5
  <2> DEFINE D == ExpiryTrimmed(s.q)
  <2>2. /\ D \subseteq AllIds(s.q) /\ Neat(t.q) /\ AllIds(t.q) = AllIds(s.q) \ D
        /\ t.settled = s.settled \cup D /\ t.task = s.task /\ t.interrupted = s.interrupted
    BY <1>2, <1>5 DEF SameSlots
  <2> HIDE DEF D
  <2> QED
    BY <1>1, <2>1, <2>2, EventsDrop
<1>7. t.task = s.task
  BY <1>5 DEF SameSlots
<1>8. \A a \in Busy(s.task) : \A i \in SteerIds(s.task[a]) :
        s.task[a].channel_id \in Channel \ X
  BY <1>1, SteeredChannel, ExpiredIsQuiet
<1>9. \A k \in A : k.channel_id \in Channel \ X
  BY ExpiredIsQuiet DEF AckType
<1>10. Steers(t, A)
  <2>1. \A c \in Channel \ X :
          t.q.withheld_native_steer[c] = s.q.withheld_native_steer[c]
    BY <1>1, <1>5, ExpireTables
  <2>2. \A c \in X : Ids(t.q.withheld_native_steer[c]) = {}
    <3>1. \A c \in X : c \in Channel
      BY DEF Expired
    <3> QED
      BY <3>1, <1>1, <1>5, ExpireTables, EmptyIds
  <2>3. s.settled \subseteq t.settled
    BY <1>5
  <2>4. \A a \in Busy(t.task) : \A i \in SteerIds(t.task[a]) :
          i \in Ids(t.q.withheld_native_steer[t.task[a].channel_id]) \cup t.settled
    BY <1>7, <1>8, <2>1, <2>3 DEF Good, Steers
  <2>5. \A k \in A : k.event_id \in Ids(t.q.withheld_native_steer[k.channel_id]) \cup t.settled
    BY <1>9, <2>1, <2>3 DEF Good, Steers
  <2>6. \A c \in Channel : \A i \in Ids(t.q.withheld_native_steer[c]) :
         \/ \E a \in Busy(t.task) : i \in SteerIds(t.task[a])
         \/ \E k \in A : i = k.event_id
    BY <1>7, <2>1, <2>2 DEF Good, Steers
  <2> HIDE DEF X
  <2> QED
    BY <1>7, <2>4, <2>5, <2>6 DEF Good, Steers
<1>11. Deadlines(t, A)
  <2>1. \A c \in Channel \ X : t.q.in_flight_deadlines[c] = s.q.in_flight_deadlines[c]
    BY <1>1, <1>5, ExpireTables
  <2>2. \A k \in A : t.q.in_flight_deadlines[k.channel_id] # 0
    BY <1>9, <2>1 DEF Good, Deadlines
  <2>3. \A a \in Busy(t.task) : t.task[a].steerable =>
       \/ t.q.in_flight_deadlines[t.task[a].channel_id] = None
       \/ Covered(t, A, t.task[a])
    <3> SUFFICES ASSUME NEW a \in Busy(s.task), s.task[a].steerable
                 PROVE  \/ t.q.in_flight_deadlines[s.task[a].channel_id] = None
                        \/ Covered(t, A, s.task[a])
      BY <1>7
    <3>1. s.task[a].channel_id \in Channel \ X
      <4>1. s.task[a].channel_id \in Channel
        BY <1>1 DEF TaskOK, TaskType, Busy
      <4> QED
        BY <4>1, ExpiredIsQuiet
    <3> QED
      BY <2>1, <3>1 DEF Good, Deadlines, Covered
  <2>4. CASE InitialMessage
    BY <2>2, <2>3, <2>4 DEF Deadlines
  <2>5. CASE ~InitialMessage
    <3>1. X = {}
      BY <2>5, ExpiredIsQuiet
    <3>2. \A c \in Channel : t.q.in_flight_deadlines[c] = s.q.in_flight_deadlines[c]
      BY <2>1, <3>1
    <3>3. t.q.in_flight_channels = s.q.in_flight_channels
      <4>1. expire(s.q).in_flight_channels = s.q.in_flight_channels \ X
        BY DEF expire
      <4> QED
        BY <4>1, <3>1, <1>5
    <3> QED
      BY <1>1, <1>7, <3>2, <3>3, DeadlinesStay DEF Good
  <2> QED
    BY <2>4, <2>5
<1>12. Slots(t)
  BY <1>5 DEF Good, Slots, SameSlots
<1> QED
  BY <1>1, <1>3, <1>5, <1>6, <1>7, <1>10, <1>11, <1>12 DEF Good, t

-----------------------------------------------------------------------------
(* dispatch_pending *)

\* What flush_next leaves in the tables of a channel.
LEMMA FlushTables ==
  ASSUME NEW r, QueueOK(r), NEW c \in FlushChannels(r)
  PROVE  /\ c \in Channel \ r.in_flight_channels
         /\ \A d \in Channel :
              /\ flush_next(r, c).withheld_native_steer[d] = r.withheld_native_steer[d]
              /\ flush_next(r, c).in_flight_deadlines[d] =
                   IF d = c THEN in_flight_deadline ELSE r.in_flight_deadlines[d]
         /\ flush_next(r, c).in_flight_channels = r.in_flight_channels \cup {c}
<1>1. c \in Channel \ r.in_flight_channels
  BY DEF FlushChannels, Ready, CancelledOnly
<1> QED
  BY <1>1 DEF flush_next, QueueOK, QueueType

\* A new turn is a task with the batch that was flushed.
LEMMA NewTaskOK ==
  ASSUME NEW r, QueueOK(r), NEW c \in FlushChannels(r),
         NEW phase \in IF InitialMessage THEN {"init", "prompt"} ELSE {"prompt"}
  PROVE  LET t == NewTask(FlushedBatch(r, c), phase)
         IN  /\ t \in TaskType /\ TaskOK(t) /\ t # None
             /\ t.channel_id = c /\ t.batch = FlushedBatch(r, c) /\ t.batch # None
             /\ SteerIds(t) = {} /\ t.left = MaxTurn
<1> DEFINE b == FlushedBatch(r, c)
<1>1. b \in FlushBatch /\ b.events # <<>> /\ c \in Channel
  BY FlushedBatchType
<1>2. b.channel_id = c
  BY DEF FlushedBatch
<1> HIDE DEF b
<1> DEFINE t == NewTask(b, phase)
<1>3. b # None /\ c # None
  BY <1>1, HarnessConstants, NoneIsAbsent
<1>4. /\ t.channel_id = c /\ t.batch = b /\ t.control = "open" /\ t.steerable = TRUE
      /\ t.steer_tx = None /\ t.pending_steer = None /\ t.phase = phase
      /\ t.left = MaxTurn /\ t.result = None
  BY <1>2 DEF NewTask
<1>5. MaxTurn \in 0..MaxTurn
  BY QueueConstants
<1>6. t \in TaskType
  BY <1>1, <1>2, <1>5 DEF NewTask, TaskType, BatchOrNone
<1>7. t # None
  BY <1>6, NoneIsAbsent
<1> HIDE DEF t
<1>8. TaskOK(t)
  BY <1>1, <1>2, <1>3, <1>4 DEF TaskOK
<1>9. SteerIds(t) = {}
  BY <1>4 DEF SteerIds
<1> QED
  BY <1>3, <1>4, <1>6, <1>7, <1>8, <1>9 DEF t, b

\* The record after a claim.
LEMMA ClaimFields ==
  ASSUME NEW s \in MainType, NEW t \in Claim(s)
  PROVE  \E c \in FlushChannels(s.q), a \in s.idle :
         \E phase \in IF InitialMessage THEN {"init", "prompt"} ELSE {"prompt"} :
           LET k == NewTask(FlushedBatch(s.q, c), phase) IN
           /\ t.q = flush_next(s.q, c) /\ t.idle = s.idle \ {a}
           /\ t.task = [s.task EXCEPT ![a] = k]
           /\ t.respawn = s.respawn /\ t.circuit = s.circuit /\ t.hb = s.hb
           /\ t.settled = s.settled /\ t.interrupted = s.interrupted
           /\ flush_next(s.q, c) \in QueueType /\ k \in TaskType => t \in MainType
<1> PICK c \in FlushChannels(s.q), a \in s.idle,
         phase \in IF InitialMessage THEN {"init", "prompt"} ELSE {"prompt"} :
       t = StartTurn(s, c, a, phase)
  BY DEF Claim
<1> DEFINE k == NewTask(FlushedBatch(s.q, c), phase)
<1> HIDE DEF k
<1>1. t = [s EXCEPT !.q = flush_next(s.q, c), !.idle = @ \ {a}, !.task[a] = k]
  BY DEF StartTurn, k
<1>2. a \in Agent
  BY DEF MainType
<1>3. /\ t.q = flush_next(s.q, c) /\ t.idle = s.idle \ {a}
      /\ t.task = [s.task EXCEPT ![a] = k]
      /\ t.respawn = s.respawn /\ t.circuit = s.circuit /\ t.hb = s.hb
      /\ t.settled = s.settled /\ t.interrupted = s.interrupted
  BY <1>1 DEF MainType
<1>4. ASSUME flush_next(s.q, c) \in QueueType, k \in TaskType
      PROVE  t \in MainType
  <2> DEFINE tk == [s.task EXCEPT ![a] = k]
  <2>1. tk \in [Agent -> TaskType \cup {None}] /\ s.idle \ {a} \in SUBSET Agent
    BY <1>2, <1>4 DEF MainType
  <2>2. t = [s EXCEPT !.q = flush_next(s.q, c), !.idle = s.idle \ {a}, !.task = tk]
    BY <1>1 DEF MainType
  <2> HIDE DEF tk
  <2> QED
    BY <1>4, <2>1, <2>2 DEF MainType
<1> QED
  BY <1>3, <1>4 DEF k

\* One more turn, with the batch that flush_next took.
LEMMA ClaimGood ==
  ASSUME NEW s, NEW A, NEW n, Good(s, A, n), A \subseteq AckType, n \in Nat,
         NEW t \in Claim(s)
  PROVE  Good(t, A, n)
<1>1. /\ s \in MainType /\ QueueOK(s.q) /\ Events(s, n) /\ Neat(s.q)
      /\ Slots(s) /\ Steers(s, A) /\ Deadlines(s, A)
      /\ \A a \in Busy(s.task) : TaskOK(s.task[a])
      /\ s.task \in [Agent -> TaskType \cup {None}]
  BY DEF Good, Events, MainType
<1> PICK c \in FlushChannels(s.q), a \in s.idle,
         phase \in IF InitialMessage THEN {"init", "prompt"} ELSE {"prompt"} :
           LET k == NewTask(FlushedBatch(s.q, c), phase) IN
           /\ t.q = flush_next(s.q, c) /\ t.idle = s.idle \ {a}
           /\ t.task = [s.task EXCEPT ![a] = k]
           /\ t.respawn = s.respawn /\ t.circuit = s.circuit /\ t.hb = s.hb
           /\ t.settled = s.settled /\ t.interrupted = s.interrupted
           /\ flush_next(s.q, c) \in QueueType /\ k \in TaskType => t \in MainType
  BY <1>1, ClaimFields
<1> DEFINE b == FlushedBatch(s.q, c)
           k == NewTask(b, phase)
<1>2. /\ k \in TaskType /\ TaskOK(k) /\ k # None
      /\ k.channel_id = c /\ k.batch = b /\ b # None
      /\ SteerIds(k) = {} /\ k.left = MaxTurn
  BY <1>1, NewTaskOK
<1>3. c \in Channel
  BY <1>1, FlushTables
<1>4. QueueOK(flush_next(s.q, c)) /\ flush_next(s.q, c) \in QueueType
  BY <1>1, <1>3, FlushOK DEF QueueOK
<1>5. /\ t.q = flush_next(s.q, c) /\ t.idle = s.idle \ {a}
      /\ t.task = [s.task EXCEPT ![a] = k]
      /\ t.respawn = s.respawn /\ t.circuit = s.circuit /\ t.hb = s.hb
      /\ t.settled = s.settled /\ t.interrupted = s.interrupted
      /\ t \in MainType
  BY <1>2, <1>4
<1>6. /\ Neat(t.q) /\ AllIds(t.q) = AllIds(s.q) \ BatchIds(b)
      /\ BatchIds(b) \subseteq AllIds(s.q)
      /\ Distinct(b.cancelled_events \o b.events)
      /\ Ids(b.cancelled_events) \subseteq Ids(s.q.cancelled_batches[c])
      /\ \A d \in Channel : t.q.cancelled_batches[d] \in {<<>>, s.q.cancelled_batches[d]}
  BY <1>1, <1>2, <1>5, FlushMoves DEF BatchIds
<1> HIDE DEF k, b
<1>7. a \in Agent /\ a \notin Busy(s.task)
  BY <1>1 DEF MainType, Slots
<1>8. /\ Busy(t.task) = Busy(s.task) \cup {a}
      /\ t.task[a] = k
      /\ \A x \in Busy(s.task) : t.task[x] = s.task[x] /\ x # a
  BY <1>1, <1>2, <1>5, <1>7 DEF Busy
<1>9. Slots(t)
  <2>1. k.channel_id # None
    BY <1>2, <1>3, HarnessConstants
  <2>2. \A x \in Busy(t.task) : t.task[x].channel_id = None => x \in Busy(s.task)
    BY <1>8, <2>1
  <2>3. t.hb <=> \E x \in Busy(t.task) : t.task[x].channel_id = None
    BY <1>1, <1>5, <1>8, <2>2 DEF Slots
  <2>4. \A x, y \in Busy(t.task) :
          t.task[x].channel_id = None /\ t.task[y].channel_id = None => x = y
    BY <1>1, <1>8, <2>2 DEF Slots
  <2> QED
    BY <1>1, <1>5, <1>7, <1>8, <2>3, <2>4 DEF Slots
<1>10. \A x \in Busy(t.task) : TaskOK(t.task[x])
  BY <1>1, <1>2, <1>8
<1>11. Events(t, n)
  <2>1. \A x \in Busy(s.task) : BatchIdsOf(t, x) = BatchIdsOf(s, x)
    BY <1>8 DEF BatchIdsOf
  <2>2. BatchIdsOf(t, a) = BatchIds(b)
    BY <1>2, <1>8 DEF BatchIdsOf
  <2>3. InTurns(t) = InTurns(s) \cup BatchIds(b)
    BY <1>8, <2>1, <2>2 DEF InTurns
  <2>4. \A x \in Busy(s.task) : BatchIdsOf(s, x) \subseteq InTurns(s)
    BY DEF InTurns
  <2>5. \A x, y \in Busy(t.task) : x # y => BatchIdsOf(t, x) \cap BatchIdsOf(t, y) = {}
    BY <1>1, <1>6, <1>8, <2>1, <2>2, <2>4 DEF Events
  <2>6. \A x \in Busy(t.task) : t.task[x].batch # None =>
          /\ Distinct(t.task[x].batch.cancelled_events \o t.task[x].batch.events)
          /\ Ids(t.task[x].batch.cancelled_events) \subseteq t.interrupted
    BY <1>1, <1>2, <1>3, <1>5, <1>6, <1>8 DEF Events
  <2>7. \A d \in Channel : Ids(t.q.cancelled_batches[d]) \subseteq t.interrupted
    BY <1>1, <1>5, <1>6, EmptyIds DEF Events
  <2>8. /\ AllIds(t.q) \cap InTurns(t) = {}
        /\ t.settled \cap (AllIds(t.q) \cup InTurns(t)) = {}
        /\ AllIds(t.q) \cup InTurns(t) \cup t.settled \subseteq 1..n
        /\ 1..n \subseteq AllIds(t.q) \cup InTurns(t) \cup t.settled \cup t.interrupted
        /\ DropMode => t.interrupted = {}
    BY <1>1, <1>5, <1>6, <2>3 DEF Events
  <2> QED
    BY <1>6, <2>5, <2>6, <2>7, <2>8 DEF Events
<1>12. \A d \in Channel : t.q.withheld_native_steer[d] = s.q.withheld_native_steer[d]
  BY <1>1, <1>5, FlushTables
<1>13. Steers(t, A)
  <2>1. \A x \in Busy(s.task) : \A i \in SteerIds(s.task[x]) : s.task[x].channel_id \in Channel
    BY <1>1, SteeredChannel
  <2>2. \A x \in Busy(t.task) : \A i \in SteerIds(t.task[x]) :
          i \in Ids(t.q.withheld_native_steer[t.task[x].channel_id]) \cup t.settled
    BY <1>1, <1>2, <1>5, <1>8, <1>12, <2>1 DEF Steers
  <2>3. \A y \in A : y.event_id \in Ids(t.q.withheld_native_steer[y.channel_id]) \cup t.settled
    BY <1>1, <1>5, <1>12 DEF Steers, AckType
  <2>4. \A d \in Channel : \A i \in Ids(t.q.withheld_native_steer[d]) :
         \/ \E x \in Busy(t.task) : i \in SteerIds(t.task[x])
         \/ \E y \in A : i = y.event_id
    <3> SUFFICES ASSUME NEW d \in Channel, NEW i \in Ids(t.q.withheld_native_steer[d]),
                        ~\E y \in A : i = y.event_id
                 PROVE  \E x \in Busy(t.task) : i \in SteerIds(t.task[x])
      OBVIOUS
    <3>1. PICK x \in Busy(s.task) : i \in SteerIds(s.task[x])
      BY <1>1, <1>12 DEF Steers
    <3> QED
      BY <1>8, <3>1
  <2>5. \A x \in Busy(t.task) :
          t.task[x].steer_tx # None => t.task[x].steer_tx # t.task[x].pending_steer
    <3>1. k.steer_tx = None
      BY DEF k, NewTask
    <3> QED
      BY <1>1, <1>8, <3>1 DEF Steers
  <2>6. /\ \A x, y \in Busy(t.task) : x # y => SteerIds(t.task[x]) \cap SteerIds(t.task[y]) = {}
        /\ \A x \in Busy(t.task), y \in A : y.event_id \notin SteerIds(t.task[x])
    <3>1. SteerIds(t.task[a]) = {}
      BY <1>2, <1>8
    <3>2. /\ Busy(t.task) = Busy(s.task) \cup {a}
          /\ \A x \in Busy(s.task) : SteerIds(t.task[x]) = SteerIds(s.task[x])
      BY <1>8
    <3>3. /\ \A x, y \in Busy(s.task) : x # y => SteerIds(s.task[x]) \cap SteerIds(s.task[y]) = {}
          /\ \A x \in Busy(s.task), y \in A : y.event_id \notin SteerIds(s.task[x])
      BY <1>1 DEF Steers
    <3>4. ASSUME NEW x \in Busy(t.task), NEW y \in Busy(t.task), x # y
          PROVE  SteerIds(t.task[x]) \cap SteerIds(t.task[y]) = {}
      BY <3>1, <3>2, <3>3, <3>4
    <3>5. ASSUME NEW x \in Busy(t.task), NEW y \in A
          PROVE  y.event_id \notin SteerIds(t.task[x])
      BY <3>1, <3>2, <3>3
    <3> QED
      BY <3>4, <3>5
  <2> QED
    BY <1>1, <2>2, <2>3, <2>4, <2>5, <2>6 DEF Steers
<1>14. Deadlines(t, A)
  <2>1. /\ \A d \in Channel : t.q.in_flight_deadlines[d] =
             IF d = c THEN in_flight_deadline ELSE s.q.in_flight_deadlines[d]
        /\ t.q.in_flight_channels = s.q.in_flight_channels \cup {c}
        /\ c \notin s.q.in_flight_channels
    BY <1>1, <1>5, FlushTables
  <2>2. /\ in_flight_deadline \in Nat \ {0, None}
        /\ \A l \in 0..MaxTurn : in_flight_deadline >= l + DeadlineBuffer
    BY QueueConstants DEF in_flight_deadline
  <2>3. \A x \in Busy(t.task) : t.task[x].left \in 0..MaxTurn
    BY <1>1, <1>2, <1>8 DEF TaskType, Busy
  <2>4. \A x \in Busy(t.task) : t.task[x].channel_id = c => Covered(t, A, t.task[x])
    BY <1>3, <2>1, <2>2, <2>3 DEF Covered
  <2>5. \A x \in Busy(s.task) : s.task[x].channel_id \in Channel \ {c} =>
          /\ t.q.in_flight_deadlines[t.task[x].channel_id]
               = s.q.in_flight_deadlines[s.task[x].channel_id]
          /\ Covered(s, A, s.task[x]) => Covered(t, A, t.task[x])
    BY <1>8, <2>1 DEF Covered
  <2>6. \A x \in Busy(s.task) : /\ s.task[x].steerable => s.task[x].channel_id \in Channel
                                /\ s.task[x].channel_id # None => s.task[x].channel_id \in Channel
    BY <1>1 DEF TaskOK, TaskType, Busy
  <2>7. \A y \in A : t.q.in_flight_deadlines[y.channel_id] # 0
    BY <1>1, <2>1, <2>2 DEF Deadlines, AckType
  <2>8. ASSUME NEW x \in Busy(t.task), t.task[x].steerable
        PROVE  \/ t.q.in_flight_deadlines[t.task[x].channel_id] = None
               \/ Covered(t, A, t.task[x])
    BY <1>1, <1>2, <1>8, <2>4, <2>5, <2>6, <2>8 DEF Deadlines
  <2>9. ASSUME ~InitialMessage
        PROVE  /\ \A x \in Busy(t.task) :
                    t.task[x].channel_id # None => Covered(t, A, t.task[x])
               /\ \A x, y \in Busy(t.task) :
                    t.task[x].channel_id # None /\ t.task[x].channel_id = t.task[y].channel_id
                      => x = y
               /\ \A d \in t.q.in_flight_channels :
                    \E x \in Busy(t.task) : t.task[x].channel_id = d
    <3>1. \A x \in Busy(t.task) : t.task[x].channel_id # None => Covered(t, A, t.task[x])
      BY <1>1, <1>2, <1>8, <2>4, <2>5, <2>6, <2>9 DEF Deadlines
    <3>2. \A x \in Busy(s.task) : s.task[x].channel_id # c
      <4> SUFFICES ASSUME NEW x \in Busy(s.task), s.task[x].channel_id = c PROVE FALSE
        OBVIOUS
      <4>1. Covered(s, A, s.task[x])
        BY <1>1, <1>3, <2>9, HarnessConstants DEF Deadlines
      <4>2. s.q.in_flight_deadlines[c] # None
        BY <4>1 DEF Covered
      <4> QED
        BY <1>1, <1>3, <2>1, <4>2 DEF QueueOK
    <3>3. \A x, y \in Busy(t.task) :
            t.task[x].channel_id # None /\ t.task[x].channel_id = t.task[y].channel_id
              => x = y
      BY <1>1, <1>2, <1>8, <2>9, <3>2 DEF Deadlines
    <3>4. \A d \in t.q.in_flight_channels : \E x \in Busy(t.task) : t.task[x].channel_id = d
      BY <1>1, <1>2, <1>8, <2>1, <2>9 DEF Deadlines
    <3> QED
      BY <3>1, <3>3, <3>4
  <2> QED
    BY <2>7, <2>8, <2>9 DEF Deadlines
<1> QED
  BY <1>4, <1>5, <1>9, <1>10, <1>11, <1>13, <1>14 DEF Good

\* What mark_complete leaves in the tables of a channel.
LEMMA CompleteTables ==
  ASSUME NEW r, QueueOK(r), NEW c \in Channel
  PROVE  /\ \A d \in Channel : mark_complete(r, c).in_flight_deadlines[d] =
                                 IF d = c THEN None ELSE r.in_flight_deadlines[d]
         /\ mark_complete(r, c).in_flight_channels = r.in_flight_channels \ {c}
         /\ mark_complete(r, c).withheld_native_steer = r.withheld_native_steer
         /\ mark_complete(r, c).cancelled_batches = r.cancelled_batches
BY DEF mark_complete, QueueOK, QueueType

\* push_front touches one queue.
LEMMA FrontTables ==
  ASSUME NEW r, QueueOK(r), NEW c \in Channel, NEW x
  PROVE  /\ push_front(r, c, x).in_flight_deadlines = r.in_flight_deadlines
         /\ push_front(r, c, x).in_flight_channels = r.in_flight_channels
         /\ push_front(r, c, x).withheld_native_steer = r.withheld_native_steer
         /\ push_front(r, c, x).cancelled_batches = r.cancelled_batches
BY DEF push_front, QueueOK, QueueType

\* The record after an iteration that finds no agent.
LEMMA ExhaustedFields ==
  ASSUME NEW s \in MainType, NEW t \in PoolExhausted(s)
  PROVE  \E c \in FlushChannels(s.q) :
           LET b == FlushedBatch(s.q, c)
               q1 == flush_next(s.q, c)
               r == mark_complete(push_front(q1, b.channel_id, b.events), c)
               D == Trimmed(b.events \o q1.queues[c])
           IN  /\ t.q = r /\ t.settled = s.settled \cup D
               /\ SameSlots(t, s) /\ t.interrupted = s.interrupted
               /\ r \in QueueType /\ D \subseteq Nat => t \in MainType
<1> PICK c \in FlushChannels(s.q) :
      t = LET b == FlushedBatch(s.q, c)
              q1 == flush_next(s.q, c)
          IN  [Settle(s, Trimmed(b.events \o q1.queues[c])) EXCEPT
                 !.q = mark_complete(requeue_preserve_timestamps(q1, b), c)]
  BY DEF PoolExhausted
<1> DEFINE b == FlushedBatch(s.q, c)
           q1 == flush_next(s.q, c)
           r == mark_complete(push_front(q1, b.channel_id, b.events), c)
           D == Trimmed(b.events \o q1.queues[c])
<1>1. t = [Settle(s, D) EXCEPT !.q = r]
  BY DEF requeue_preserve_timestamps
<1> HIDE DEF r, D
<1>2. /\ t.q = r /\ t.settled = s.settled \cup D
      /\ SameSlots(t, s) /\ t.interrupted = s.interrupted
      /\ r \in QueueType /\ D \subseteq Nat => t \in MainType
  BY <1>1, ZenonT(60) DEF Settle, MainType, SameSlots
<1> QED
  BY <1>2 DEF r, D

\* The batch goes back to the front of its queue; what it had merged is lost, and
\* what does not fit is dropped.
LEMMA ExhaustedGood ==
  ASSUME NEW s, NEW A, NEW n, Good(s, A, n), A \subseteq AckType, n \in Nat,
         NEW t \in PoolExhausted(s)
  PROVE  Good(t, A, n)
<1>1. /\ s \in MainType /\ QueueOK(s.q) /\ Events(s, n) /\ Neat(s.q)
      /\ Slots(s) /\ Steers(s, A) /\ Deadlines(s, A)
      /\ \A a \in Busy(s.task) : TaskOK(s.task[a])
      /\ s.task \in [Agent -> TaskType \cup {None}]
  BY DEF Good, Events, MainType
<1> PICK c \in FlushChannels(s.q) :
           LET b == FlushedBatch(s.q, c)
               q1 == flush_next(s.q, c)
               r == mark_complete(push_front(q1, b.channel_id, b.events), c)
               D == Trimmed(b.events \o q1.queues[c])
           IN  /\ t.q = r /\ t.settled = s.settled \cup D
               /\ SameSlots(t, s) /\ t.interrupted = s.interrupted
               /\ r \in QueueType /\ D \subseteq Nat => t \in MainType
  BY <1>1, ExhaustedFields
<1> DEFINE b == FlushedBatch(s.q, c)
           q1 == flush_next(s.q, c)
           q2 == push_front(q1, c, b.events)
           D == Trimmed(b.events \o q1.queues[c])
<1>2. b.channel_id = c /\ c \in Channel /\ b \in FlushBatch /\ b.events \in Seq(Event)
  BY <1>1, FlushedBatchType DEF FlushedBatch, FlushBatch
<1>3. /\ t.q = mark_complete(q2, c) /\ t.settled = s.settled \cup D
      /\ SameSlots(t, s) /\ t.interrupted = s.interrupted
      /\ mark_complete(q2, c) \in QueueType /\ D \subseteq Nat => t \in MainType
  BY <1>2
<1>4. QueueOK(q1) /\ QueueOK(q2) /\ QueueOK(t.q)
  BY <1>1, <1>2, <1>3, FlushOK, PushFrontOK, MarkCompleteOK
<1>5. /\ Neat(q1) /\ AllIds(q1) = AllIds(s.q) \ (Ids(b.events) \cup Ids(b.cancelled_events))
      /\ Ids(b.events) \cup Ids(b.cancelled_events) \subseteq AllIds(s.q)
      /\ Distinct(b.cancelled_events \o b.events)
      /\ Ids(b.cancelled_events) \subseteq Ids(s.q.cancelled_batches[c])
      /\ \A d \in Channel : q1.cancelled_batches[d] \in {<<>>, s.q.cancelled_batches[d]}
  BY <1>1, FlushMoves
<1>6. /\ Distinct(b.events) /\ Ids(b.cancelled_events) \cap Ids(b.events) = {}
  BY <1>2, <1>5, ConcatIds DEF FlushBatch, Apart
<1>7. /\ Neat(q2) /\ AllIds(q2) = (AllIds(q1) \cup Ids(b.events)) \ D
      /\ D \subseteq AllIds(q1) \cup Ids(b.events)
      /\ q2.cancelled_batches = q1.cancelled_batches
  BY <1>2, <1>4, <1>5, <1>6, PushFrontMoves
<1>8. \A d \in Channel : SameAt(t.q, q2, d)
  BY <1>2, <1>3, <1>4, TimersMoveNothing
<1>9. Neat(t.q) /\ AllIds(t.q) = AllIds(q2)
  BY <1>7, <1>8, ChangeNone
<1>10. \A d \in Channel : t.q.cancelled_batches[d] \in {<<>>, s.q.cancelled_batches[d]}
  BY <1>5, <1>7, <1>8 DEF SameAt
<1>11. D \subseteq AllIds(s.q) /\ D \subseteq Nat
  BY <1>1, <1>5, <1>7 DEF Events
<1>12. t \in MainType
  BY <1>3, <1>4, <1>11 DEF QueueOK
<1>13. \A d \in Channel : /\ t.q.withheld_native_steer[d] = s.q.withheld_native_steer[d]
                          /\ t.q.in_flight_deadlines[d] = s.q.in_flight_deadlines[d]
  <2>1. \A d \in Channel : /\ q1.withheld_native_steer[d] = s.q.withheld_native_steer[d]
                           /\ q1.in_flight_deadlines[d] =
                                IF d = c THEN in_flight_deadline ELSE s.q.in_flight_deadlines[d]
    BY <1>1, FlushTables
  <2>2. s.q.in_flight_deadlines[c] = None
    BY <1>1, <1>2, FlushTables DEF QueueOK
  <2> QED
    BY <1>2, <1>3, <1>4, <2>1, <2>2, CompleteTables, FrontTables
<1>14. t.q.in_flight_channels = s.q.in_flight_channels
  <2>1. /\ q1.in_flight_channels = s.q.in_flight_channels \cup {c}
        /\ c \notin s.q.in_flight_channels
    BY <1>1, FlushTables
  <2>2. q2.in_flight_channels = q1.in_flight_channels
    BY <1>2, <1>4, FrontTables
  <2>3. t.q.in_flight_channels = q2.in_flight_channels \ {c}
    BY <1>2, <1>3, <1>4, CompleteTables
  <2> HIDE DEF q1, q2
  <2> QED
    BY <2>1, <2>2, <2>3
<1> HIDE DEF D, b, q1, q2
<1>15. Events(t, n)
  <2> DEFINE L == Ids(b.cancelled_events) \ D
  <2>1. L \subseteq s.interrupted
    BY <1>1, <1>2, <1>5 DEF Events
  <2>2. AllIds(t.q) = AllIds(s.q) \ (D \cup L)
    BY <1>5, <1>6, <1>7, <1>9
  <2>3. t.task = s.task
    BY <1>3 DEF SameSlots
  <2> HIDE DEF L
  <2> QED
    BY <1>1, <1>3, <1>9, <1>10, <1>11, <2>1, <2>2, <2>3, EventsLose
<1>16. t.task = s.task /\ s.settled \subseteq t.settled /\ Slots(t)
  BY <1>1, <1>3 DEF SameSlots, Slots
<1>17. Steers(t, A)
  BY <1>1, <1>13, <1>16, SteersStay
<1>18. Deadlines(t, A)
  BY <1>1, <1>13, <1>14, <1>16, DeadlinesStay
<1> QED
  BY <1>1, <1>4, <1>12, <1>15, <1>16, <1>17, <1>18 DEF Good

-----------------------------------------------------------------------------
(* The loops *)

\* A set of naturals that is not empty has a least one.
LEMMA LeastNatural ==
  ASSUME NEW S, S \subseteq Nat, S # {}
  PROVE  \E n \in S : \A m \in S : n <= m
<1>1. PICK n \in S : \A m \in S : ~(<<m, n>> \in OpToRel(<, Nat))
  BY NatLessThanWellFounded, WFMin
<1>2. ASSUME NEW m \in S PROVE ~(m < n)
  <2>1. <<m, n>> \in Nat \X Nat
    OBVIOUS
  <2>2. m < n => <<m, n>> \in OpToRel(<, Nat)
    BY <2>1 DEF OpToRel
  <2> QED
    BY <1>1, <2>2
<1>3. \A m \in S : n <= m
  BY <1>2
<1> QED
  BY <1>3

\* A set of naturals that holds 0 and with every number below N the next one.
LEMMA CountUp ==
  ASSUME NEW N \in Nat, NEW S, 0 \in S, \A n \in 0..N : n + 1 \in 0..N /\ n \in S => n + 1 \in S
  PROVE  0..N \subseteq S
<1> DEFINE B == {n \in 0..N : n \notin S}
<1> SUFFICES ASSUME B # {} PROVE FALSE
  OBVIOUS
<1>0. B \subseteq Nat
  OBVIOUS
<1>1. PICK n \in B : \A m \in B : n <= m
  <2> HIDE DEF B
  <2> QED
    BY <1>0, LeastNatural
<1>2. n \in 1..N
  OBVIOUS
<1>3. n - 1 \in 0..N /\ n - 1 \notin B
  BY <1>1, <1>2
<1> QED
  BY <1>2, <1>3

\* The first m + 1 values of the recursive function that starts with base and
\* goes on with step.
Unfolds(f, m, base, step) ==
  f = [n \in 0..m |-> IF n = 0 THEN base ELSE step[f[n - 1]]]

\* A recursive function on 0..N exists.
LEMMA RecursionExists ==
  ASSUME NEW R, NEW base \in SUBSET R, NEW step \in [SUBSET R -> SUBSET R], NEW N \in Nat
  PROVE  \E f \in [0..N -> SUBSET R] : Unfolds(f, N, base, step)
<1> DEFINE S == {m \in Nat : \E f \in [0..m -> SUBSET R] : Unfolds(f, m, base, step)}
<1>1. 0 \in S
  <2> DEFINE f == [n \in 0..0 |-> base]
  <2>1. f \in [0..0 -> SUBSET R]
    OBVIOUS
  <2>2. Unfolds(f, 0, base, step)
    BY DEF Unfolds
  <2> QED
    BY <2>1, <2>2
<1>2. ASSUME NEW m \in Nat, m \in S PROVE m + 1 \in S
  <2>1. PICK g \in [0..m -> SUBSET R] : Unfolds(g, m, base, step)
    BY <1>2
  <2> DEFINE f == [n \in 0..(m + 1) |-> IF n = m + 1 THEN step[g[m]] ELSE g[n]]
  <2>2. g[m] \in SUBSET R /\ step[g[m]] \in SUBSET R
    OBVIOUS
  <2>3. f \in [0..(m + 1) -> SUBSET R]
    <3> SUFFICES ASSUME NEW n \in 0..(m + 1)
                 PROVE  (IF n = m + 1 THEN step[g[m]] ELSE g[n]) \in SUBSET R
      OBVIOUS
    <3>1. n = m + 1 \/ n \in 0..m
      OBVIOUS
    <3> QED
      BY <2>2, <3>1
  <2>4. \A n \in 0..(m + 1) : f[n] = IF n = 0 THEN base ELSE step[f[n - 1]]
    <3> SUFFICES ASSUME NEW n \in 0..(m + 1)
                 PROVE  f[n] = IF n = 0 THEN base ELSE step[f[n - 1]]
      OBVIOUS
    <3>1. CASE n = m + 1
      <4>1. f[n] = step[g[m]] /\ f[m] = g[m] /\ n - 1 = m /\ n # 0
        BY <3>1
      <4> QED
        BY <4>1
    <3>2. CASE n # m + 1
      <4>1. n \in 0..m /\ (n # 0 => n - 1 \in 0..m)
        BY <3>2
      <4>2. g[n] = IF n = 0 THEN base ELSE step[g[n - 1]]
        BY <2>1, <4>1 DEF Unfolds
      <4>3. f[n] = g[n] /\ (n # 0 => f[n - 1] = g[n - 1])
        BY <4>1
      <4> QED
        BY <4>2, <4>3
    <3> QED
      BY <3>1, <3>2
  <2>5. Unfolds(f, m + 1, base, step)
    BY <2>4 DEF Unfolds
  <2> QED
    BY <2>3, <2>5
<1>3. N \in S
  <2> HIDE DEF S
  <2>1. 0..N \subseteq S
    BY <1>1, <1>2, CountUp
  <2> QED
    BY <2>1
<1> QED
  BY <1>3

\* dispatch_pending is an expiry, some claims and perhaps an iteration that finds
\* no agent: whatever set these stay in, it stays in.
LEMMA DispatchStays ==
  ASSUME NEW s \in MainType, NEW R, Expire(s) \in R,
         \A t \in R : Claim(t) \subseteq R /\ PoolExhausted(t) \subseteq R
  PROVE  dispatch_pending(s) \subseteq R
<1> DEFINE N == Cardinality(Agent)
           More(X) == UNION {IF t.idle = {} \/ FlushChannels(t.q) = {} THEN {t} ELSE Claim(t)
                               : t \in X}
           Last(X) == UNION {IF FlushChannels(t.q) = {} THEN {t} ELSE PoolExhausted(t)
                               : t \in X}
           Iteration[n \in 0..N] == IF n = 0 THEN {Expire(s)} ELSE More(Iteration[n - 1])
           Is(f) == f = [n \in 0..N |-> IF n = 0 THEN {Expire(s)} ELSE More(f[n - 1])]
<1>1. dispatch_pending(s) = Last(Iteration[Cardinality(s.idle)])
  BY DEF dispatch_pending
<1>2. N \in Nat /\ Cardinality(s.idle) \in 0..N
  <2>1. s.idle \subseteq Agent
    BY DEF MainType
  <2>2. IsFiniteSet(Agent)
    BY HarnessConstants
  <2> QED
    BY <2>1, <2>2, FS_Subset, FS_CardinalityType
<1>3. ASSUME NEW X, X \subseteq R PROVE More(X) \subseteq R /\ Last(X) \subseteq R
  BY <1>3
<1>4. Iteration = CHOOSE f : Is(f)
  OBVIOUS
<1> HIDE DEF N, More, Last, Iteration
<1>5. \E f : Is(f)
  <2> DEFINE step == [X \in SUBSET R |-> More(X)]
             base == {Expire(s)}
  <2>1. step \in [SUBSET R -> SUBSET R] /\ base \in SUBSET R
    BY <1>3
  <2>2. \A X \in SUBSET R : step[X] = More(X)
    OBVIOUS
  <2> HIDE DEF step
  <2>3. PICK f \in [0..N -> SUBSET R] : Unfolds(f, N, base, step)
    <3> HIDE DEF base
    <3> QED
      BY <1>2, <2>1, RecursionExists
  <2>4. \A n \in 0..N : n # 0 => f[n - 1] \in SUBSET R
    BY <1>2
  <2>5. Is(f)
    BY <2>2, <2>3, <2>4 DEF Unfolds
  <2> QED
    BY <2>5
<1>6. Is(Iteration)
  <2> HIDE DEF Is
  <2> QED
    BY <1>4, <1>5
<1>7. \A n \in 0..N : Iteration[n] = IF n = 0 THEN {Expire(s)} ELSE More(Iteration[n - 1])
  BY <1>6
<1>8. 0..N \subseteq {n \in 0..N : Iteration[n] \subseteq R}
  <2> DEFINE S == {n \in 0..N : Iteration[n] \subseteq R}
  <2>1. 0 \in S
    BY <1>2, <1>7
  <2>2. ASSUME NEW n \in 0..N, n + 1 \in 0..N, n \in S PROVE n + 1 \in S
    <3>1. Iteration[n + 1] = More(Iteration[n])
      <4>1. n + 1 # 0 /\ (n + 1) - 1 = n
        OBVIOUS
      <4> QED
        BY <1>7, <2>2, <4>1
    <3> QED
      BY <1>3, <2>2, <3>1
  <2> HIDE DEF S
  <2>3. 0..N \subseteq S
    BY <1>2, <2>1, <2>2, CountUp
  <2> QED
    BY <2>3 DEF S
<1> QED
  BY <1>1, <1>2, <1>3, <1>8

\* The records in which the main loop may be.
Fine(A, n) == {s \in MainType : Good(s, A, n)}

\* The good records of the main loop form a set.
LEMMA FineIsGood ==
  ASSUME NEW A, NEW n, NEW s
  PROVE  s \in Fine(A, n) <=> Good(s, A, n)
BY DEF Fine, Good

\* dispatch_pending leads to good records.
LEMMA DispatchGood ==
  ASSUME NEW A, NEW n, A \subseteq AckType, n \in Nat, NEW s \in Fine(A, n)
  PROVE  dispatch_pending(s) \subseteq Fine(A, n)
<1>1. s \in MainType
  BY DEF Fine
<1>2. Expire(s) \in Fine(A, n)
  BY ExpireGood, FineIsGood
<1>3. \A t \in Fine(A, n) : Claim(t) \subseteq Fine(A, n) /\ PoolExhausted(t) \subseteq Fine(A, n)
  BY ClaimGood, ExhaustedGood, FineIsGood
<1> QED
  BY <1>1, <1>2, <1>3, DispatchStays

-----------------------------------------------------------------------------
(* The top of the loop *)

\* A change of the queue's timers only: retry_after, retry_counts.
LEMMA TimersGood ==
  ASSUME NEW s, NEW A, NEW n, Good(s, A, n), A \subseteq AckType, NEW t \in MainType,
         QueueOK(t.q), \A c \in Channel : SameAt(t.q, s.q, c),
         t.q.in_flight_channels = s.q.in_flight_channels,
         \A c \in Channel : t.q.in_flight_deadlines[c] = s.q.in_flight_deadlines[c],
         Slots(t), t.task = s.task, t.settled = s.settled, t.interrupted = s.interrupted
  PROVE  Good(t, A, n)
<1>1. /\ Events(s, n) /\ Steers(s, A) /\ Deadlines(s, A)
      /\ \A a \in Busy(s.task) : TaskOK(s.task[a])
      /\ s.task \in [Agent -> TaskType \cup {None}]
  BY DEF Good, MainType
<1>2. Events(t, n)
  BY <1>1, EventsStay
<1>3. \A c \in Channel : t.q.withheld_native_steer[c] = s.q.withheld_native_steer[c]
  BY DEF SameAt
<1>4. Steers(t, A)
  BY <1>1, <1>3, SteersStay
<1>5. Deadlines(t, A)
  BY <1>1, DeadlinesStay
<1> QED
  BY <1>1, <1>2, <1>4, <1>5 DEF Good

\* What compaction leaves in the tables.
LEMMA CompactTables ==
  ASSUME NEW r, QueueOK(r)
  PROVE  /\ compact_expired_state(r).in_flight_channels = r.in_flight_channels
         /\ compact_expired_state(r).in_flight_deadlines = r.in_flight_deadlines
         /\ \A c \in Channel : SameAt(compact_expired_state(r), r, c)
         /\ QueueOK(compact_expired_state(r))
<1>1. \A c \in Channel : SameAt(compact_expired_state(r), r, c)
  BY TimersMoveNothing
<1>2. QueueOK(compact_expired_state(r))
  BY CompactOK
<1> QED
  BY <1>1, <1>2 DEF compact_expired_state, QueueOK, QueueType

\* The refill of empty slots keeps every slot in one state.
LEMMA RefillSlots ==
  ASSUME NEW s \in MainType, Slots(s), NEW t, t.idle = s.idle, t.task = s.task, t.hb = s.hb,
         t.circuit = [a \in Agent |-> IF a \in Refills(s)
                                      THEN Refilled(s.circuit[a]) ELSE s.circuit[a]],
         t.respawn = [a \in Agent |-> IF a \in Refills(s) THEN "flying" ELSE s.respawn[a]]
  PROVE  /\ Slots(t)
         /\ t.circuit \in [Agent -> Circuit]
         /\ t.respawn \in [Agent -> {"no", "flying", "ok", "failed"}]
<1>1. \A a \in Agent : s.circuit[a] \in Circuit /\ s.respawn[a] \in {"no", "flying", "ok", "failed"}
  BY DEF MainType
<1>2. \A a \in Agent : Refilled(s.circuit[a]) \in Circuit
  BY <1>1, HarnessConstants DEF Refilled, Circuit
<1>3. \A a \in Refills(s) : /\ a \in Agent /\ a \notin s.idle \cup Busy(s.task)
                            /\ s.respawn[a] = "no"
                            /\ Refilled(s.circuit[a]).open = "closed"
  <2> SUFFICES ASSUME NEW a \in Refills(s)
               PROVE  /\ a \in Agent /\ a \notin s.idle \cup Busy(s.task)
                      /\ s.respawn[a] = "no"
                      /\ Refilled(s.circuit[a]).open = "closed"
    OBVIOUS
  <2>1. a \in Agent /\ a \notin s.idle \cup Busy(s.task) /\ s.respawn[a] = "no"
        /\ can_refill(s.circuit[a])
    BY DEF Refills
  <2>2. s.circuit[a].open \in {"closed", "cooled"}
    BY <1>1, <2>1 DEF can_refill, Circuit
  <2>3. Refilled(s.circuit[a]).open = "closed"
    BY <2>2 DEF Refilled
  <2> QED
    BY <2>1, <2>3
<1>4. t.circuit \in [Agent -> Circuit]
  BY <1>1, <1>2
<1>5. t.respawn \in [Agent -> {"no", "flying", "ok", "failed"}]
  BY <1>1
<1>6. \A a \in Agent : t.respawn[a] # "no" => a \notin t.idle \cup Busy(t.task)
  BY <1>3 DEF Slots
<1>7. \A a \in Agent : t.circuit[a].open # "closed" =>
        a \notin t.idle \cup Busy(t.task) /\ t.respawn[a] = "no"
  BY <1>3 DEF Slots
<1> QED
  BY <1>4, <1>5, <1>6, <1>7 DEF Slots

\* The maintenance at the top of the loop leads to good records.
LEMMA MaintenanceGood ==
  ASSUME NEW A, NEW n, A \subseteq AckType, n \in Nat, NEW s \in Fine(A, n)
  PROVE  Maintenance(s) \subseteq Fine(A, n)
<1> DEFINE ci == [a \in Agent |-> IF a \in Refills(s)
                                  THEN Refilled(s.circuit[a]) ELSE s.circuit[a]]
           re == [a \in Agent |-> IF a \in Refills(s) THEN "flying" ELSE s.respawn[a]]
           s1 == [s EXCEPT !.maint = MaintInterval, !.q = compact_expired_state(@),
                           !.circuit = ci, !.respawn = re]
<1>1. s \in MainType /\ Good(s, A, n) /\ Slots(s) /\ QueueOK(s.q)
  BY DEF Fine, Good
<1>2. /\ s1.q = compact_expired_state(s.q) /\ s1.idle = s.idle /\ s1.task = s.task
      /\ s1.hb = s.hb /\ s1.settled = s.settled /\ s1.interrupted = s.interrupted
      /\ s1.circuit = ci /\ s1.respawn = re
  BY <1>1 DEF MainType
<1>3. /\ Slots(s1) /\ ci \in [Agent -> Circuit]
      /\ re \in [Agent -> {"no", "flying", "ok", "failed"}]
  <2> HIDE DEF s1
  <2> QED
    BY <1>1, <1>2, RefillSlots
<1>4. /\ QueueOK(s1.q) /\ \A c \in Channel : SameAt(s1.q, s.q, c)
      /\ s1.q.in_flight_channels = s.q.in_flight_channels
      /\ s1.q.in_flight_deadlines = s.q.in_flight_deadlines
  BY <1>1, <1>2, CompactTables
<1>5. s1 \in MainType
  <2>1. compact_expired_state(s.q) \in QueueType /\ MaintInterval \in 0..MaintInterval
    BY <1>2, <1>4, HarnessConstants DEF QueueOK
  <2> HIDE DEF ci, re
  <2> QED
    BY <1>1, <1>3, <2>1 DEF MainType
<1>6. Good(s1, A, n)
  <2> HIDE DEF s1
  <2> QED
    BY <1>1, <1>2, <1>3, <1>4, <1>5, TimersGood
<1>7. Expire(s1) \in Fine(A, n)
  BY <1>6, ExpireGood, FineIsGood
<1>8. dispatch_pending(Expire(s1)) \subseteq Fine(A, n)
  BY <1>7, DispatchGood
<1>9. Maintenance(s) = IF s.maint # 0 THEN {s}
                       ELSE IF has_flushable_work(Expire(s1).q)
                       THEN dispatch_pending(Expire(s1)) ELSE {Expire(s1)}
  BY DEF Maintenance
<1> HIDE DEF s1
<1> QED
  BY <1>7, <1>8, <1>9

\* The collection of respawned agents keeps every slot in one state.
LEMMA CollectSlots ==
  ASSUME NEW s \in MainType, Slots(s), NEW t, t.task = s.task, t.hb = s.hb,
         t.idle = s.idle \cup {a \in Agent : s.respawn[a] = "ok"},
         t.circuit = [a \in Agent |-> IF s.respawn[a] = "failed"
                                      THEN [s.circuit[a] EXCEPT !.open = "open"]
                                      ELSE s.circuit[a]],
         t.respawn = [a \in Agent |-> IF s.respawn[a] \in {"ok", "failed"}
                                      THEN "no" ELSE s.respawn[a]]
  PROVE  /\ Slots(t)
         /\ t.idle \in SUBSET Agent
         /\ t.circuit \in [Agent -> Circuit]
         /\ t.respawn \in [Agent -> {"no", "flying", "ok", "failed"}]
<1>1. \A a \in Agent : s.circuit[a] \in Circuit /\ s.respawn[a] \in {"no", "flying", "ok", "failed"}
  BY DEF MainType
<1>2. t.circuit \in [Agent -> Circuit]
  BY <1>1 DEF Circuit
<1>3. t.respawn \in [Agent -> {"no", "flying", "ok", "failed"}]
  BY <1>1
<1>4. t.idle \in SUBSET Agent
  BY DEF MainType
<1>5. \A a \in Agent : s.respawn[a] # "no" =>
         a \notin s.idle \cup Busy(s.task) /\ s.circuit[a].open = "closed"
  BY DEF Slots
<1>6. t.idle \cap Busy(t.task) = {}
  BY <1>5 DEF Slots
<1>7. \A a \in Agent : t.respawn[a] # "no" =>
        a \notin t.idle \cup Busy(t.task)
  BY <1>1, <1>5
<1>8. \A a \in Agent : t.circuit[a].open # "closed" =>
        a \notin t.idle \cup Busy(t.task) /\ t.respawn[a] = "no"
  <2> SUFFICES ASSUME NEW a \in Agent, t.circuit[a].open # "closed"
               PROVE  a \notin t.idle \cup Busy(t.task) /\ t.respawn[a] = "no"
    OBVIOUS
  <2>1. CASE s.respawn[a] = "failed"
    BY <1>5, <2>1
  <2>2. CASE s.respawn[a] # "failed"
    <3>1. s.circuit[a].open # "closed"
      BY <2>2
    <3>2. a \notin s.idle \cup Busy(s.task) /\ s.respawn[a] = "no"
      BY <3>1 DEF Slots
    <3> QED
      BY <3>2
  <2> QED
    BY <2>1, <2>2
<1> QED
  BY <1>2, <1>3, <1>4, <1>6, <1>7, <1>8 DEF Slots

\* So does the collection of respawned agents.
LEMMA CollectGood ==
  ASSUME NEW A, NEW n, A \subseteq AckType, n \in Nat, NEW s \in Fine(A, n)
  PROVE  CollectRespawns(s) \subseteq Fine(A, n)
<1> DEFINE ok == {a \in Agent : s.respawn[a] = "ok"}
           ci == [a \in Agent |-> IF s.respawn[a] = "failed"
                                  THEN [s.circuit[a] EXCEPT !.open = "open"]
                                  ELSE s.circuit[a]]
           re == [a \in Agent |-> IF s.respawn[a] \in {"ok", "failed"}
                                  THEN "no" ELSE s.respawn[a]]
           s1 == [s EXCEPT !.idle = @ \cup ok, !.circuit = ci, !.respawn = re]
<1>1. s \in MainType /\ Good(s, A, n) /\ Slots(s) /\ QueueOK(s.q)
  BY DEF Fine, Good
<1>2. /\ s1.q = s.q /\ s1.idle = s.idle \cup ok /\ s1.task = s.task
      /\ s1.hb = s.hb /\ s1.settled = s.settled /\ s1.interrupted = s.interrupted
      /\ s1.circuit = ci /\ s1.respawn = re
  BY <1>1 DEF MainType
<1>3. /\ Slots(s1) /\ ci \in [Agent -> Circuit] /\ s1.idle \in SUBSET Agent
      /\ re \in [Agent -> {"no", "flying", "ok", "failed"}]
  <2> HIDE DEF s1
  <2> QED
    BY <1>1, <1>2, CollectSlots
<1>4. s1 \in MainType
  <2>1. s.idle \cup ok \in SUBSET Agent
    BY <1>2, <1>3
  <2> HIDE DEF ci, re, ok
  <2> QED
    BY <1>1, <1>3, <2>1 DEF MainType
<1>5. Good(s1, A, n)
  <2> HIDE DEF s1
  <2> QED
    BY <1>1, <1>2, <1>3, <1>4, SlotsChange
<1>6. s1 \in Fine(A, n) /\ dispatch_pending(s1) \subseteq Fine(A, n)
  BY <1>5, FineIsGood, DispatchGood
<1>7. CollectRespawns(s) = IF ok = {} THEN {s1} ELSE dispatch_pending(s1)
  BY DEF CollectRespawns
<1> HIDE DEF s1
<1> QED
  BY <1>6, <1>7

\* The top of the loop, whatever handler came before it.
LEMMA LoopTopGood ==
  ASSUME NEW A, NEW n, A \subseteq AckType, n \in Nat, NEW S, S \subseteq Fine(A, n)
  PROVE  LoopTop(S) \subseteq Fine(A, n)
<1>1. Then(S, Maintenance) \subseteq Fine(A, n)
  BY MaintenanceGood DEF Then
<1> DEFINE S1 == Then(S, Maintenance)
<1> HIDE DEF S1
<1>2. Then(S1, CollectRespawns) \subseteq Fine(A, n)
  BY <1>1, CollectGood DEF Then, S1
<1> QED
  BY <1>2 DEF LoopTop, S1

\* A handler that leaves the loop in a fine state, and then the loop's top.
LEMMA IterateGood ==
  ASSUME acks' \subseteq AckType, arrived' \in Nat, NEW S, S \subseteq Fine(acks', arrived'),
         Iterate(S)
  PROVE  IInv'
<1>1. PICK s \in LoopTop(S) : Become(s)
  BY DEF Iterate
<1>2. s \in Fine(acks', arrived')
  BY LoopTopGood
<1>3. s \in MainType /\ Good(s, acks', arrived')
  BY <1>2 DEF Fine
<1>4. Main' = s
  BY <1>1, <1>3, BecomeMain
<1>5. Good(Main', acks', arrived')
  BY <1>3, <1>4
<1> QED
  BY <1>5 DEF IInv

-----------------------------------------------------------------------------
(* The end of a turn *)

\* A turn ends: some of its events go back, others are settled, and one for which
\* neither is true was interrupted.
LEMMA EventsEnd ==
  ASSUME NEW s, NEW n, Events(s, n), NEW a \in Busy(s.task), NEW x,
         s.task \in [Agent -> TaskType \cup {None}],
         x.task = [s.task EXCEPT ![a] = None],
         NEW back, back \subseteq BatchIdsOf(s, a),
         NEW D, D \subseteq AllIds(s.q) \cup BatchIdsOf(s, a),
         Neat(x.q), AllIds(x.q) = (AllIds(s.q) \cup back) \ D,
         x.settled = s.settled \cup D, s.interrupted \subseteq x.interrupted,
         BatchIdsOf(s, a) \ (back \cup D) \subseteq x.interrupted,
         \A c \in Channel : Ids(x.q.cancelled_batches[c]) \subseteq x.interrupted,
         DropMode => x.interrupted = {}
  PROVE  Events(x, n)
<1>1. /\ Busy(x.task) = Busy(s.task) \ {a}
      /\ \A b \in Busy(x.task) : x.task[b] = s.task[b]
  BY DEF Busy
<1>2. \A b \in Busy(x.task) : BatchIdsOf(x, b) = BatchIdsOf(s, b)
  BY <1>1 DEF BatchIdsOf
<1>3. InTurns(s) = InTurns(x) \cup BatchIdsOf(s, a)
  BY <1>1, <1>2 DEF InTurns
<1>4. InTurns(x) \cap BatchIdsOf(s, a) = {}
  BY <1>1, <1>2 DEF InTurns, Events
<1>5. \A b \in Busy(x.task) : x.task[b].batch # None =>
        /\ Distinct(x.task[b].batch.cancelled_events \o x.task[b].batch.events)
        /\ Ids(x.task[b].batch.cancelled_events) \subseteq x.interrupted
  BY <1>1 DEF Events
<1>6. \A b, c \in Busy(x.task) : b # c => BatchIdsOf(x, b) \cap BatchIdsOf(x, c) = {}
  BY <1>1, <1>2 DEF Events
<1>7. /\ AllIds(x.q) \cap InTurns(x) = {}
      /\ x.settled \cap (AllIds(x.q) \cup InTurns(x)) = {}
      /\ AllIds(x.q) \cup InTurns(x) \cup x.settled \subseteq 1..n
      /\ 1..n \subseteq AllIds(x.q) \cup InTurns(x) \cup x.settled \cup x.interrupted
  <2>1. /\ AllIds(s.q) \cap InTurns(s) = {}
        /\ s.settled \cap (AllIds(s.q) \cup InTurns(s)) = {}
        /\ AllIds(s.q) \cup InTurns(s) \cup s.settled \subseteq 1..n
        /\ 1..n \subseteq AllIds(s.q) \cup InTurns(s) \cup s.settled \cup s.interrupted
    BY DEF Events
  <2>2. AllIds(x.q) \cap InTurns(x) = {}
    BY <1>3, <1>4, <2>1
  <2>3. x.settled \cap (AllIds(x.q) \cup InTurns(x)) = {}
    BY <1>3, <1>4, <2>1
  <2>4. AllIds(x.q) \cup InTurns(x) \cup x.settled \subseteq 1..n
    BY <1>3, <1>4, <2>1
  <2>5. 1..n \subseteq AllIds(x.q) \cup InTurns(x) \cup x.settled \cup x.interrupted
    BY <1>3, <1>4, <2>1
  <2> QED
    BY <2>2, <2>3, <2>4, <2>5
<1> QED
  BY <1>5, <1>6, <1>7 DEF Events

\* Fewer tasks, of which those that are gone had no steer under way.
LEMMA SteersFewer ==
  ASSUME NEW s, NEW A, Steers(s, A), NEW x, s.settled \subseteq x.settled, A \subseteq AckType,
         \A b \in Busy(s.task) : TaskOK(s.task[b]),
         s.task \in [Agent -> TaskType \cup {None}],
         NEW a, SteerIds(s.task[a]) = {},
         Busy(x.task) = Busy(s.task) \ {a}, \A b \in Busy(x.task) : x.task[b] = s.task[b],
         \A d \in Channel : x.q.withheld_native_steer[d] = s.q.withheld_native_steer[d]
  PROVE  Steers(x, A)
<1>1. \A b \in Busy(s.task) : \A i \in SteerIds(s.task[b]) : s.task[b].channel_id \in Channel
  BY SteeredChannel
<1>2. \A b \in Busy(x.task) : \A i \in SteerIds(x.task[b]) :
        i \in Ids(x.q.withheld_native_steer[x.task[b].channel_id]) \cup x.settled
  BY <1>1 DEF Steers
<1>3. \A y \in A : y.event_id \in Ids(x.q.withheld_native_steer[y.channel_id]) \cup x.settled
  BY DEF Steers, AckType
<1>4. \A d \in Channel : \A i \in Ids(x.q.withheld_native_steer[d]) :
       \/ \E b \in Busy(x.task) : i \in SteerIds(x.task[b])
       \/ \E y \in A : i = y.event_id
  <2> SUFFICES ASSUME NEW d \in Channel, NEW i \in Ids(x.q.withheld_native_steer[d]),
                      ~\E y \in A : i = y.event_id
               PROVE  \E b \in Busy(x.task) : i \in SteerIds(x.task[b])
    OBVIOUS
  <2>1. PICK b \in Busy(s.task) : i \in SteerIds(s.task[b])
    BY DEF Steers
  <2> QED
    BY <2>1
<1>5. /\ \A b \in Busy(x.task) :
           x.task[b].steer_tx # None => x.task[b].steer_tx # x.task[b].pending_steer
      /\ \A b, c \in Busy(x.task) : b # c => SteerIds(x.task[b]) \cap SteerIds(x.task[c]) = {}
      /\ \A b \in Busy(x.task), y \in A : y.event_id \notin SteerIds(x.task[b])
      /\ \A y, z \in A : y.event_id = z.event_id => y = z
  BY DEF Steers
<1> QED
  BY <1>2, <1>3, <1>4, <1>5 DEF Steers

\* The slot a of a finished task: empty, with a closed circuit.
Vacant(x, a) ==
  /\ a \in Agent /\ a \notin x.idle \cup Busy(x.task)
  /\ x.respawn[a] = "no" /\ x.circuit[a].open = "closed"

\* The task of slot a is gone, and with it its channel's deadline or the
\* heartbeat flag.
Gone(x, s, a) ==
  /\ Busy(x.task) = Busy(s.task) \ {a}
  /\ \A b \in Busy(x.task) : x.task[b] = s.task[b]
  /\ x.idle = s.idle /\ x.respawn = s.respawn /\ x.circuit = s.circuit
  /\ s.settled \subseteq x.settled
  /\ x.hb = IF s.task[a].channel_id = None THEN FALSE ELSE s.hb
  /\ \A d \in Channel : x.q.withheld_native_steer[d] = s.q.withheld_native_steer[d]
  /\ \A d \in Channel : x.q.in_flight_deadlines[d] =
        IF d = s.task[a].channel_id THEN None ELSE s.q.in_flight_deadlines[d]
  /\ x.q.in_flight_channels = s.q.in_flight_channels \ {s.task[a].channel_id}

\* A record from which a task is gone, its batch dealt with, is good.
LEMMA GoneGood ==
  ASSUME NEW s, NEW A, NEW n, Good(s, A, n), A \subseteq AckType, NEW a \in Busy(s.task),
         SteerIds(s.task[a]) = {}, NEW x \in MainType, Events(x, n), QueueOK(x.q),
         Gone(x, s, a)
  PROVE  Good(x, A, n) /\ Vacant(x, a)
<1> USE DEF Gone
<1>0. /\ s \in MainType /\ Slots(s) /\ Steers(s, A) /\ Deadlines(s, A)
      /\ \A b \in Busy(s.task) : TaskOK(s.task[b])
      /\ s.task \in [Agent -> TaskType \cup {None}]
  BY DEF Good, MainType
<1>1. /\ Busy(x.task) = Busy(s.task) \ {a} /\ a \in Agent
      /\ \A b \in Busy(x.task) : x.task[b] = s.task[b]
  BY <1>0 DEF Busy
<1>2. Vacant(x, a)
  BY <1>0, <1>1 DEF Slots, Vacant
<1>3. Slots(x)
  <2>0. /\ s.hb <=> \E b \in Busy(s.task) : s.task[b].channel_id = None
        /\ \A b, c \in Busy(s.task) :
             s.task[b].channel_id = None /\ s.task[c].channel_id = None => b = c
    BY <1>0 DEF Slots
  <2>1. x.hb <=> \E b \in Busy(x.task) : x.task[b].channel_id = None
    <3>1. CASE s.task[a].channel_id = None
      BY <1>1, <2>0, <3>1
    <3>2. CASE s.task[a].channel_id # None
      <4>1. (\E b \in Busy(x.task) : x.task[b].channel_id = None)
              <=> \E b \in Busy(s.task) : s.task[b].channel_id = None
        BY <1>1, <3>2
      <4> QED
        BY <2>0, <3>2, <4>1
    <3> QED
      BY <3>1, <3>2
  <2>2. \A b, c \in Busy(x.task) :
          x.task[b].channel_id = None /\ x.task[c].channel_id = None => b = c
    BY <1>1, <2>0
  <2>3. x.idle \cap Busy(x.task) = {}
    BY <1>0, <1>1 DEF Slots
  <2>4. \A b \in Agent : x.respawn[b] # "no" => b \notin x.idle \cup Busy(x.task)
    BY <1>0, <1>1 DEF Slots
  <2>5. \A b \in Agent : x.circuit[b].open # "closed" =>
          b \notin x.idle \cup Busy(x.task) /\ x.respawn[b] = "no"
    BY <1>0, <1>1 DEF Slots
  <2> QED
    BY <2>1, <2>2, <2>3, <2>4, <2>5 DEF Slots
<1>4. Steers(x, A)
  BY <1>0, SteersFewer
<1>5. Deadlines(x, A)
  <2>1. \A y \in A : x.q.in_flight_deadlines[y.channel_id] # 0
    BY <1>0, QueueConstants DEF Deadlines, AckType
  <2>2. \A b \in Busy(s.task) : /\ s.task[b].steerable => s.task[b].channel_id \in Channel
                                /\ s.task[b].channel_id # None => s.task[b].channel_id \in Channel
    BY <1>0 DEF TaskOK, TaskType, Busy
  <2>3. \A b \in Busy(x.task) :
          s.task[b].channel_id \in Channel /\ s.task[b].channel_id # s.task[a].channel_id =>
          /\ x.q.in_flight_deadlines[x.task[b].channel_id]
               = s.q.in_flight_deadlines[s.task[b].channel_id]
          /\ Covered(s, A, s.task[b]) => Covered(x, A, x.task[b])
    BY <1>1 DEF Covered
  <2>4. ASSUME NEW b \in Busy(x.task), x.task[b].steerable
        PROVE  \/ x.q.in_flight_deadlines[x.task[b].channel_id] = None
               \/ Covered(x, A, x.task[b])
    BY <1>0, <1>1, <2>2, <2>3, <2>4 DEF Deadlines
  <2>5. ASSUME ~InitialMessage
        PROVE  /\ \A b \in Busy(x.task) :
                    x.task[b].channel_id # None => Covered(x, A, x.task[b])
               /\ \A b, c \in Busy(x.task) :
                    x.task[b].channel_id # None /\ x.task[b].channel_id = x.task[c].channel_id
                      => b = c
               /\ \A d \in x.q.in_flight_channels :
                    \E b \in Busy(x.task) : x.task[b].channel_id = d
    <3>1. \A b \in Busy(x.task) : s.task[b].channel_id # None =>
             s.task[b].channel_id # s.task[a].channel_id
      BY <1>0, <1>1, <2>5 DEF Deadlines
    <3>2. \A b \in Busy(x.task) : x.task[b].channel_id # None => Covered(x, A, x.task[b])
      BY <1>0, <1>1, <2>2, <2>3, <2>5, <3>1 DEF Deadlines
    <3>3. \A b, c \in Busy(x.task) :
            x.task[b].channel_id # None /\ x.task[b].channel_id = x.task[c].channel_id
              => b = c
      BY <1>0, <1>1, <2>5 DEF Deadlines
    <3>4. ASSUME NEW d \in x.q.in_flight_channels
          PROVE  \E b \in Busy(x.task) : x.task[b].channel_id = d
      <4>1. PICK b \in Busy(s.task) : s.task[b].channel_id = d
        BY <1>0, <2>5 DEF Deadlines
      <4>2. d # s.task[a].channel_id
        OBVIOUS
      <4> QED
        BY <1>1, <4>1, <4>2
    <3> QED
      BY <3>2, <3>3, <3>4
  <2> QED
    BY <2>1, <2>4, <2>5 DEF Deadlines
<1> QED
  BY <1>0, <1>1, <1>2, <1>3, <1>4, <1>5 DEF Good

\* Where the batch of a turn goes, by the fields of the record: it is settled, put
\* aside as cancelled, dead-lettered, or back in its queue.
Fate(x, s, t) ==
  \/ /\ x.q = s.q /\ x.settled = s.settled \cup BatchIds(t.batch)
     /\ x.interrupted = s.interrupted
  \/ \E b \in FlushBatch :
       /\ t.batch # None /\ ~DropMode /\ b.channel_id = t.channel_id
       /\ b.events = t.batch.events /\ b.cancelled_events = t.batch.cancelled_events
       /\ \/ \E reason \in CancelReason :
               /\ x.q = requeue_as_cancelled(s.q, b, reason) /\ x.settled = s.settled
               /\ x.interrupted = s.interrupted \cup BatchIds(b)
          \/ /\ Exhausted(s.q, b) /\ x.q = requeue(s.q, b, None)
             /\ x.settled = s.settled \cup BatchIds(b) /\ x.interrupted = s.interrupted
          \/ \E d \in BackoffDelays(s.q.retry_counts[b.channel_id] + 1) :
               /\ ~Exhausted(s.q, b) /\ x.q = requeue(s.q, b, d)
               /\ x.settled = s.settled \cup Trimmed(b.events \o s.q.queues[b.channel_id])
               /\ x.interrupted = s.interrupted

\* The tables of the channels, but for the queues and the cancelled batches.
SameTables(r, p) ==
  /\ \A d \in Channel : /\ r.withheld_native_steer[d] = p.withheld_native_steer[d]
                        /\ r.in_flight_deadlines[d] = p.in_flight_deadlines[d]
  /\ r.in_flight_channels = p.in_flight_channels

\* What requeue leaves in the tables.
LEMMA RequeueTables ==
  ASSUME NEW r, QueueOK(r), NEW b \in FlushBatch, NEW y
  PROVE  SameTables(requeue(r, b, y), r) /\ SameTables(requeue_as_cancelled(r, b, y), r)
<1>1. b.channel_id \in Channel
  BY DEF FlushBatch
<1>2. SameTables(requeue_as_cancelled(r, b, y), r)
  BY <1>1 DEF requeue_as_cancelled, SameTables, QueueOK, QueueType
<1>3. CASE Exhausted(r, b)
  <2>1. SameTables(requeue(r, b, y), r)
    BY <1>1, <1>3 DEF requeue, SameTables, QueueOK, QueueType
  <2> QED
    BY <1>2, <2>1
<1>4. CASE ~Exhausted(r, b)
  <2>1. SameTables(requeue(r, b, y), r)
    BY <1>1, <1>4 DEF requeue, push_front, SameTables, QueueOK, QueueType
  <2> QED
    BY <1>2, <2>1
<1> QED
  BY <1>3, <1>4

\* The batch's events are accounted for, and nothing else of the queue changes.
LEMMA FateMoves ==
  ASSUME NEW s, NEW A, NEW n, Good(s, A, n), NEW a \in Busy(s.task), NEW x,
         x.task = [s.task EXCEPT ![a] = None], Fate(x, s, s.task[a])
  PROVE  /\ Events(x, n) /\ QueueOK(x.q) /\ SameTables(x.q, s.q)
         /\ x.settled \in SUBSET Nat /\ x.interrupted \in SUBSET Nat
         /\ s.settled \subseteq x.settled
<1> DEFINE t == s.task[a]
           B == BatchIdsOf(s, a)
<1>1. /\ s \in MainType /\ QueueOK(s.q) /\ Events(s, n) /\ Neat(s.q)
      /\ TaskOK(t) /\ t \in TaskType /\ a \in Agent
      /\ s.task \in [Agent -> TaskType \cup {None}]
      /\ s.settled \in SUBSET Nat /\ s.interrupted \in SUBSET Nat
  BY DEF Good, Events, MainType, Busy
<1>2. /\ B \subseteq InTurns(s) /\ B \cap AllIds(s.q) = {} /\ B = BatchIds(t.batch)
      /\ B \subseteq Nat
  <2>1. B \subseteq InTurns(s)
    BY DEF InTurns
  <2>2. InTurns(s) \subseteq Nat /\ InTurns(s) \cap AllIds(s.q) = {}
    BY <1>1 DEF Events
  <2> QED
    BY <2>1, <2>2 DEF BatchIdsOf
<1>3. CASE /\ x.q = s.q /\ x.settled = s.settled \cup BatchIds(t.batch)
           /\ x.interrupted = s.interrupted
  <2> DEFINE back == {}
  <2>1. /\ back \subseteq B /\ AllIds(x.q) = (AllIds(s.q) \cup back) \ B
        /\ B \subseteq AllIds(s.q) \cup B /\ B \ (back \cup B) \subseteq x.interrupted
        /\ x.settled = s.settled \cup B /\ s.interrupted \subseteq x.interrupted
    BY <1>2, <1>3
  <2>2. /\ Neat(x.q) /\ \A c \in Channel : Ids(x.q.cancelled_batches[c]) \subseteq x.interrupted
        /\ DropMode => x.interrupted = {}
    BY <1>1, <1>3 DEF Events
  <2> HIDE DEF B, back
  <2>3. Events(x, n)
    BY <1>1, <2>1, <2>2, EventsEnd DEF B
  <2> QED
    BY <1>1, <1>2, <1>3, <2>1, <2>3 DEF SameTables
<1>4. ASSUME NEW b \in FlushBatch,
             t.batch # None, ~DropMode, b.channel_id = t.channel_id,
             b.events = t.batch.events, b.cancelled_events = t.batch.cancelled_events,
             \/ \E reason \in CancelReason :
                  /\ x.q = requeue_as_cancelled(s.q, b, reason) /\ x.settled = s.settled
                  /\ x.interrupted = s.interrupted \cup BatchIds(b)
             \/ /\ Exhausted(s.q, b) /\ x.q = requeue(s.q, b, None)
                /\ x.settled = s.settled \cup BatchIds(b) /\ x.interrupted = s.interrupted
             \/ \E d \in BackoffDelays(s.q.retry_counts[b.channel_id] + 1) :
                  /\ ~Exhausted(s.q, b) /\ x.q = requeue(s.q, b, d)
                  /\ x.settled = s.settled \cup Trimmed(b.events \o s.q.queues[b.channel_id])
                  /\ x.interrupted = s.interrupted
      PROVE  /\ Events(x, n) /\ QueueOK(x.q) /\ SameTables(x.q, s.q)
             /\ x.settled \in SUBSET Nat /\ x.interrupted \in SUBSET Nat
             /\ s.settled \subseteq x.settled
  <2> DEFINE c == b.channel_id
  <2>1. /\ c \in Channel /\ b.events \in Seq(Event) /\ b.cancelled_events \in Seq(Event)
        /\ b.events # <<>> /\ b # None
    BY <1>1, <1>4, NoneIsAbsent DEF FlushBatch, TaskOK
  <2>2. B = Ids(b.events) \cup Ids(b.cancelled_events) /\ BatchIds(b) = B
    BY <1>2, <1>4, <2>1 DEF BatchIds
  <2>3. /\ Distinct(b.cancelled_events \o b.events)
        /\ Ids(b.cancelled_events) \subseteq s.interrupted
    BY <1>1, <1>4 DEF Events
  <2>4. Distinct(b.events) /\ Ids(b.cancelled_events) \cap Ids(b.events) = {}
    BY <2>1, <2>3, ConcatIds DEF Apart
  <2>5. \A d \in Channel : Ids(s.q.cancelled_batches[d]) \subseteq s.interrupted
    BY <1>1 DEF Events
  <2>6. CASE \E reason \in CancelReason :
               /\ x.q = requeue_as_cancelled(s.q, b, reason) /\ x.settled = s.settled
               /\ x.interrupted = s.interrupted \cup BatchIds(b)
    <3> PICK reason \in CancelReason :
               /\ x.q = requeue_as_cancelled(s.q, b, reason) /\ x.settled = s.settled
               /\ x.interrupted = s.interrupted \cup BatchIds(b)
      BY <2>6
    <3>1. /\ Neat(x.q) /\ AllIds(x.q) = AllIds(s.q) \cup B
          /\ \A d \in Channel : Ids(x.q.cancelled_batches[d])
                                  \subseteq Ids(s.q.cancelled_batches[d]) \cup B
      BY <1>1, <1>2, <2>2, <2>3, CancelMoves
    <3>2. QueueOK(x.q) /\ SameTables(x.q, s.q)
      BY <1>1, <2>1, RequeueAsCancelledOK, RequeueTables
    <3> DEFINE D == {}
    <3>3. /\ D \subseteq AllIds(s.q) \cup B /\ AllIds(x.q) = (AllIds(s.q) \cup B) \ D
          /\ x.settled = s.settled \cup D /\ B \ (B \cup D) \subseteq x.interrupted
          /\ s.interrupted \subseteq x.interrupted /\ B \subseteq B
          /\ \A d \in Channel : Ids(x.q.cancelled_batches[d]) \subseteq x.interrupted
      BY <2>2, <2>5, <3>1
    <3> HIDE DEF B, D
    <3>4. Events(x, n)
      BY <1>1, <1>4, <3>1, <3>3, EventsEnd DEF B
    <3> QED
      BY <1>1, <1>2, <2>2, <3>2, <3>4
  <2>7. CASE /\ Exhausted(s.q, b) /\ x.q = requeue(s.q, b, None)
             /\ x.settled = s.settled \cup BatchIds(b) /\ x.interrupted = s.interrupted
    <3>1. \A d \in Channel : SameAt(x.q, s.q, d)
      BY <1>1, <2>7, RequeueSame
    <3>2. QueueOK(x.q) /\ SameTables(x.q, s.q)
      BY <1>1, <2>7, RequeueOK, RequeueTables
    <3>3. Neat(x.q) /\ AllIds(x.q) = AllIds(s.q)
      BY <1>1, <3>1, ChangeNone
    <3> DEFINE back == {}
    <3>4. /\ back \subseteq B /\ AllIds(x.q) = (AllIds(s.q) \cup back) \ B
          /\ B \subseteq AllIds(s.q) \cup B /\ B \ (back \cup B) \subseteq x.interrupted
          /\ x.settled = s.settled \cup B /\ s.interrupted \subseteq x.interrupted
      BY <1>2, <2>2, <2>7, <3>3
    <3>5. \A d \in Channel : Ids(x.q.cancelled_batches[d]) \subseteq x.interrupted
      BY <2>5, <2>7, <3>1 DEF SameAt
    <3> HIDE DEF B, back
    <3>6. Events(x, n)
      BY <1>1, <1>4, <3>3, <3>4, <3>5, EventsEnd DEF B
    <3> QED
      BY <1>1, <1>2, <2>7, <3>2, <3>4, <3>6
  <2>8. CASE \E d \in BackoffDelays(s.q.retry_counts[b.channel_id] + 1) :
               /\ ~Exhausted(s.q, b) /\ x.q = requeue(s.q, b, d)
               /\ x.settled = s.settled \cup Trimmed(b.events \o s.q.queues[b.channel_id])
               /\ x.interrupted = s.interrupted
    <3> PICK d \in BackoffDelays(s.q.retry_counts[b.channel_id] + 1) :
               /\ ~Exhausted(s.q, b) /\ x.q = requeue(s.q, b, d)
               /\ x.settled = s.settled \cup Trimmed(b.events \o s.q.queues[b.channel_id])
               /\ x.interrupted = s.interrupted
      BY <2>8
    <3> DEFINE D == Trimmed(b.events \o s.q.queues[c])
               p == push_front(s.q, c, b.events)
               back == Ids(b.events)
    <3>1. d \in Nat \ {0}
      <4>1. s.q.retry_counts[c] + 1 \in Nat \ {0}
        BY <1>1, <2>1 DEF QueueOK, QueueType
      <4> QED
        BY <4>1, BackoffPositive
    <3>2. QueueOK(x.q) /\ SameTables(x.q, s.q)
      BY <1>1, <3>1, RequeueOK, RequeueTables
    <3>3. \A e \in Channel : SameAt(x.q, p, e)
      BY <1>1, RequeueSame
    <3>4. /\ Neat(p) /\ AllIds(p) = (AllIds(s.q) \cup back) \ D
          /\ D \subseteq AllIds(s.q) \cup back
          /\ p.cancelled_batches = s.q.cancelled_batches
      <4>1. Ids(b.events) \cap AllIds(s.q) = {}
        BY <1>2, <2>2
      <4> QED
        BY <1>1, <2>1, <2>4, <4>1, PushFrontMoves
    <3>5. Neat(x.q) /\ AllIds(x.q) = AllIds(p)
      BY <3>3, <3>4, ChangeNone
    <3>6. \A e \in Channel : Ids(x.q.cancelled_batches[e]) \subseteq x.interrupted
      BY <2>5, <3>3, <3>4 DEF SameAt
    <3> HIDE DEF D, p, back
    <3>7. /\ back \subseteq B /\ D \subseteq AllIds(s.q) \cup B
          /\ AllIds(x.q) = (AllIds(s.q) \cup back) \ D
          /\ x.settled = s.settled \cup D /\ s.interrupted \subseteq x.interrupted
          /\ B \ (back \cup D) \subseteq x.interrupted
      BY <2>2, <2>3, <3>4, <3>5 DEF back, D
    <3>8. AllIds(s.q) \subseteq Nat
      BY <1>1 DEF Events
    <3> HIDE DEF B
    <3>9. Events(x, n)
      BY <1>1, <1>4, <3>5, <3>6, <3>7, EventsEnd DEF B
    <3> QED
      BY <1>1, <1>2, <3>2, <3>7, <3>8, <3>9
  <2> QED
    BY <1>4, <2>6, <2>7, <2>8
<1> QED
  BY <1>3, <1>4 DEF Fate

\* x has the fields of s but for the queue and the histories, and is a record of
\* the main loop if these have their types.
Like(x, s) ==
  /\ SameSlots(x, s)
  /\ x.q \in QueueType /\ x.settled \in SUBSET Nat /\ x.interrupted \in SUBSET Nat
       => x \in MainType

\* The count of failures keeps its type and nothing else changes.
LEMMA FailedType ==
  ASSUME NEW s \in MainType, NEW b
  PROVE  /\ Failed(s, b) \in MainType
         /\ \E f \in [1..MaxEvents -> Nat] : Failed(s, b) = [s EXCEPT !.failures = f]
<1> DEFINE f == [i \in DOMAIN s.failures |->
                   IF i \in BatchIds(b) /\ s.failures[i] <= MaxRetries
                   THEN s.failures[i] + 1 ELSE s.failures[i]]
<1>1. s.failures \in [1..MaxEvents -> Nat]
  BY DEF MainType
<1>2. f \in [1..MaxEvents -> Nat]
  <2>1. DOMAIN s.failures = 1..MaxEvents /\ \A i \in 1..MaxEvents : s.failures[i] \in Nat
    BY <1>1
  <2>2. \A i \in 1..MaxEvents : s.failures[i] + 1 \in Nat
    BY <2>1
  <2> QED
    BY <2>1, <2>2, Zenon
<1>3. Failed(s, b) = [s EXCEPT !.failures = f]
  BY DEF Failed, MainType
<1> HIDE DEF f
<1>4. Failed(s, b) \in MainType
  BY <1>2, <1>3 DEF MainType
<1> QED
  BY <1>2, <1>3, <1>4

\* Settle changes nothing but the history.
LEMMA SettleFields ==
  ASSUME NEW s \in MainType, NEW ids, NEW x, x = Settle(s, ids)
  PROVE  /\ Like(x, s) /\ x.q = s.q /\ x.settled = s.settled \cup ids
         /\ x.interrupted = s.interrupted
BY DEF Settle, Like, SameSlots, MainType

\* queue.requeue, by the fields of the record.
LEMMA RequeueFate ==
  ASSUME NEW s \in MainType, NEW t, NEW b \in FlushBatch,
         t.batch # None, ~DropMode, b.channel_id = t.channel_id,
         b.events = t.batch.events, b.cancelled_events = t.batch.cancelled_events,
         NEW x \in Requeue(s, b)
  PROVE  Fate(x, s, t) /\ Like(x, s)
<1>1. CASE Exhausted(s.q, b)
  <2>1. x = [Settle(s, BatchIds(b)) EXCEPT !.q = requeue(s.q, b, None)]
    BY <1>1 DEF Requeue
  <2>2. /\ Like(x, s) /\ x.q = requeue(s.q, b, None)
        /\ x.settled = s.settled \cup BatchIds(b) /\ x.interrupted = s.interrupted
    BY <2>1 DEF Settle, Like, SameSlots, MainType
  <2> QED
    BY <1>1, <2>2 DEF Fate
<1>2. CASE ~Exhausted(s.q, b)
  <2> DEFINE D == Trimmed(b.events \o s.q.queues[b.channel_id])
             F == Failed(s, b)
  <2>1. PICK d \in BackoffDelays(s.q.retry_counts[b.channel_id] + 1) :
          x = [Settle(F, D) EXCEPT !.q = requeue(s.q, b, d)]
    BY <1>2 DEF Requeue
  <2>2. PICK f \in [1..MaxEvents -> Nat] : F = [s EXCEPT !.failures = f]
    BY FailedType
  <2> HIDE DEF D, F
  <2>3. /\ Like(x, s) /\ x.q = requeue(s.q, b, d)
        /\ x.settled = s.settled \cup D /\ x.interrupted = s.interrupted
    BY <2>1, <2>2 DEF Settle, Like, SameSlots, MainType
  <2> QED
    BY <1>2, <2>3 DEF Fate, D
<1> QED
  BY <1>1, <1>2

\* What becomes of the batch of a turn with a result, by the fields.
LEMMA BatchFateFields ==
  ASSUME NEW s \in MainType, NEW t \in TaskType, TaskOK(t), t.result # None,
         NEW x \in BatchFate(s, t, t.result)
  PROVE  Fate(x, s, t) /\ Like(x, s)
<1> DEFINE r == t.result
           b == t.result.batch
<1>1. r.outcome \in Outcome /\ (b # None => b \in FlushBatch)
  BY DEF TaskType, BatchOrNone
<1>2. CASE b = None \/ t.channel_id \in s.removed
  <2>1. x = Settle(s, BatchIds(t.batch))
    BY <1>2 DEF BatchFate
  <2> QED
    BY <2>1, SettleFields DEF Fate
<1>3. CASE ~(b = None \/ t.channel_id \in s.removed)
  <2>1. /\ b \in FlushBatch /\ t.batch # None /\ ~DropMode /\ b.channel_id = t.channel_id
        /\ b.events = t.batch.events /\ b.cancelled_events = t.batch.cancelled_events
        /\ b # None
    BY <1>1, <1>3 DEF TaskOK
  <2>2. BatchIds(b) = BatchIds(t.batch)
    BY <2>1 DEF BatchIds
  <2>3. CASE r.outcome \in {"cancelled", "drain_timeout"}
    <3> DEFINE reason == IF b.cancel_reason = None THEN "steer" ELSE b.cancel_reason
    <3>1. reason \in CancelReason
      BY <2>1 DEF FlushBatch, CancelReason
    <3>2. x = [s EXCEPT !.q = requeue_as_cancelled(s.q, b, reason),
                        !.interrupted = @ \cup BatchIds(b)]
      BY <1>3, <2>3 DEF BatchFate
    <3> HIDE DEF reason
    <3>3. /\ Like(x, s) /\ x.q = requeue_as_cancelled(s.q, b, reason)
          /\ x.settled = s.settled /\ x.interrupted = s.interrupted \cup BatchIds(b)
      BY <3>2 DEF Like, SameSlots, MainType
    <3> HIDE DEF b
    <3> QED
      BY <2>1, <3>1, <3>3 DEF Fate
  <2>4. CASE r.outcome \in {"hard_silent", "auth_error"}
    <3>1. x = Settle(s, BatchIds(b))
      BY <1>3, <2>4 DEF BatchFate
    <3> QED
      BY <2>2, <3>1, SettleFields DEF Fate
  <2>5. CASE r.outcome \notin {"cancelled", "drain_timeout", "hard_silent", "auth_error"}
    <3>1. x \in Requeue(s, b)
      BY <1>3, <2>5 DEF BatchFate
    <3> HIDE DEF b
    <3> QED
      BY <2>1, <3>1, RequeueFate
  <2> QED
    BY <2>3, <2>4, <2>5
<1> QED
  BY <1>2, <1>3

\* The task is taken from the map, its batch has its fate, and the channel (or the
\* heartbeat) is marked as done.
LEMMA DoneGood ==
  ASSUME NEW s, NEW A, NEW n, Good(s, A, n), A \subseteq AckType, NEW a \in Busy(s.task),
         SteerIds(s.task[a]) = {},
         NEW x, Like(x, [s EXCEPT !.task[a] = None]),
         Fate(x, [s EXCEPT !.task[a] = None], s.task[a]),
         NEW y, y = MarkDone(x, s.task[a])
  PROVE  Good(y, A, n) /\ Vacant(y, a)
<1> DEFINE t == s.task[a]
           s0 == [s EXCEPT !.task[a] = None]
<1>1. /\ s \in MainType /\ QueueOK(s.q) /\ Slots(s)
      /\ TaskOK(t) /\ t \in TaskType /\ a \in Agent
      /\ s.task \in [Agent -> TaskType \cup {None}]
  BY DEF Good, MainType, Busy
<1>2. /\ s0.q = s.q /\ s0.settled = s.settled /\ s0.interrupted = s.interrupted
      /\ s0.idle = s.idle /\ s0.respawn = s.respawn /\ s0.circuit = s.circuit /\ s0.hb = s.hb
      /\ s0.task = [s.task EXCEPT ![a] = None]
  BY <1>1 DEF MainType
<1>3. Fate(x, s, t)
  <2> HIDE DEF t
  <2> QED
    BY <1>2 DEF Fate, t
<1>4. /\ x.task = [s.task EXCEPT ![a] = None]
      /\ x.idle = s.idle /\ x.respawn = s.respawn /\ x.circuit = s.circuit /\ x.hb = s.hb
      /\ x.q \in QueueType /\ x.settled \in SUBSET Nat /\ x.interrupted \in SUBSET Nat
           => x \in MainType
  BY <1>2 DEF Like, SameSlots
<1> HIDE DEF s0
<1>5. /\ Events(x, n) /\ QueueOK(x.q) /\ SameTables(x.q, s.q)
      /\ x.settled \in SUBSET Nat /\ x.interrupted \in SUBSET Nat
      /\ s.settled \subseteq x.settled
  BY <1>3, <1>4, FateMoves
<1>6. x \in MainType
  BY <1>4, <1>5 DEF QueueOK
<1>7. /\ Busy(x.task) = Busy(s.task) \ {a}
      /\ \A b \in Busy(x.task) : x.task[b] = s.task[b]
  BY <1>1, <1>4 DEF Busy
<1>8. CASE t.channel_id = None
  <2>1. y = [x EXCEPT !.hb = FALSE]
    BY <1>8 DEF MarkDone
  <2>2. /\ y \in MainType /\ y.q = x.q /\ y.task = x.task /\ y.idle = s.idle
        /\ y.respawn = s.respawn /\ y.circuit = s.circuit /\ y.hb = FALSE
        /\ y.settled = x.settled /\ y.interrupted = x.interrupted
    BY <1>4, <1>6, <2>1 DEF MainType
  <2>3. Events(y, n)
    BY <1>5, <2>2, EventsStay DEF SameAt
  <2>4. None \notin Channel /\ s.q.in_flight_channels \subseteq Channel
    BY <1>1, HarnessConstants DEF QueueOK, QueueType
  <2>5. /\ \A d \in Channel : y.q.withheld_native_steer[d] = s.q.withheld_native_steer[d]
        /\ \A d \in Channel : y.q.in_flight_deadlines[d] =
             IF d = t.channel_id THEN None ELSE s.q.in_flight_deadlines[d]
        /\ y.q.in_flight_channels = s.q.in_flight_channels \ {t.channel_id}
    BY <1>5, <1>8, <2>2, <2>4 DEF SameTables
  <2>6. /\ QueueOK(y.q) /\ s.settled \subseteq y.settled
        /\ y.hb = IF t.channel_id = None THEN FALSE ELSE s.hb
        /\ Busy(y.task) = Busy(s.task) \ {a}
        /\ \A b \in Busy(y.task) : y.task[b] = s.task[b]
    BY <1>5, <1>7, <1>8, <2>2
  <2>7. Gone(y, s, a)
    BY <2>2, <2>5, <2>6 DEF Gone
  <2> QED
    BY <2>2, <2>3, <2>6, <2>7, GoneGood
<1>9. CASE t.channel_id # None
  <2> DEFINE c == t.channel_id
  <2>0. c \in Channel
    BY <1>1, <1>9 DEF TaskType
  <2>1. y = [x EXCEPT !.q = mark_complete(@, c)]
    BY <1>9 DEF MarkDone
  <2>2. QueueOK(mark_complete(x.q, c))
    BY <1>5, <2>0, MarkCompleteOK
  <2>3. /\ y.q = mark_complete(x.q, c) /\ y.task = x.task /\ y.idle = s.idle
        /\ y.respawn = s.respawn /\ y.circuit = s.circuit /\ y.hb = s.hb
        /\ y.settled = x.settled /\ y.interrupted = x.interrupted
    BY <1>4, <1>6, <2>1 DEF MainType
  <2>4. y \in MainType
    <3>1. mark_complete(x.q, c) \in QueueType
      BY <2>2 DEF QueueOK
    <3> QED
      BY <1>6, <2>1, <3>1 DEF MainType
  <2>5. Events(y, n)
    <3>1. \A d \in Channel : SameAt(y.q, x.q, d)
      BY <1>5, <2>0, <2>3, TimersMoveNothing
    <3> QED
      BY <1>5, <2>3, <3>1, EventsStay
  <2>6. /\ \A d \in Channel : y.q.withheld_native_steer[d] = s.q.withheld_native_steer[d]
        /\ \A d \in Channel : y.q.in_flight_deadlines[d] =
             IF d = c THEN None ELSE s.q.in_flight_deadlines[d]
        /\ y.q.in_flight_channels = s.q.in_flight_channels \ {c}
    BY <1>5, <2>0, <2>3, CompleteTables DEF SameTables
  <2>7. /\ QueueOK(y.q) /\ s.settled \subseteq y.settled
        /\ y.hb = IF c = None THEN FALSE ELSE s.hb
        /\ Busy(y.task) = Busy(s.task) \ {a}
        /\ \A b \in Busy(y.task) : y.task[b] = s.task[b]
    BY <1>5, <1>7, <1>9, <2>2, <2>3
  <2>8. Gone(y, s, a)
    BY <2>3, <2>6, <2>7 DEF Gone
  <2> QED
    BY <2>4, <2>5, <2>7, <2>8, GoneGood
<1> QED
  BY <1>8, <1>9

\* return_agent: the agent goes back to its slot.
LEMMA ReturnGood ==
  ASSUME NEW x, NEW A, NEW n, Good(x, A, n), NEW a, Vacant(x, a),
         NEW t, t = [x EXCEPT !.idle = @ \cup {a}]
  PROVE  Good(t, A, n)
<1>1. x \in MainType /\ Slots(x)
  BY DEF Good
<1>2. /\ t \in MainType /\ t.q = x.q /\ t.task = x.task /\ t.idle = x.idle \cup {a}
      /\ t.respawn = x.respawn /\ t.circuit = x.circuit /\ t.hb = x.hb
      /\ t.settled = x.settled /\ t.interrupted = x.interrupted
  BY <1>1 DEF MainType, Vacant
<1>3. Slots(t)
  BY <1>1, <1>2 DEF Slots, Vacant
<1> QED
  BY <1>2, <1>3, SlotsChange

\* The verdict on the crash of a running agent, whose circuit is closed.
LEMMA RecordCrash ==
  ASSUME NEW k \in Circuit, k.open = "closed", NEW v \in record_crash(k)
  PROVE  /\ v.circuit \in Circuit
         /\ \/ v.respawn = TRUE /\ v.circuit.open = "closed"
            \/ v.respawn = FALSE
<1> PICK kept \in 0..k.crashes :
      v = IF kept + 1 >= CircuitThreshold
          THEN [circuit |-> [crashes |-> CircuitThreshold, open |-> "open"],
                respawn |-> FALSE]
          ELSE [circuit |-> [crashes |-> kept + 1, open |-> "closed"],
                respawn |-> TRUE]
  BY DEF record_crash
<1>1. k.crashes \in 0..CircuitThreshold /\ CircuitThreshold \in Nat
  BY HarnessConstants DEF Circuit
<1>2. CASE kept + 1 >= CircuitThreshold
  BY <1>1, <1>2 DEF Circuit
<1>3. CASE ~(kept + 1 >= CircuitThreshold)
  BY <1>1, <1>3 DEF Circuit
<1> QED
  BY <1>2, <1>3

\* A respawn, or an open circuit, keeps the record good.
LEMMA SpawnGood ==
  ASSUME NEW x, NEW A, NEW n, Good(x, A, n), NEW a, Vacant(x, a),
         NEW t \in spawn_respawn_task(x, a)
  PROVE  Good(t, A, n)
<1>1. x \in MainType /\ Slots(x) /\ a \in Agent /\ x.circuit[a] \in Circuit
      /\ x.circuit[a].open = "closed"
  BY DEF Good, Vacant, MainType
<1>2. PICK v \in record_crash(x.circuit[a]) :
        t = [x EXCEPT !.circuit[a] = v.circuit,
                      !.respawn[a] = IF v.respawn THEN "flying" ELSE @]
  BY DEF spawn_respawn_task
<1>3. /\ v.circuit \in Circuit
      /\ \/ v.respawn = TRUE /\ v.circuit.open = "closed"
         \/ v.respawn = FALSE
  BY <1>1, RecordCrash
<1> DEFINE ci == [x.circuit EXCEPT ![a] = v.circuit]
           re == [x.respawn EXCEPT ![a] = IF v.respawn THEN "flying" ELSE "no"]
<1>4. /\ ci \in [Agent -> Circuit]
      /\ re \in [Agent -> {"no", "flying", "ok", "failed"}]
  BY <1>1, <1>3 DEF MainType
<1>5. t = [x EXCEPT !.circuit = ci, !.respawn = re]
  BY <1>1, <1>2 DEF MainType, Vacant
<1>6. /\ \A b \in Agent \ {a} : ci[b] = x.circuit[b] /\ re[b] = x.respawn[b]
      /\ ci[a] = v.circuit /\ re[a] = IF v.respawn THEN "flying" ELSE "no"
  BY <1>1 DEF MainType
<1> HIDE DEF ci, re
<1>7. /\ t \in MainType /\ t.q = x.q /\ t.task = x.task /\ t.idle = x.idle
      /\ t.respawn = re /\ t.circuit = ci /\ t.hb = x.hb
      /\ t.settled = x.settled /\ t.interrupted = x.interrupted
  BY <1>1, <1>4, <1>5 DEF MainType
<1>8. Slots(t)
  <2>1. a \notin x.idle \cup Busy(x.task)
    BY DEF Vacant
  <2>2. \A b \in Agent : t.respawn[b] # "no" => b \notin t.idle \cup Busy(t.task)
    BY <1>1, <1>6, <1>7, <2>1 DEF Slots
  <2>3. \A b \in Agent : t.circuit[b].open # "closed" =>
          b \notin t.idle \cup Busy(t.task) /\ t.respawn[b] = "no"
    BY <1>1, <1>3, <1>6, <1>7, <2>1 DEF Slots
  <2> QED
    BY <1>1, <1>7, <2>2, <2>3 DEF Slots
<1> QED
  BY <1>7, <1>8, SlotsChange

\* So does the check for a pool without agents.
LEMMA ExitGood ==
  ASSUME NEW x, NEW A, NEW n, Good(x, A, n)
  PROVE  Good(ExitIfDead(x), A, n)
<1>1. x \in MainType /\ Slots(x)
  BY DEF Good
<1> DEFINE e == live_count(x) = 0 /\ ~any_respawn_in_flight(x)
           t == ExitIfDead(x)
<1>2. e \in BOOLEAN
  OBVIOUS
<1>3. t = [x EXCEPT !.exited = e]
  BY DEF ExitIfDead
<1> HIDE DEF e, t
<1>4. /\ t \in MainType /\ t.q = x.q /\ t.task = x.task /\ t.idle = x.idle
      /\ t.respawn = x.respawn /\ t.circuit = x.circuit /\ t.hb = x.hb
      /\ t.settled = x.settled /\ t.interrupted = x.interrupted
  BY <1>1, <1>2, <1>3 DEF MainType
<1>5. Slots(t)
  BY <1>1, <1>4 DEF Slots
<1> QED
  BY <1>4, <1>5, SlotsChange DEF t

\* A task that has returned has answered its steers.
LEMMA FinishedQuiet ==
  ASSUME NEW t, TaskOK(t), t.result # None
  PROVE  SteerIds(t) = {}
BY DEF TaskOK, SteerIds

\* The record with the task of slot a taken out.
LEMMA WithoutTask ==
  ASSUME NEW s \in MainType, NEW a \in Agent
  PROVE  [s EXCEPT !.task[a] = None] \in MainType
BY DEF MainType

\* handle_prompt_result leads to good records.
LEMMA ResultGood ==
  ASSUME NEW A, NEW n, A \subseteq AckType, NEW s \in Fine(A, n), NEW a \in Busy(s.task),
         s.task[a].result # None
  PROVE  handle_prompt_result(s, a) \subseteq Fine(A, n)
<1> DEFINE t == s.task[a]
           s0 == [s EXCEPT !.task[a] = None]
           done == {MarkDone(x, t) : x \in BatchFate(s0, t, t.result)}
<1>1. /\ Good(s, A, n) /\ s \in MainType /\ a \in Agent /\ TaskOK(t) /\ t \in TaskType
  BY DEF Fine, Good, MainType, Busy
<1>2. SteerIds(t) = {}
  BY <1>1, FinishedQuiet
<1>3. s0 \in MainType
  BY <1>1, WithoutTask
<1>4. ASSUME NEW y \in done PROVE Good(y, A, n) /\ Vacant(y, a)
  <2>1. PICK x \in BatchFate(s0, t, t.result) : y = MarkDone(x, t)
    BY <1>4
  <2> HIDE DEF s0
  <2>2. Fate(x, s0, t) /\ Like(x, s0)
    BY <1>1, <1>3, BatchFateFields
  <2> QED
    BY <1>1, <1>2, <2>1, <2>2, DoneGood DEF s0
<1>5. handle_prompt_result(s, a) =
        IF t.result.outcome \in Healthy
        THEN {[x EXCEPT !.idle = @ \cup {a}] : x \in done}
        ELSE UNION {{ExitIfDead(y) : y \in spawn_respawn_task(x, a)} : x \in done}
  BY DEF handle_prompt_result
<1> HIDE DEF done, t
<1>6. ASSUME NEW z \in handle_prompt_result(s, a) PROVE Good(z, A, n)
  <2>1. CASE t.result.outcome \in Healthy
    <3>1. PICK x \in done : z = [x EXCEPT !.idle = @ \cup {a}]
      BY <1>5, <1>6, <2>1
    <3> QED
      BY <1>4, <3>1, ReturnGood
  <2>2. CASE t.result.outcome \notin Healthy
    <3>1. PICK x \in done : \E y \in spawn_respawn_task(x, a) : z = ExitIfDead(y)
      BY <1>5, <1>6, <2>2
    <3>2. PICK y \in spawn_respawn_task(x, a) : z = ExitIfDead(y)
      BY <3>1
    <3>3. Good(y, A, n)
      BY <1>4, <3>2, SpawnGood
    <3> QED
      BY <3>2, <3>3, ExitGood
  <2> QED
    BY <2>1, <2>2
<1> QED
  BY <1>6, FineIsGood

\* The task of slot a has panicked: its batch, if there is a clone of it, goes back.
LEMMA RecoverGood ==
  ASSUME NEW A, NEW n, A \subseteq AckType, NEW s \in Fine(A, n), NEW a \in Panicked(s),
         NEW z \in recover_panicked_agent(s, a)
  PROVE  Good(z, A, n)
<1> DEFINE t == s.task[a]
           s0 == [s EXCEPT !.task[a] = None]
           fates == IF t.batch = None \/ DropMode \/ t.channel_id \in s.removed
                    THEN {Settle(s0, BatchIds(t.batch))} ELSE Requeue(s0, t.batch)
<1>1. /\ Good(s, A, n) /\ s \in MainType /\ a \in Agent /\ TaskOK(t) /\ t \in TaskType
      /\ t.result # None /\ a \in Busy(s.task)
  BY DEF Fine, Good, MainType, Busy, Panicked
<1>2. SteerIds(t) = {}
  BY <1>1, FinishedQuiet
<1>3. s0 \in MainType
  BY <1>1, WithoutTask
<1>4. PICK x \in fates : z \in spawn_respawn_task(MarkDone(x, t), a)
  BY DEF recover_panicked_agent
<1> HIDE DEF s0
<1>5. Fate(x, s0, t) /\ Like(x, s0)
  <2>1. CASE t.batch = None \/ DropMode \/ t.channel_id \in s.removed
    <3>1. x = Settle(s0, BatchIds(t.batch))
      BY <2>1
    <3> QED
      BY <1>3, <3>1, SettleFields DEF Fate
  <2>2. CASE ~(t.batch = None \/ DropMode \/ t.channel_id \in s.removed)
    <3> DEFINE b == t.batch
    <3>1. x \in Requeue(s0, b) /\ b \in FlushBatch /\ b.channel_id = t.channel_id /\ ~DropMode
          /\ t.batch # None /\ b.events = t.batch.events
          /\ b.cancelled_events = t.batch.cancelled_events
      BY <1>1, <2>2 DEF TaskOK, TaskType, BatchOrNone
    <3> HIDE DEF b, t
    <3> QED
      BY <1>3, <3>1, RequeueFate
  <2> QED
    BY <2>1, <2>2
<1> DEFINE y == MarkDone(x, t)
<1>6. Good(y, A, n) /\ Vacant(y, a)
  BY <1>1, <1>2, <1>5, DoneGood DEF s0
<1> HIDE DEF y
<1> QED
  BY <1>4, <1>6, SpawnGood DEF y

\* Whatever set the recoveries stay in, the loop that drains them stays in.
LEMMA DrainStays ==
  ASSUME NEW R, NEW s \in R,
         \A t \in R : \A a \in Panicked(t) : \A x \in recover_panicked_agent(t, a) :
            ExitIfDead(x) \in R
  PROVE  drain_ready_join_results(s) \subseteq R
<1> DEFINE N == Cardinality(Agent)
           More(X) == UNION {IF t.exited \/ Panicked(t) = {} THEN {t}
                             ELSE UNION {{ExitIfDead(x) : x \in recover_panicked_agent(t, a)}
                                           : a \in Panicked(t)}
                               : t \in X}
           Drain[n \in 0..N] == IF n = 0 THEN {s} ELSE More(Drain[n - 1])
           Is(f) == f = [n \in 0..N |-> IF n = 0 THEN {s} ELSE More(f[n - 1])]
<1>1. drain_ready_join_results(s) = Drain[N]
  BY DEF drain_ready_join_results
<1>2. N \in Nat
  BY HarnessConstants, FS_CardinalityType
<1>3. ASSUME NEW X, X \subseteq R PROVE More(X) \subseteq R
  <2> SUFFICES ASSUME NEW t \in X,
                      NEW z \in IF t.exited \/ Panicked(t) = {} THEN {t}
                                ELSE UNION {{ExitIfDead(x) : x \in recover_panicked_agent(t, a)}
                                              : a \in Panicked(t)}
               PROVE  z \in R
    OBVIOUS
  <2>1. CASE t.exited \/ Panicked(t) = {}
    BY <1>3, <2>1
  <2>2. CASE ~(t.exited \/ Panicked(t) = {})
    <3>1. PICK a \in Panicked(t) : \E x \in recover_panicked_agent(t, a) : z = ExitIfDead(x)
      BY <2>2
    <3> QED
      BY <1>3, <3>1
  <2> QED
    BY <2>1, <2>2
<1>4. Drain = CHOOSE f : Is(f)
  OBVIOUS
<1> HIDE DEF N, More, Drain
<1>5. \E f : Is(f)
  <2> DEFINE step == [X \in SUBSET R |-> More(X)]
             base == {s}
  <2>1. step \in [SUBSET R -> SUBSET R] /\ base \in SUBSET R
    BY <1>3
  <2>2. \A X \in SUBSET R : step[X] = More(X)
    OBVIOUS
  <2> HIDE DEF step
  <2>3. PICK f \in [0..N -> SUBSET R] : Unfolds(f, N, base, step)
    <3> HIDE DEF base
    <3> QED
      BY <1>2, <2>1, RecursionExists
  <2>4. \A n \in 0..N : n # 0 => f[n - 1] \in SUBSET R
    BY <1>2
  <2>5. Is(f)
    BY <2>2, <2>3, <2>4 DEF Unfolds
  <2> QED
    BY <2>5
<1>6. Is(Drain)
  <2> HIDE DEF Is
  <2> QED
    BY <1>4, <1>5
<1>7. \A n \in 0..N : Drain[n] = IF n = 0 THEN {s} ELSE More(Drain[n - 1])
  BY <1>6
<1>8. 0..N \subseteq {n \in 0..N : Drain[n] \subseteq R}
  <2> DEFINE S == {n \in 0..N : Drain[n] \subseteq R}
  <2>1. 0 \in S
    BY <1>2, <1>7
  <2>2. ASSUME NEW n \in 0..N, n + 1 \in 0..N, n \in S PROVE n + 1 \in S
    <3>1. Drain[n + 1] = More(Drain[n])
      <4>1. n + 1 # 0 /\ (n + 1) - 1 = n
        OBVIOUS
      <4> QED
        BY <1>7, <2>2, <4>1
    <3> QED
      BY <1>3, <2>2, <3>1
  <2> HIDE DEF S
  <2>3. 0..N \subseteq S
    BY <1>2, <2>1, <2>2, CountUp
  <2> QED
    BY <2>3 DEF S
<1> QED
  BY <1>1, <1>2, <1>8

\* drain_ready_join_results leads to good records.
LEMMA DrainGood ==
  ASSUME NEW A, NEW n, A \subseteq AckType, NEW s \in Fine(A, n)
  PROVE  drain_ready_join_results(s) \subseteq Fine(A, n)
<1> DEFINE R == Fine(A, n)
<1>1. \A t \in R : \A a \in Panicked(t) : \A x \in recover_panicked_agent(t, a) :
            ExitIfDead(x) \in R
  BY RecoverGood, ExitGood, FineIsGood
<1> HIDE DEF R
<1> QED
  BY <1>1, DrainStays DEF R

-----------------------------------------------------------------------------
(* One task changes *)

\* Task w takes the place of task u of slot a.
Replaced(t, s, a, w) ==
  /\ t.q = s.q /\ t.idle = s.idle /\ t.respawn = s.respawn /\ t.circuit = s.circuit
  /\ t.hb = s.hb /\ t.settled = s.settled /\ t.interrupted = s.interrupted
  /\ Busy(t.task) = Busy(s.task)
  /\ t.task[a] = w
  /\ \A b \in Busy(s.task) \ {a} : t.task[b] = s.task[b]

\* A task u goes on as w: it works for the same batch, its steers are still under
\* way or are answered by the new acks, and its hard cap is renewed only by a
\* steer that its agent took, or at the end of the initial message.
GoesOn(u, w, A, B) ==
  /\ w.channel_id = u.channel_id /\ w.batch = u.batch
  /\ w.steerable => u.steerable
  /\ w.steer_tx # None => w.steer_tx # w.pending_steer
  /\ A \subseteq B
  /\ SteerIds(w) \subseteq SteerIds(u)
  /\ \A k \in B \ A : k.channel_id = u.channel_id /\ k.event_id \in SteerIds(u) \ SteerIds(w)
  /\ \A k1, k2 \in B \ A : k1.event_id = k2.event_id => k1 = k2
  /\ \A i \in SteerIds(u) \ SteerIds(w) : \E k \in B \ A : k.event_id = i
  /\ \/ w.left <= u.left
     \/ \E k \in B : k.channel_id = u.channel_id /\ k.kind = "success"
     \/ InitialMessage /\ ~w.steerable

\* The acks of the step answer the steers that the task no longer has.
LEMMA ReplacedSteers ==
  ASSUME NEW s, NEW A, NEW n, Good(s, A, n), NEW B, NEW a \in Busy(s.task),
         NEW w, NEW t, Replaced(t, s, a, w), GoesOn(s.task[a], w, A, B)
  PROVE  Steers(t, B)
<1> DEFINE u == s.task[a]
<1>1. Steers(s, A)
  BY DEF Good
<1>2. /\ t.q = s.q /\ t.settled = s.settled /\ Busy(t.task) = Busy(s.task) /\ t.task[a] = w
      /\ \A b \in Busy(s.task) \ {a} : t.task[b] = s.task[b]
  BY DEF Replaced
<1>3. /\ w.channel_id = u.channel_id
      /\ w.steer_tx # None => w.steer_tx # w.pending_steer
      /\ A \subseteq B /\ SteerIds(w) \subseteq SteerIds(u)
      /\ \A k \in B \ A : k.channel_id = u.channel_id /\ k.event_id \in SteerIds(u) \ SteerIds(w)
      /\ \A k1, k2 \in B \ A : k1.event_id = k2.event_id => k1 = k2
      /\ \A i \in SteerIds(u) \ SteerIds(w) : \E k \in B \ A : k.event_id = i
  BY DEF GoesOn
<1>4. \A b \in Busy(s.task) : /\ t.task[b].channel_id = s.task[b].channel_id
                              /\ SteerIds(t.task[b]) \subseteq SteerIds(s.task[b])
  BY <1>2, <1>3
<1>5. \A b \in Busy(t.task) : t.task[b].steer_tx # None
                                => t.task[b].steer_tx # t.task[b].pending_steer
  BY <1>1, <1>2, <1>3 DEF Steers
<1>6. \A b, c \in Busy(t.task) : b # c => SteerIds(t.task[b]) \cap SteerIds(t.task[c]) = {}
  BY <1>1, <1>2, <1>4 DEF Steers
<1>7. \A b \in Busy(t.task), k \in B : k.event_id \notin SteerIds(t.task[b])
  <2> SUFFICES ASSUME NEW b \in Busy(s.task), NEW k \in B
               PROVE  k.event_id \notin SteerIds(t.task[b])
    BY <1>2
  <2>1. CASE k \in A
    BY <1>1, <1>4, <2>1 DEF Steers
  <2>2. CASE k \notin A /\ b = a
    BY <1>2, <1>3, <2>2
  <2>3. CASE k \notin A /\ b # a
    <3>1. k.event_id \in SteerIds(u)
      BY <1>3, <2>3
    <3>2. SteerIds(u) \cap SteerIds(s.task[b]) = {}
      BY <1>1, <2>3 DEF Steers
    <3> QED
      BY <1>4, <3>1, <3>2
  <2> QED
    BY <2>1, <2>2, <2>3
<1>8. \A k1, k2 \in B : k1.event_id = k2.event_id => k1 = k2
  <2>1. \A k \in A : k.event_id \notin SteerIds(u)
    BY <1>1 DEF Steers
  <2> QED
    BY <1>1, <1>3, <2>1 DEF Steers
<1>9. \A b \in Busy(t.task) : \A i \in SteerIds(t.task[b]) :
        i \in Ids(t.q.withheld_native_steer[t.task[b].channel_id]) \cup t.settled
  BY <1>1, <1>2, <1>4 DEF Steers
<1>10. \A k \in B : k.event_id \in Ids(t.q.withheld_native_steer[k.channel_id]) \cup t.settled
  BY <1>1, <1>2, <1>3 DEF Steers
<1>11. \A c \in Channel : \A i \in Ids(t.q.withheld_native_steer[c]) :
       \/ \E b \in Busy(t.task) : i \in SteerIds(t.task[b])
       \/ \E k \in B : i = k.event_id
  <2> SUFFICES ASSUME NEW c \in Channel, NEW i \in Ids(s.q.withheld_native_steer[c]),
                      ~\E k \in B : i = k.event_id
               PROVE  \E b \in Busy(s.task) : i \in SteerIds(t.task[b])
    BY <1>2
  <2>1. ~\E k \in A : i = k.event_id
    BY <1>3
  <2>2. PICK b \in Busy(s.task) : i \in SteerIds(s.task[b])
    BY <1>1, <2>1 DEF Steers
  <2>3. CASE b = a
    <3>1. i \in SteerIds(w)
      BY <1>3, <2>2, <2>3
    <3> QED
      BY <1>2, <3>1
  <2>4. CASE b # a
    BY <1>2, <2>2, <2>4
  <2> QED
    BY <2>3, <2>4
<1> QED
  BY <1>5, <1>6, <1>7, <1>8, <1>9, <1>10, <1>11 DEF Steers

\* The hard cap of a task is renewed only with the ack of a successful steer.
LEMMA ReplacedDeadlines ==
  ASSUME NEW s, NEW A, NEW n, Good(s, A, n), NEW B, NEW a \in Busy(s.task),
         NEW w, NEW t, Replaced(t, s, a, w), GoesOn(s.task[a], w, A, B),
         s.task[a].left \in Nat, w.left \in Nat
  PROVE  Deadlines(t, B)
<1> DEFINE u == s.task[a]
<1>1. /\ Deadlines(s, A) /\ s.task \in [Agent -> TaskType \cup {None}]
      /\ \A b \in Busy(s.task) : TaskOK(s.task[b])
      /\ QueueOK(s.q)
  BY DEF Good, MainType
<1>2. /\ t.q = s.q /\ Busy(t.task) = Busy(s.task) /\ t.task[a] = w
      /\ \A b \in Busy(s.task) \ {a} : t.task[b] = s.task[b]
  BY DEF Replaced
<1>3. /\ w.channel_id = u.channel_id /\ A \subseteq B
      /\ w.steerable => u.steerable
      /\ \A k \in B \ A : k.channel_id = u.channel_id /\ k.event_id \in SteerIds(u)
      /\ \/ w.left <= u.left
         \/ \E k \in B : k.channel_id = u.channel_id /\ k.kind = "success"
         \/ InitialMessage /\ ~w.steerable
  BY DEF GoesOn
<1>4. \A b \in Busy(s.task) : t.task[b].channel_id = s.task[b].channel_id
  BY <1>2, <1>3
<1>5. \A k \in B : t.q.in_flight_deadlines[k.channel_id] # 0
  <2> SUFFICES ASSUME NEW k \in B \ A PROVE s.q.in_flight_deadlines[u.channel_id] # 0
    BY <1>1, <1>2, <1>3 DEF Deadlines
  <2>1. u.steerable
    BY <1>1, <1>3, SteeredChannel
  <2> QED
    BY <1>1, <2>1, QueueConstants DEF Deadlines, Covered
<1>6. \A b \in Busy(s.task) \ {a} : Covered(s, A, s.task[b]) => Covered(t, B, t.task[b])
  BY <1>2, <1>3 DEF Covered
<1>7. u.channel_id \in Channel /\ Covered(s, A, u) /\ (w.steerable \/ ~InitialMessage)
        => Covered(t, B, w)
  <2> SUFFICES ASSUME u.channel_id \in Channel, Covered(s, A, u), w.steerable \/ ~InitialMessage
               PROVE  Covered(t, B, w)
    OBVIOUS
  <2> DEFINE d == s.q.in_flight_deadlines[u.channel_id]
  <2>1. d \in Nat /\ d # None /\ d # 0 /\ DeadlineBuffer \in Nat
    BY <1>1, TimerType, QueueConstants DEF Covered
  <2>2. t.q.in_flight_deadlines[w.channel_id] = d
    BY <1>2, <1>3
  <2>3. CASE \E k \in B : k.channel_id = u.channel_id /\ k.kind = "success"
    BY <1>3, <2>1, <2>2, <2>3 DEF Covered
  <2>4. CASE ~\E k \in B : k.channel_id = u.channel_id /\ k.kind = "success"
    <3>1. w.left <= u.left
      BY <1>3, <2>4
    <3>2. d >= u.left + DeadlineBuffer
      BY <1>3, <2>4 DEF Covered
    <3>3. d >= w.left + DeadlineBuffer
      BY <2>1, <3>1, <3>2
    <3> QED
      BY <2>1, <2>2, <3>3 DEF Covered
  <2> QED
    BY <2>3, <2>4
<1>8. ASSUME NEW b \in Busy(t.task), t.task[b].steerable
      PROVE  \/ t.q.in_flight_deadlines[t.task[b].channel_id] = None
             \/ Covered(t, B, t.task[b])
  <2>1. CASE b # a
    BY <1>1, <1>2, <1>6, <1>8, <2>1 DEF Deadlines
  <2>2. CASE b = a
    <3>1. u.steerable /\ w.steerable
      BY <1>2, <1>3, <1>8, <2>2
    <3>2. u.channel_id \in Channel
      BY <1>1, <3>1 DEF TaskOK, TaskType, Busy
    <3> QED
      BY <1>1, <1>2, <1>3, <1>7, <2>2, <3>1, <3>2 DEF Deadlines
  <2> QED
    BY <2>1, <2>2
<1>9. ASSUME ~InitialMessage
      PROVE  /\ \A b \in Busy(t.task) : t.task[b].channel_id # None => Covered(t, B, t.task[b])
             /\ \A b, c \in Busy(t.task) :
                  t.task[b].channel_id # None /\ t.task[b].channel_id = t.task[c].channel_id
                    => b = c
             /\ \A c \in t.q.in_flight_channels :
                  \E b \in Busy(t.task) : t.task[b].channel_id = c
  <2>1. u.channel_id # None => u.channel_id \in Channel
    BY <1>1 DEF TaskType, Busy
  <2>2. u.channel_id # None => Covered(t, B, w)
    BY <1>1, <1>7, <1>9, <2>1 DEF Deadlines
  <2>3. \A b \in Busy(t.task) : t.task[b].channel_id # None => Covered(t, B, t.task[b])
    BY <1>1, <1>2, <1>3, <1>6, <1>9, <2>2 DEF Deadlines
  <2>4. \A b, c \in Busy(t.task) :
          t.task[b].channel_id # None /\ t.task[b].channel_id = t.task[c].channel_id => b = c
    BY <1>1, <1>2, <1>4, <1>9 DEF Deadlines
  <2>5. \A c \in t.q.in_flight_channels : \E b \in Busy(t.task) : t.task[b].channel_id = c
    BY <1>1, <1>2, <1>4, <1>9 DEF Deadlines
  <2> QED
    BY <2>3, <2>4, <2>5
<1> QED
  BY <1>5, <1>8, <1>9 DEF Deadlines

\* A step of a task keeps the record good.
LEMMA ReplacedGood ==
  ASSUME NEW s, NEW A, NEW n, Good(s, A, n), NEW B, NEW a \in Busy(s.task),
         NEW w \in TaskType, TaskOK(w), GoesOn(s.task[a], w, A, B),
         NEW t, t = [s EXCEPT !.task[a] = w]
  PROVE  Good(t, B, n)
<1>1. /\ s \in MainType /\ Slots(s) /\ Events(s, n) /\ a \in Agent /\ QueueOK(s.q)
      /\ \A b \in Busy(s.task) : TaskOK(s.task[b])
      /\ s.task \in [Agent -> TaskType \cup {None}]
  BY DEF Good, MainType, Busy
<1>2. t \in MainType
  BY <1>1 DEF MainType
<1>3. w # None
  BY NoneIsAbsent
<1>4. /\ Busy(t.task) = Busy(s.task) /\ t.task[a] = w
      /\ \A b \in Busy(s.task) \ {a} : t.task[b] = s.task[b]
  BY <1>1, <1>3 DEF Busy, MainType
<1>5. Replaced(t, s, a, w)
  BY <1>1, <1>4 DEF Replaced, MainType
<1>6. Steers(t, B)
  BY <1>5, ReplacedSteers
<1>7. s.task[a].left \in Nat /\ w.left \in Nat
  BY <1>1, QueueConstants DEF TaskType, Busy
<1>8. Deadlines(t, B)
  BY <1>5, <1>7, ReplacedDeadlines
<1>9. /\ t.q = s.q /\ t.idle = s.idle /\ t.respawn = s.respawn /\ t.circuit = s.circuit
      /\ t.hb = s.hb /\ t.settled = s.settled /\ t.interrupted = s.interrupted
  BY <1>5 DEF Replaced
<1>10. \A b \in Busy(s.task) : /\ t.task[b].channel_id = s.task[b].channel_id
                               /\ t.task[b].batch = s.task[b].batch
  BY <1>4 DEF GoesOn
<1>11. \A b \in Busy(t.task) : TaskOK(t.task[b])
  BY <1>1, <1>4
<1>12. ASSUME NEW x, Busy(x.task) = Busy(s.task),
              \A b \in Busy(s.task) : /\ x.task[b].channel_id = s.task[b].channel_id
                                      /\ x.task[b].batch = s.task[b].batch,
              x.q = s.q, x.idle = s.idle, x.respawn = s.respawn, x.circuit = s.circuit,
              x.hb = s.hb, x.settled = s.settled, x.interrupted = s.interrupted
       PROVE  Slots(x) /\ Events(x, n)
  <2>1. Slots(x)
    BY <1>1, <1>12 DEF Slots
  <2>2. \A b \in Busy(x.task) : BatchIdsOf(x, b) = BatchIdsOf(s, b)
    BY <1>12 DEF BatchIdsOf
  <2>3. InTurns(x) = InTurns(s)
    BY <1>12, <2>2 DEF InTurns
  <2>4. Events(x, n)
    BY <1>1, <1>12, <2>2, <2>3 DEF Events
  <2> QED
    BY <2>1, <2>4
<1>13. Slots(t) /\ Events(t, n)
  BY <1>4, <1>9, <1>10, <1>12
<1> QED
  BY <1>1, <1>2, <1>6, <1>8, <1>9, <1>11, <1>13 DEF Good

-----------------------------------------------------------------------------
(* Signals and steers *)

\* A control signal leads to good records.
LEMMA SignalGood ==
  ASSUME NEW A, NEW n, NEW s \in Fine(A, n), NEW c \in Channel, NEW sig \in Signal
  PROVE  signal_in_flight_task(s, c, sig) \subseteq Fine(A, n)
<1> SUFFICES ASSUME NEW t \in signal_in_flight_task(s, c, sig) PROVE Good(t, A, n)
  BY FineIsGood
<1>0. Good(s, A, n) /\ s \in MainType
  BY DEF Fine
<1>1. CASE TasksOf(s, c) = {}
  BY <1>0, <1>1 DEF signal_in_flight_task
<1>2. CASE TasksOf(s, c) # {}
  <2>1. PICK a \in TasksOf(s, c) :
          t = [s EXCEPT !.task[a].control = IF @ = "open" THEN sig ELSE @]
    BY <1>2 DEF signal_in_flight_task
  <2> DEFINE u == s.task[a]
             w == [u EXCEPT !.control = IF @ = "open" THEN sig ELSE @]
  <2>2. /\ a \in Busy(s.task) /\ a \in Agent /\ u \in TaskType /\ TaskOK(u) /\ u.channel_id = c
        /\ Steers(s, A) /\ s.task \in [Agent -> TaskType \cup {None}]
    BY <1>0 DEF TasksOf, Busy, Good, MainType
  <2>3. t = [s EXCEPT !.task[a] = w]
    BY <1>0, <2>1, <2>2 DEF MainType
  <2>4. w \in TaskType
    BY <2>2 DEF TaskType
  <2>5. /\ w.channel_id = u.channel_id /\ w.batch = u.batch /\ w.steerable = u.steerable
        /\ w.steer_tx = u.steer_tx /\ w.pending_steer = u.pending_steer /\ w.left = u.left
        /\ w.phase = u.phase /\ w.result = u.result
    BY <2>2 DEF TaskType
  <2>6. c # None
    BY HarnessConstants
  <2> HIDE DEF w
  <2>7. TaskOK(w)
    BY <2>2, <2>5, <2>6 DEF TaskOK
  <2>8. GoesOn(u, w, A, A)
    <3>1. u.left \in Nat
      BY <2>2, QueueConstants DEF TaskType
    <3>2. u.steer_tx # None => u.steer_tx # u.pending_steer
      BY <2>2 DEF Steers
    <3>3. SteerIds(w) = SteerIds(u)
      BY <2>5 DEF SteerIds
    <3> QED
      BY <2>5, <3>1, <3>2, <3>3 DEF GoesOn
  <2> HIDE DEF u
  <2> QED
    BY <1>0, <2>2, <2>3, <2>4, <2>7, <2>8, ReplacedGood DEF u
<1> QED
  BY <1>1, <1>2

\* What a steer leaves in the tables.
LEMMA WithholdTables ==
  ASSUME NEW r, QueueOK(r), NEW c \in Channel, NEW id \in Ids(r.queues[c]), NEW p,
         p = mark_native_steer_pending(r, c, id)
  PROVE  /\ Ids(p.withheld_native_steer[c]) = Ids(r.withheld_native_steer[c]) \cup {id}
         /\ \A d \in Channel \ {c} : p.withheld_native_steer[d] = r.withheld_native_steer[d]
         /\ p.in_flight_channels = r.in_flight_channels
         /\ p.in_flight_deadlines = r.in_flight_deadlines
         /\ id \in Nat
<1> DEFINE s == r.queues[c]
           w == r.withheld_native_steer[c]
           e == s[Position(s, id)]
<1>1. s \in Seq(Event) /\ w \in Seq(Event)
  BY TimerType
<1>2. e \in Event /\ e.id = id /\ id \in Nat
  <2>1. \E i \in 1..Len(s) : s[i].id = id
    BY DEF Ids
  <2>2. e \in Event /\ e.id = id
    BY <1>1, <2>1 DEF Position
  <2> QED
    BY <2>2 DEF Event
<1>3. Ids(Append(w, e)) = Ids(w) \cup {id}
  <2> DEFINE x == <<e>>
  <2>1. x \in Seq(Event) /\ Ids(x) = {id}
    BY <1>2, SingleIds
  <2>2. Append(w, e) = w \o x
    BY <1>1, <1>2, AppendIsConcat
  <2> HIDE DEF x, w
  <2> QED
    BY <1>1, <2>1, <2>2, ConcatIds
<1>4. /\ p.withheld_native_steer[c] = Append(w, e)
      /\ \A d \in Channel \ {c} : p.withheld_native_steer[d] = r.withheld_native_steer[d]
      /\ p.in_flight_channels = r.in_flight_channels
      /\ p.in_flight_deadlines = r.in_flight_deadlines
  BY DEF mark_native_steer_pending, QueueOK, QueueType
<1> QED
  BY <1>2, <1>3, <1>4

\* An event in a queue is not being steered.
LEMMA QueuedNotSteering ==
  ASSUME NEW s, NEW A, NEW n, Good(s, A, n), A \subseteq AckType, NEW c \in Channel,
         NEW id \in Ids(s.q.queues[c])
  PROVE  /\ \A b \in Busy(s.task) : id \notin SteerIds(s.task[b])
         /\ \A k \in A : k.event_id # id
<1>1. /\ Steers(s, A) /\ Events(s, n) /\ Neat(s.q)
      /\ \A a \in Busy(s.task) : TaskOK(s.task[a])
      /\ s.task \in [Agent -> TaskType \cup {None}]
  BY DEF Good, Events, MainType
<1>2. id \notin s.settled
  BY <1>1 DEF Events, AllIds, ChannelIds
<1>3. \A d \in Channel : id \notin Ids(s.q.withheld_native_steer[d])
  BY <1>1 DEF Neat, NeatAt, Apart, ChannelIds
<1>4. \A b \in Busy(s.task) : id \notin SteerIds(s.task[b])
  BY <1>1, <1>2, <1>3, SteeredChannel DEF Steers
<1>5. \A k \in A : k.event_id # id
  BY <1>1, <1>2, <1>3 DEF Steers, AckType
<1> QED
  BY <1>4, <1>5

\* Task w of slot a has one steer more, for event id of channel c.
Steered(t, s, a, c, id) ==
  /\ t.idle = s.idle /\ t.respawn = s.respawn /\ t.circuit = s.circuit
  /\ t.hb = s.hb /\ t.settled = s.settled /\ t.interrupted = s.interrupted
  /\ Busy(t.task) = Busy(s.task)
  /\ \A b \in Busy(s.task) :
       /\ t.task[b].channel_id = s.task[b].channel_id /\ t.task[b].batch = s.task[b].batch
       /\ t.task[b].left = s.task[b].left /\ t.task[b].steerable = s.task[b].steerable
  /\ \A b \in Busy(s.task) \ {a} : t.task[b] = s.task[b]
  /\ SteerIds(t.task[a]) = SteerIds(s.task[a]) \cup {id}
  /\ t.task[a].steer_tx # t.task[a].pending_steer
  /\ s.task[a].channel_id = c
  /\ Ids(t.q.withheld_native_steer[c]) = Ids(s.q.withheld_native_steer[c]) \cup {id}
  /\ \A d \in Channel \ {c} : t.q.withheld_native_steer[d] = s.q.withheld_native_steer[d]
  /\ t.q.in_flight_channels = s.q.in_flight_channels
  /\ t.q.in_flight_deadlines = s.q.in_flight_deadlines

\* A record in which an event is withheld for its steer is good.
LEMMA SteeredGood ==
  ASSUME NEW s, NEW A, NEW n, Good(s, A, n), A \subseteq AckType, NEW c \in Channel,
         NEW id \in Ids(s.q.queues[c]), NEW a \in Busy(s.task), NEW t \in MainType,
         Steered(t, s, a, c, id), QueueOK(t.q), Neat(t.q), AllIds(t.q) = AllIds(s.q),
         t.q.cancelled_batches = s.q.cancelled_batches, TaskOK(t.task[a])
  PROVE  Good(t, A, n)
<1> USE DEF Steered
<1>1. /\ Slots(s) /\ Steers(s, A) /\ Events(s, n) /\ Deadlines(s, A)
      /\ \A b \in Busy(s.task) : TaskOK(s.task[b])
      /\ s.task \in [Agent -> TaskType \cup {None}]
  BY DEF Good, MainType
<1>2. Slots(t)
  BY <1>1 DEF Slots
<1>3. Events(t, n)
  <2>1. \A b \in Busy(t.task) : BatchIdsOf(t, b) = BatchIdsOf(s, b)
    BY DEF BatchIdsOf
  <2>2. InTurns(t) = InTurns(s)
    BY <2>1 DEF InTurns
  <2> QED
    BY <1>1, <2>1, <2>2 DEF Events
<1>4. Deadlines(t, A)
  <2>1. \A b \in Busy(t.task) : Covered(s, A, s.task[b]) => Covered(t, A, t.task[b])
    BY DEF Covered
  <2>2. /\ \A k \in A : t.q.in_flight_deadlines[k.channel_id] # 0
        /\ \A b \in Busy(t.task) : t.task[b].steerable =>
             \/ t.q.in_flight_deadlines[t.task[b].channel_id] = None
             \/ Covered(t, A, t.task[b])
    BY <1>1, <2>1 DEF Deadlines
  <2>3. ASSUME ~InitialMessage
        PROVE  /\ \A b \in Busy(t.task) :
                    t.task[b].channel_id # None => Covered(t, A, t.task[b])
               /\ \A b, d \in Busy(t.task) :
                    t.task[b].channel_id # None /\ t.task[b].channel_id = t.task[d].channel_id
                      => b = d
               /\ \A d \in t.q.in_flight_channels :
                    \E b \in Busy(t.task) : t.task[b].channel_id = d
    BY <1>1, <2>1, <2>3 DEF Deadlines
  <2> QED
    BY <2>2, <2>3 DEF Deadlines
<1>5. /\ \A b \in Busy(s.task) : id \notin SteerIds(s.task[b])
      /\ \A k \in A : k.event_id # id
  BY QueuedNotSteering, SMTT(40)
<1>6. Steers(t, A)
  <2>1. \A b \in Busy(t.task) :
          t.task[b].steer_tx # None => t.task[b].steer_tx # t.task[b].pending_steer
    BY <1>1 DEF Steers
  <2>2. \A b, d \in Busy(t.task) : b # d => SteerIds(t.task[b]) \cap SteerIds(t.task[d]) = {}
    BY <1>1, <1>5 DEF Steers
  <2>3. \A b \in Busy(t.task), k \in A : k.event_id \notin SteerIds(t.task[b])
    BY <1>1, <1>5 DEF Steers
  <2>4. \A d \in Channel : Ids(s.q.withheld_native_steer[d])
                             \subseteq Ids(t.q.withheld_native_steer[d])
    OBVIOUS
  <2>5. \A b \in Busy(t.task) : \A i \in SteerIds(t.task[b]) :
          i \in Ids(t.q.withheld_native_steer[t.task[b].channel_id]) \cup t.settled
    <3> SUFFICES ASSUME NEW b \in Busy(s.task), NEW i \in SteerIds(t.task[b])
                 PROVE  i \in Ids(t.q.withheld_native_steer[s.task[b].channel_id]) \cup s.settled
      OBVIOUS
    <3>1. CASE i \in SteerIds(s.task[b])
      BY <1>1, <2>4, <3>1, SteeredChannel DEF Steers
    <3>2. CASE i \notin SteerIds(s.task[b])
      BY <3>2
    <3> QED
      BY <3>1, <3>2
  <2>6. \A k \in A : k.event_id \in Ids(t.q.withheld_native_steer[k.channel_id]) \cup t.settled
    BY <1>1, <2>4 DEF Steers, AckType
  <2>7. \A d \in Channel : \A i \in Ids(t.q.withheld_native_steer[d]) :
          \/ \E b \in Busy(t.task) : i \in SteerIds(t.task[b])
          \/ \E k \in A : i = k.event_id
    <3> SUFFICES ASSUME NEW d \in Channel, NEW i \in Ids(t.q.withheld_native_steer[d]),
                        ~\E k \in A : i = k.event_id
                 PROVE  \E b \in Busy(s.task) : i \in SteerIds(t.task[b])
      OBVIOUS
    <3>1. CASE i = id
      BY <3>1
    <3>2. CASE i # id
      <4>1. i \in Ids(s.q.withheld_native_steer[d])
        BY <3>2
      <4>2. PICK b \in Busy(s.task) : i \in SteerIds(s.task[b])
        BY <1>1, <4>1 DEF Steers
      <4> QED
        BY <4>2
    <3> QED
      BY <3>1, <3>2
  <2>8. \A k1, k2 \in A : k1.event_id = k2.event_id => k1 = k2
    BY <1>1 DEF Steers
  <2> QED
    BY <2>1, <2>2, <2>3, <2>5, <2>6, <2>7, <2>8 DEF Steers
<1>7. \A b \in Busy(t.task) : TaskOK(t.task[b])
  BY <1>1
<1> QED
  BY <1>2, <1>3, <1>4, <1>6, <1>7 DEF Good

\* A steer, or the signal in its place, leads to good records.
LEMMA SteerOrSignalGood ==
  ASSUME NEW A, NEW n, A \subseteq AckType, NEW s \in Fine(A, n), NEW e \in Event,
         e.id \in Ids(s.q.queues[e.channel_id])
  PROVE  SteerOrSignal(s, e) \subseteq Fine(A, n)
<1> DEFINE c == e.channel_id
           id == e.id
<1>0. /\ Good(s, A, n) /\ s \in MainType /\ c \in Channel /\ QueueOK(s.q) /\ Neat(s.q)
      /\ Steers(s, A) /\ s.task \in [Agent -> TaskType \cup {None}]
  BY DEF Fine, Good, Event, Events, MainType
<1> SUFFICES ASSUME NEW t \in SteerOrSignal(s, e), t \notin signal_in_flight_task(s, c, "Steer"),
                    t # s
             PROVE  Good(t, A, n)
  BY <1>0, SignalGood, FineIsGood DEF Signal
<1>1. PICK a \in TasksOf(s, c) :
        /\ CanSteer(s.task[a])
        /\ t = [s EXCEPT !.task[a].steer_tx = id, !.q = mark_native_steer_pending(@, c, id)]
  BY DEF SteerOrSignal
<1> DEFINE u == s.task[a]
           w == [u EXCEPT !.steer_tx = id]
           r == mark_native_steer_pending(s.q, c, id)
<1>2. /\ a \in Busy(s.task) /\ a \in Agent /\ u \in TaskType /\ TaskOK(u) /\ u.channel_id = c
      /\ u.steerable /\ u.steer_tx = None /\ u.result = None
  BY <1>0, <1>1 DEF TasksOf, Busy, Good, CanSteer
<1>3. /\ Ids(r.withheld_native_steer[c]) = Ids(s.q.withheld_native_steer[c]) \cup {id}
      /\ \A d \in Channel \ {c} : r.withheld_native_steer[d] = s.q.withheld_native_steer[d]
      /\ r.in_flight_channels = s.q.in_flight_channels
      /\ r.in_flight_deadlines = s.q.in_flight_deadlines
      /\ id \in Nat
  BY <1>0, WithholdTables
<1>4. QueueOK(r) /\ r \in QueueType
  BY <1>0, MarkNativeSteerPendingOK DEF QueueOK
<1>5. Neat(r) /\ AllIds(r) = AllIds(s.q) /\ r.cancelled_batches = s.q.cancelled_batches
  BY <1>0, WithholdMoves
<1> HIDE DEF r
<1>6. t = [s EXCEPT !.task[a] = w, !.q = r]
  BY <1>0, <1>1, <1>2 DEF MainType, r
<1>7. w \in TaskType /\ w # None
  BY <1>2, <1>3, NoneIsAbsent DEF TaskType
<1>8. /\ w.channel_id = u.channel_id /\ w.batch = u.batch /\ w.steerable = u.steerable
      /\ w.steer_tx = id /\ w.pending_steer = u.pending_steer /\ w.left = u.left
      /\ w.phase = u.phase /\ w.result = u.result /\ w.control = u.control
  BY <1>2 DEF TaskType
<1> HIDE DEF w
<1>9. TaskOK(w)
  BY <1>2, <1>8 DEF TaskOK
<1>10. /\ t \in MainType /\ t.q = r
       /\ t.idle = s.idle /\ t.respawn = s.respawn /\ t.circuit = s.circuit
       /\ t.hb = s.hb /\ t.settled = s.settled /\ t.interrupted = s.interrupted
       /\ t.task = [s.task EXCEPT ![a] = w]
  BY <1>0, <1>2, <1>4, <1>6, <1>7 DEF MainType
<1>11. /\ Busy(t.task) = Busy(s.task) /\ t.task[a] = w
       /\ \A b \in Busy(s.task) \ {a} : t.task[b] = s.task[b]
  BY <1>0, <1>2, <1>7, <1>10 DEF Busy
<1>12. id # None
  BY <1>3, QueueConstants
<1>13. SteerIds(w) = SteerIds(u) \cup {id}
  BY <1>2, <1>8, <1>12 DEF SteerIds
<1>14. id # u.pending_steer
  <2>1. id \notin SteerIds(u)
    BY <1>0, <1>2, QueuedNotSteering
  <2> QED
    BY <2>1, <1>12 DEF SteerIds
<1>15. \A b \in Busy(s.task) :
         /\ t.task[b].channel_id = s.task[b].channel_id /\ t.task[b].batch = s.task[b].batch
         /\ t.task[b].left = s.task[b].left /\ t.task[b].steerable = s.task[b].steerable
  BY <1>8, <1>11
<1>16. Steered(t, s, a, c, id)
  BY <1>2, <1>3, <1>8, <1>10, <1>11, <1>13, <1>14, <1>15 DEF Steered
<1> QED
  BY <1>0, <1>2, <1>4, <1>5, <1>9, <1>10, <1>11, <1>16, SteeredGood

-----------------------------------------------------------------------------
(* What the branches of select! do first *)

\* What the invariant says of the record that the variables make up.
LEMMA MainFine ==
  ASSUME IInv
  PROVE  /\ Main \in Fine(acks, arrived) /\ Main \in MainType
         /\ acks \subseteq AckType /\ arrived \in Nat
         /\ Main.q = q /\ Main.task = task /\ Main.idle = idle /\ Main.respawn = respawn
         /\ Main.circuit = circuit /\ Main.hb = heartbeat_in_flight
         /\ Main.settled = settled /\ Main.interrupted = interrupted /\ Main.maint = maint
         /\ Main.removed = removed /\ Main.exited = exited /\ Main.failures = failures
<1>1. Main \in Fine(acks, arrived) /\ Main \in MainType
  BY FineIsGood DEF IInv, Good
<1> QED
  BY <1>1 DEF IInv, Main

\* A handler may go on with dispatch_pending.
LEMMA ThenDispatchGood ==
  ASSUME NEW A, NEW n, A \subseteq AckType, n \in Nat, NEW S, S \subseteq Fine(A, n)
  PROVE  Then(S, dispatch_pending) \subseteq Fine(A, n)
BY DispatchGood DEF Then

\* A handler may go on with drain_ready_join_results.
LEMMA ThenDrainGood ==
  ASSUME NEW A, NEW n, A \subseteq AckType, NEW S, S \subseteq Fine(A, n)
  PROVE  Then(S, drain_ready_join_results) \subseteq Fine(A, n)
BY DrainGood DEF Then

\* t is s with another queue and more that is settled.
WithQueue(t, s, r, X) ==
  /\ t.q = r /\ t.settled = s.settled \cup X /\ SameSlots(t, s)
  /\ t.interrupted = s.interrupted
  /\ r \in QueueType /\ X \subseteq Nat => t \in MainType

\* The fields of a record whose queue and history were changed.
LEMMA QueueFields ==
  ASSUME NEW s \in MainType, NEW r, NEW X, NEW t,
         t = [Settle(s, X) EXCEPT !.q = r] \/ t = Settle([s EXCEPT !.q = r], X)
  PROVE  WithQueue(t, s, r, X)
<1> DEFINE Y == s.settled \cup X
<1>1. t = [s EXCEPT !.q = r, !.settled = Y]
  <2>1. CASE t = [Settle(s, X) EXCEPT !.q = r]
    BY <2>1 DEF Settle, MainType
  <2>2. CASE t = Settle([s EXCEPT !.q = r], X)
    BY <2>2 DEF Settle, MainType
  <2> QED
    BY <2>1, <2>2
<1>2. X \subseteq Nat => Y \in SUBSET Nat
  BY DEF MainType
<1> HIDE DEF Y
<1>3. /\ t.q = r /\ t.settled = Y /\ SameSlots(t, s) /\ t.interrupted = s.interrupted
  BY <1>1 DEF SameSlots, MainType
<1>4. r \in QueueType /\ Y \in SUBSET Nat => t \in MainType
  BY <1>1 DEF MainType
<1> QED
  BY <1>2, <1>3, <1>4 DEF Y, WithQueue

\* push touches one queue, and a queue that takes the event has it.
LEMMA PushTables ==
  ASSUME NEW r, QueueOK(r), NEW e \in Event
  PROVE  /\ push(r, e).in_flight_channels = r.in_flight_channels
         /\ push(r, e).in_flight_deadlines = r.in_flight_deadlines
         /\ push(r, e).withheld_native_steer = r.withheld_native_steer
         /\ push(r, e).cancelled_batches = r.cancelled_batches
         /\ Accepts(r, e) => e.id \in Ids(push(r, e).queues[e.channel_id])
<1> DEFINE c == e.channel_id
           room == IF Len(r.queues[c]) >= MaxPending
                   THEN Tail(r.queues[c]) ELSE r.queues[c]
<1>1. c \in Channel /\ r.queues[c] \in Seq(Event) /\ Len(r.queues[c]) <= MaxPending
      /\ MaxPending \in Nat \ {0}
  BY QueueConstants DEF Event, QueueOK, QueueType
<1>2. room \in Seq(Event)
  BY <1>1
<1>3. push(r, e) = IF Accepts(r, e) THEN [r EXCEPT !.queues[c] = Append(room, e)] ELSE r
  BY DEF push
<1> HIDE DEF room
<1>4. Accepts(r, e) => push(r, e).queues[c] = Append(room, e)
  BY <1>1, <1>3 DEF QueueOK, QueueType
<1>5. e.id \in Ids(Append(room, e))
  <2>1. Len(Append(room, e)) = Len(room) + 1 /\ Len(room) \in Nat
        /\ Append(room, e)[Len(room) + 1] = e
    BY <1>2
  <2> QED
    BY <2>1 DEF Ids
<1>6. /\ push(r, e).in_flight_channels = r.in_flight_channels
      /\ push(r, e).in_flight_deadlines = r.in_flight_deadlines
      /\ push(r, e).withheld_native_steer = r.withheld_native_steer
      /\ push(r, e).cancelled_batches = r.cancelled_batches
  BY <1>3 DEF QueueOK, QueueType
<1> QED
  BY <1>4, <1>5, <1>6

\* The arrival of an event.
LEMMA PushGood ==
  ASSUME NEW A, NEW n, A \subseteq AckType, n \in Nat, NEW s, Good(s, A, n),
         NEW e \in Event, e.id = n + 1,
         NEW t, WithQueue(t, s, push(s.q, e), Dropped(s.q, e))
  PROVE  Good(t, A, n + 1)
<1> DEFINE D == Dropped(s.q, e)
           r == push(s.q, e)
<1>1. /\ s \in MainType /\ QueueOK(s.q) /\ Events(s, n) /\ Neat(s.q)
      /\ Slots(s) /\ Steers(s, A) /\ Deadlines(s, A)
      /\ \A a \in Busy(s.task) : TaskOK(s.task[a])
      /\ s.task \in [Agent -> TaskType \cup {None}]
  BY DEF Good, Events, MainType
<1>2. /\ AllIds(s.q) \cap InTurns(s) = {}
      /\ s.settled \cap (AllIds(s.q) \cup InTurns(s)) = {}
      /\ AllIds(s.q) \cup InTurns(s) \cup s.settled \subseteq 1..n
      /\ 1..n \subseteq AllIds(s.q) \cup InTurns(s) \cup s.settled \cup s.interrupted
  BY <1>1 DEF Events
<1>3. n + 1 \notin 1..n /\ 1..(n + 1) = 1..n \cup {n + 1} /\ 1..(n + 1) \subseteq Nat
  OBVIOUS
<1>4. e.id \notin AllIds(s.q)
  BY <1>2, <1>3
<1>5. /\ Neat(r) /\ AllIds(r) = (AllIds(s.q) \cup {n + 1}) \ D
      /\ D \subseteq AllIds(s.q) \cup {n + 1} /\ r.cancelled_batches = s.q.cancelled_batches
  BY <1>1, <1>4, PushMoves
<1>6. QueueOK(r) /\ r \in QueueType
  BY <1>1, PushOK DEF QueueOK
<1>7. D \subseteq Nat
  BY <1>2, <1>3, <1>5
<1>8. /\ r.in_flight_channels = s.q.in_flight_channels
      /\ r.in_flight_deadlines = s.q.in_flight_deadlines
      /\ r.withheld_native_steer = s.q.withheld_native_steer
  BY <1>1, PushTables
<1> HIDE DEF D, r
<1>9. /\ t.q = r /\ t.settled = s.settled \cup D /\ SameSlots(t, s) /\ t \in MainType
      /\ t.interrupted = s.interrupted
  <2>1. WithQueue(t, s, r, D)
    BY DEF D, r
  <2> QED
    BY <1>6, <1>7, <2>1 DEF WithQueue
<1>10. t.task = s.task /\ s.settled \subseteq t.settled /\ Slots(t)
  BY <1>1, <1>9 DEF SameSlots, Slots
<1>11. Events(t, n + 1)
  <2>1. InTurns(t) = InTurns(s) /\ \A a \in Busy(s.task) : BatchIdsOf(t, a) = BatchIdsOf(s, a)
    BY <1>10 DEF InTurns, BatchIdsOf
  <2>2. /\ AllIds(t.q) \cap InTurns(t) = {}
        /\ t.settled \cap (AllIds(t.q) \cup InTurns(t)) = {}
        /\ AllIds(t.q) \cup InTurns(t) \cup t.settled \subseteq 1..(n + 1)
    BY <1>2, <1>3, <1>5, <1>9, <2>1
  <2>3. 1..(n + 1) \subseteq AllIds(t.q) \cup InTurns(t) \cup t.settled \cup t.interrupted
    BY <1>2, <1>3, <1>5, <1>9, <2>1
  <2> QED
    BY <1>1, <1>5, <1>9, <1>10, <2>1, <2>2, <2>3 DEF Events
<1>12. Steers(t, A)
  BY <1>1, <1>8, <1>9, <1>10, SteersStay
<1>13. Deadlines(t, A)
  BY <1>1, <1>8, <1>9, <1>10, DeadlinesStay
<1> QED
  BY <1>1, <1>6, <1>9, <1>10, <1>11, <1>12, <1>13 DEF Good

\* drain_channel empties the tables of one channel, but leaves its turn alone.
LEMMA DrainTables ==
  ASSUME NEW r, QueueOK(r), NEW c \in Channel
  PROVE  /\ drain_channel(r, c).in_flight_channels = r.in_flight_channels
         /\ drain_channel(r, c).in_flight_deadlines = r.in_flight_deadlines
         /\ \A d \in Channel : drain_channel(r, c).withheld_native_steer[d] =
                                 IF d = c THEN <<>> ELSE r.withheld_native_steer[d]
BY DEF drain_channel, QueueOK, QueueType

\* Some withheld events are settled.
LEMMA SteersSettle ==
  ASSUME NEW s, NEW A, Steers(s, A), NEW t, t.task = s.task, s.settled \subseteq t.settled,
         A \subseteq AckType, \A a \in Busy(s.task) : TaskOK(s.task[a]),
         s.task \in [Agent -> TaskType \cup {None}],
         \A c \in Channel :
           /\ Ids(t.q.withheld_native_steer[c]) \subseteq Ids(s.q.withheld_native_steer[c])
           /\ Ids(s.q.withheld_native_steer[c])
                \subseteq Ids(t.q.withheld_native_steer[c]) \cup t.settled
  PROVE  Steers(t, A)
<1>1. \A a \in Busy(s.task) : \A i \in SteerIds(s.task[a]) : s.task[a].channel_id \in Channel
  BY SteeredChannel
<1>2. \A a \in Busy(s.task) : \A i \in SteerIds(s.task[a]) :
        i \in Ids(t.q.withheld_native_steer[t.task[a].channel_id]) \cup t.settled
  BY <1>1 DEF Steers
<1>3. \A k \in A : k.event_id \in Ids(t.q.withheld_native_steer[k.channel_id]) \cup t.settled
  BY DEF Steers, AckType
<1>4. \A c \in Channel : \A i \in Ids(t.q.withheld_native_steer[c]) :
       \/ \E a \in Busy(t.task) : i \in SteerIds(t.task[a])
       \/ \E k \in A : i = k.event_id
  BY DEF Steers
<1> QED
  BY <1>2, <1>3, <1>4 DEF Steers

\* The agent is removed from channel c.
LEMMA RemovedGood ==
  ASSUME NEW A, NEW n, A \subseteq AckType, n \in Nat, NEW s, Good(s, A, n), NEW c \in Channel,
         NEW t, t = [s EXCEPT !.q = drain_channel(@, c), !.removed = @ \cup {c},
                              !.settled = @ \cup Ids(s.q.queues[c])
                                            \cup Ids(s.q.cancelled_batches[c])
                                            \cup Ids(s.q.withheld_native_steer[c])]
  PROVE  Good(t, A, n)
<1> DEFINE D == ChannelIds(s.q, c)
           r == drain_channel(s.q, c)
<1>1. /\ s \in MainType /\ QueueOK(s.q) /\ Events(s, n) /\ Neat(s.q)
      /\ Slots(s) /\ Steers(s, A) /\ Deadlines(s, A)
      /\ \A a \in Busy(s.task) : TaskOK(s.task[a])
      /\ s.task \in [Agent -> TaskType \cup {None}]
  BY DEF Good, Events, MainType
<1>2. /\ Neat(r) /\ AllIds(r) = AllIds(s.q) \ D /\ D \subseteq AllIds(s.q)
      /\ \A d \in Channel : r.cancelled_batches[d] \in {<<>>, s.q.cancelled_batches[d]}
  BY <1>1, DrainMoves
<1>3. QueueOK(r) /\ r \in QueueType
  BY <1>1, DrainOK DEF QueueOK
<1>4. /\ r.in_flight_channels = s.q.in_flight_channels
      /\ r.in_flight_deadlines = s.q.in_flight_deadlines
      /\ \A d \in Channel : r.withheld_native_steer[d] =
                              IF d = c THEN <<>> ELSE s.q.withheld_native_steer[d]
  BY <1>1, DrainTables
<1>5. D \subseteq Nat
  BY <1>1, <1>2 DEF Events
<1>6. D = Ids(s.q.queues[c]) \cup Ids(s.q.cancelled_batches[c])
            \cup Ids(s.q.withheld_native_steer[c])
  BY DEF ChannelIds
<1> DEFINE rem == s.removed \cup {c}
           set == s.settled \cup D
<1>7. rem \in SUBSET Channel /\ set \in SUBSET Nat
  BY <1>1, <1>5 DEF MainType
<1>8. t = [s EXCEPT !.q = r, !.removed = rem, !.settled = set]
  BY <1>1, <1>6 DEF MainType
<1> HIDE DEF r, rem
<1>9. /\ t \in MainType /\ t.q = r /\ t.idle = s.idle /\ t.respawn = s.respawn
      /\ t.circuit = s.circuit /\ t.hb = s.hb /\ t.settled = set
      /\ t.interrupted = s.interrupted /\ t.task = s.task
  <2> HIDE DEF set
  <2> QED
    BY <1>1, <1>3, <1>7, <1>8 DEF MainType
<1>10. Slots(t)
  BY <1>1, <1>9 DEF Slots
<1>11. \A d \in Channel :
         /\ Ids(t.q.withheld_native_steer[d]) \subseteq Ids(s.q.withheld_native_steer[d])
         /\ Ids(s.q.withheld_native_steer[d])
              \subseteq Ids(t.q.withheld_native_steer[d]) \cup t.settled
  BY <1>4, <1>6, <1>9, EmptyIds
<1>12. s.settled \subseteq t.settled
  BY <1>9
<1> HIDE DEF D
<1>13. Events(t, n)
  BY <1>1, <1>2, <1>9, EventsDrop
<1>14. Steers(t, A)
  BY <1>1, <1>9, <1>11, <1>12, SteersSettle
<1>15. Deadlines(t, A)
  BY <1>1, <1>4, <1>9, DeadlinesStay
<1> QED
  BY <1>1, <1>3, <1>9, <1>10, <1>13, <1>14, <1>15 DEF Good

\* The ack k has been handled: its event is withheld no longer.
LEMMA SteersAcked ==
  ASSUME NEW s, NEW A, Steers(s, A), NEW t, t.task = s.task, s.settled \subseteq t.settled,
         A \subseteq AckType, \A a \in Busy(s.task) : TaskOK(s.task[a]),
         s.task \in [Agent -> TaskType \cup {None}], NEW k \in A,
         \A d \in Channel : Ids(t.q.withheld_native_steer[d]) =
                              Ids(s.q.withheld_native_steer[d]) \ {k.event_id}
  PROVE  Steers(t, A \ {k})
<1>1. \A a \in Busy(s.task) : \A i \in SteerIds(s.task[a]) :
        s.task[a].channel_id \in Channel /\ i # k.event_id
  BY SteeredChannel DEF Steers
<1>2. \A a \in Busy(s.task) : \A i \in SteerIds(s.task[a]) :
        i \in Ids(t.q.withheld_native_steer[t.task[a].channel_id]) \cup t.settled
  BY <1>1, ZenonT(60) DEF Steers
<1>3. \A y \in A \ {k} : y.event_id # k.event_id /\ y.channel_id \in Channel
  BY DEF Steers, AckType
<1>4. \A y \in A \ {k} :
        y.event_id \in Ids(t.q.withheld_native_steer[y.channel_id]) \cup t.settled
  BY <1>3 DEF Steers
<1>5. \A c \in Channel : \A i \in Ids(t.q.withheld_native_steer[c]) :
       \/ \E a \in Busy(t.task) : i \in SteerIds(t.task[a])
       \/ \E y \in A \ {k} : i = y.event_id
  <2> SUFFICES ASSUME NEW c \in Channel, NEW i \in Ids(s.q.withheld_native_steer[c]),
                      i # k.event_id, ~\E y \in A \ {k} : i = y.event_id
               PROVE  \E a \in Busy(s.task) : i \in SteerIds(s.task[a])
    OBVIOUS
  <2>1. ~\E y \in A : i = y.event_id
    OBVIOUS
  <2> QED
    BY <2>1 DEF Steers
<1> QED
  BY <1>2, <1>4, <1>5 DEF Steers

\* A deadline is moved to its full length, or not at all.
Extended(t, s) ==
  \A d \in Channel :
    \/ t.q.in_flight_deadlines[d] = s.q.in_flight_deadlines[d]
    \/ /\ s.q.in_flight_deadlines[d] # None
       /\ t.q.in_flight_deadlines[d] \in Nat
       /\ t.q.in_flight_deadlines[d] >= MaxTurn + DeadlineBuffer

\* The ack k has been handled; if the agent took the steer, the channel's deadline
\* covers the hard cap that this has renewed.
LEMMA DeadlinesAcked ==
  ASSUME NEW s, NEW A, Deadlines(s, A), NEW t, t.task = s.task, QueueOK(s.q),
         A \subseteq AckType, s.task \in [Agent -> TaskType \cup {None}],
         \A a \in Busy(s.task) : TaskOK(s.task[a]), NEW k \in A,
         t.q.in_flight_channels = s.q.in_flight_channels, Extended(t, s),
         k.kind = "success" => \/ t.q.in_flight_deadlines[k.channel_id] = None
                               \/ /\ t.q.in_flight_deadlines[k.channel_id] \in Nat
                                  /\ t.q.in_flight_deadlines[k.channel_id]
                                       >= MaxTurn + DeadlineBuffer
  PROVE  Deadlines(t, A \ {k})
<1> DEFINE B == A \ {k}
<1>1. \A y \in A : y.channel_id \in Channel
  BY DEF AckType
<1>2. MaxTurn \in Nat \ {0} /\ DeadlineBuffer \in Nat \ {0} /\ None \notin Nat
  BY QueueConstants
<1>3. \A d \in Channel : /\ s.q.in_flight_deadlines[d] # 0 => t.q.in_flight_deadlines[d] # 0
                         /\ s.q.in_flight_deadlines[d] = None <=> t.q.in_flight_deadlines[d] = None
  BY <1>2 DEF Extended
<1>4. \A y \in B : t.q.in_flight_deadlines[y.channel_id] # 0
  BY <1>1, <1>3 DEF Deadlines
<1>5. ASSUME NEW a \in Busy(s.task), s.task[a].channel_id \in Channel, Covered(s, A, s.task[a])
      PROVE  Covered(t, B, s.task[a])
  <2> DEFINE c == s.task[a].channel_id
             x == s.q.in_flight_deadlines[c]
             y == t.q.in_flight_deadlines[c]
  <2>1. x # None /\ x # 0
    BY <1>5 DEF Covered
  <2>2. y # None /\ y # 0
    BY <1>3, <1>5, <2>1
  <2>3. s.task[a].left \in 0..MaxTurn
    BY DEF Busy, TaskType
  <2>4. CASE y \in Nat /\ y >= MaxTurn + DeadlineBuffer
    <3>1. y >= s.task[a].left + DeadlineBuffer
      BY <1>2, <2>3, <2>4
    <3> QED
      BY <2>2, <3>1 DEF Covered
  <2>5. CASE ~(y \in Nat /\ y >= MaxTurn + DeadlineBuffer)
    <3>1. y = x
      BY <1>5, <2>5 DEF Extended
    <3>2. CASE x >= s.task[a].left + DeadlineBuffer
      BY <2>2, <3>1, <3>2 DEF Covered
    <3>3. CASE \E z \in A : z.channel_id = c /\ z.kind = "success"
      <4>1. PICK z \in A : z.channel_id = c /\ z.kind = "success"
        BY <3>3
      <4>2. z # k
        BY <2>2, <2>5, <4>1
      <4> QED
        BY <2>2, <4>1, <4>2 DEF Covered
    <3> QED
      BY <1>5, <3>2, <3>3 DEF Covered
  <2> QED
    BY <2>4, <2>5
<1>6. \A a \in Busy(s.task) :
        s.task[a].steerable \/ s.task[a].channel_id # None => s.task[a].channel_id \in Channel
  BY DEF TaskOK, TaskType, Busy
<1> HIDE DEF B
<1>7. \A a \in Busy(t.task) : t.task[a].steerable =>
       \/ t.q.in_flight_deadlines[t.task[a].channel_id] = None
       \/ Covered(t, B, t.task[a])
  BY <1>3, <1>5, <1>6 DEF Deadlines
<1>8. ASSUME ~InitialMessage
      PROVE  /\ \A a \in Busy(t.task) : t.task[a].channel_id # None => Covered(t, B, t.task[a])
             /\ \A a, b \in Busy(t.task) :
                  t.task[a].channel_id # None /\ t.task[a].channel_id = t.task[b].channel_id
                    => a = b
             /\ \A c \in t.q.in_flight_channels :
                  \E a \in Busy(t.task) : t.task[a].channel_id = c
  BY <1>5, <1>6, <1>8 DEF Deadlines
<1>9. Deadlines(t, B)
  BY <1>4, <1>7, <1>8 DEF Deadlines
<1> QED
  BY <1>9 DEF B

\* What extend_in_flight_deadline and remove_event leave in the tables.
LEMMA TakenTables ==
  ASSUME NEW r, QueueOK(r), NEW c \in Channel, NEW id, NEW x, NEW p,
         x = extend_in_flight_deadline(r, c), p = remove_event(x, c, id)
  PROVE  /\ \A d \in Channel :
              /\ p.withheld_native_steer[d] = IF d = c THEN Without(r.withheld_native_steer[d], id)
                                              ELSE r.withheld_native_steer[d]
              /\ p.queues[d] = IF d = c THEN Without(r.queues[d], id) ELSE r.queues[d]
         /\ p.cancelled_batches = r.cancelled_batches
         /\ p.in_flight_channels = r.in_flight_channels
         /\ \A d \in Channel \ {c} : p.in_flight_deadlines[d] = r.in_flight_deadlines[d]
         /\ IF r.in_flight_deadlines[c] = None \/ r.in_flight_deadlines[c] > in_flight_deadline
            THEN p.in_flight_deadlines[c] = r.in_flight_deadlines[c]
            ELSE p.in_flight_deadlines[c] = in_flight_deadline
<1>1. /\ x.queues = r.queues /\ x.withheld_native_steer = r.withheld_native_steer
      /\ x.cancelled_batches = r.cancelled_batches
      /\ x.in_flight_channels = r.in_flight_channels
      /\ x.in_flight_deadlines = [r.in_flight_deadlines EXCEPT ![c] =
              IF @ = None \/ @ > in_flight_deadline THEN @ ELSE in_flight_deadline]
      /\ x \in QueueType
  <2>1. QueueOK(x)
    BY ExtendOK
  <2> QED
    BY <2>1 DEF extend_in_flight_deadline, QueueOK, QueueType
<1>2. /\ p.queues = [x.queues EXCEPT ![c] = Without(@, id)]
      /\ p.withheld_native_steer = [x.withheld_native_steer EXCEPT ![c] = Without(@, id)]
      /\ p.cancelled_batches = x.cancelled_batches
      /\ p.in_flight_channels = x.in_flight_channels
      /\ p.in_flight_deadlines = x.in_flight_deadlines
  BY <1>1 DEF remove_event, QueueType
<1>3. \A d \in Channel \ {c} : p.in_flight_deadlines[d] = r.in_flight_deadlines[d]
  BY <1>1, <1>2 DEF QueueOK, QueueType
<1>4. IF r.in_flight_deadlines[c] = None \/ r.in_flight_deadlines[c] > in_flight_deadline
      THEN p.in_flight_deadlines[c] = r.in_flight_deadlines[c]
      ELSE p.in_flight_deadlines[c] = in_flight_deadline
  BY <1>1, <1>2 DEF QueueOK, QueueType
<1>5. \A d \in Channel :
        /\ p.withheld_native_steer[d] = IF d = c THEN Without(r.withheld_native_steer[d], id)
                                        ELSE r.withheld_native_steer[d]
        /\ p.queues[d] = IF d = c THEN Without(r.queues[d], id) ELSE r.queues[d]
  BY <1>1, <1>2 DEF QueueOK, QueueType
<1> QED
  BY <1>1, <1>2, <1>3, <1>4, <1>5

\* The steer of an ack is for an event that is withheld on the ack's channel, or
\* one that is nowhere in the queue any more.
LEMMA AckedEvent ==
  ASSUME NEW s, NEW A, NEW n, Good(s, A, n), A \subseteq AckType, NEW k \in A
  PROVE  /\ k.channel_id \in Channel /\ k.event_id \in Nat
         /\ k.event_id \in Ids(s.q.withheld_native_steer[k.channel_id]) =>
              \A d \in Channel \ {k.channel_id} :
                k.event_id \notin Ids(s.q.withheld_native_steer[d])
         /\ k.event_id \notin Ids(s.q.withheld_native_steer[k.channel_id]) =>
              k.event_id \notin AllIds(s.q) /\ k.event_id \in s.settled
<1>1. /\ Steers(s, A) /\ Events(s, n) /\ Neat(s.q)
  BY DEF Good, Events
<1>2. k.channel_id \in Channel /\ k.event_id \in Nat
  BY DEF AckType
<1>3. k.event_id \in Ids(s.q.withheld_native_steer[k.channel_id]) =>
        \A d \in Channel \ {k.channel_id} :
          k.event_id \notin Ids(s.q.withheld_native_steer[d])
  BY <1>1, <1>2 DEF Neat, ChannelIds
<1>4. k.event_id \notin Ids(s.q.withheld_native_steer[k.channel_id]) =>
        k.event_id \notin AllIds(s.q) /\ k.event_id \in s.settled
  BY <1>1 DEF Steers, Events
<1> QED
  BY <1>2, <1>3, <1>4

\* The ack of a steer has been handled, by the fields: some events are settled,
\* none comes in, and the acked one is withheld no longer.
LEMMA AckedGood ==
  ASSUME NEW A, NEW n, A \subseteq AckType, NEW s, Good(s, A, n), NEW k \in A,
         NEW t \in MainType, SameSlots(t, s), t.interrupted = s.interrupted, QueueOK(t.q),
         NEW D, D \subseteq AllIds(s.q), Neat(t.q), AllIds(t.q) = AllIds(s.q) \ D,
         t.settled = s.settled \cup D,
         t.q.cancelled_batches = s.q.cancelled_batches,
         \A d \in Channel : Ids(t.q.withheld_native_steer[d]) =
                              Ids(s.q.withheld_native_steer[d]) \ {k.event_id},
         t.q.in_flight_channels = s.q.in_flight_channels, Extended(t, s),
         k.kind = "success" => \/ t.q.in_flight_deadlines[k.channel_id] = None
                               \/ /\ t.q.in_flight_deadlines[k.channel_id] \in Nat
                                  /\ t.q.in_flight_deadlines[k.channel_id]
                                       >= MaxTurn + DeadlineBuffer
  PROVE  Good(t, A \ {k}, n)
<1>1. /\ QueueOK(s.q) /\ Events(s, n)
      /\ Slots(s) /\ Steers(s, A) /\ Deadlines(s, A)
      /\ \A a \in Busy(s.task) : TaskOK(s.task[a])
      /\ s.task \in [Agent -> TaskType \cup {None}]
  BY DEF Good, MainType
<1>2. t.task = s.task /\ Slots(t) /\ s.settled \subseteq t.settled
  BY <1>1 DEF SameSlots, Slots
<1>3. Events(t, n)
  <2>1. \A d \in Channel : t.q.cancelled_batches[d] \in {<<>>, s.q.cancelled_batches[d]}
    OBVIOUS
  <2> QED
    BY <1>1, <1>2, <2>1, EventsDrop
<1>4. Steers(t, A \ {k})
  BY <1>1, <1>2, SteersAcked
<1>5. Deadlines(t, A \ {k})
  BY <1>1, <1>2, DeadlinesAcked
<1> QED
  BY <1>1, <1>2, <1>3, <1>4, <1>5 DEF Good

\* The agent took the steer.
LEMMA TakenGood ==
  ASSUME NEW A, NEW n, A \subseteq AckType, NEW s, Good(s, A, n), NEW k \in A,
         NEW r, r = remove_event(extend_in_flight_deadline(s.q, k.channel_id),
                                 k.channel_id, k.event_id),
         NEW t, WithQueue(t, s, r, {k.event_id})
  PROVE  Good(t, A \ {k}, n)
<1> DEFINE c == k.channel_id
           id == k.event_id
           x == extend_in_flight_deadline(s.q, c)
           one == {id}
<1>1. s \in MainType /\ QueueOK(s.q) /\ Events(s, n) /\ Neat(s.q)
  BY DEF Good, Events
<1>2. /\ c \in Channel /\ id \in Nat
      /\ id \in Ids(s.q.withheld_native_steer[c]) =>
           \A d \in Channel \ {c} : id \notin Ids(s.q.withheld_native_steer[d])
      /\ id \notin Ids(s.q.withheld_native_steer[c]) => id \notin AllIds(s.q) /\ id \in s.settled
  BY AckedEvent
<1>3. QueueOK(x) /\ QueueOK(r) /\ r \in QueueType
  <2>1. QueueOK(x)
    BY <1>1, <1>2, ExtendOK
  <2>2. QueueOK(r)
    BY <1>2, <2>1, RemoveEventOK
  <2> QED
    BY <2>1, <2>2 DEF QueueOK
<1>4. /\ \A d \in Channel :
           /\ r.withheld_native_steer[d] = IF d = c THEN Without(s.q.withheld_native_steer[d], id)
                                           ELSE s.q.withheld_native_steer[d]
           /\ r.queues[d] = IF d = c THEN Without(s.q.queues[d], id) ELSE s.q.queues[d]
      /\ r.cancelled_batches = s.q.cancelled_batches
      /\ r.in_flight_channels = s.q.in_flight_channels
      /\ \A d \in Channel \ {c} : r.in_flight_deadlines[d] = s.q.in_flight_deadlines[d]
      /\ IF s.q.in_flight_deadlines[c] = None \/ s.q.in_flight_deadlines[c] > in_flight_deadline
         THEN r.in_flight_deadlines[c] = s.q.in_flight_deadlines[c]
         ELSE r.in_flight_deadlines[c] = in_flight_deadline
  BY <1>1, <1>2, TakenTables
<1>5. /\ t.q = r /\ t.settled = s.settled \cup one /\ SameSlots(t, s)
      /\ t.interrupted = s.interrupted
      /\ r \in QueueType /\ one \subseteq Nat => t \in MainType
  BY DEF WithQueue
<1>6. t \in MainType
  BY <1>2, <1>3, <1>5
<1>7. s.q.withheld_native_steer[c] \in Seq(Event) /\ Distinct(s.q.withheld_native_steer[c])
  BY <1>1, <1>2, TimerType DEF Neat, NeatAt
<1>8. \A d \in Channel : Ids(t.q.withheld_native_steer[d]) =
                           Ids(s.q.withheld_native_steer[d]) \ {id}
  <2>1. Ids(Without(s.q.withheld_native_steer[c], id)) = Ids(s.q.withheld_native_steer[c]) \ {id}
    BY <1>7, WithoutIds
  <2>2. \A d \in Channel \ {c} : id \notin Ids(s.q.withheld_native_steer[d])
    BY <1>2 DEF AllIds, ChannelIds
  <2> QED
    BY <1>4, <1>5, <2>1, <2>2
<1>9. /\ Extended(t, s)
      /\ \/ t.q.in_flight_deadlines[c] = None
         \/ /\ t.q.in_flight_deadlines[c] \in Nat
            /\ t.q.in_flight_deadlines[c] >= MaxTurn + DeadlineBuffer
  <2>1. s.q.in_flight_deadlines[c] \in Nat \cup {None}
    BY <1>1, <1>2, TimerType
  <2>2. in_flight_deadline = MaxTurn + DeadlineBuffer /\ in_flight_deadline \in Nat
    BY QueueConstants DEF in_flight_deadline
  <2> HIDE DEF c
  <2> QED
    BY <1>4, <1>5, <2>1, <2>2 DEF Extended
<1> HIDE DEF one, x
<1>10. CASE id \in Ids(s.q.withheld_native_steer[c])
  <2>1. \A d \in Channel : SameAt(x, s.q, d)
    BY <1>1, <1>2, TimersMoveNothing DEF x
  <2>2. Neat(x) /\ AllIds(x) = AllIds(s.q) /\ id \in Ids(x.withheld_native_steer[c])
    BY <1>1, <1>2, <1>10, <2>1, ChangeNone DEF SameAt
  <2>3. Neat(r) /\ AllIds(r) = AllIds(x) \ {id} /\ id \in AllIds(x)
    BY <1>2, <1>3, <2>2, RemoveMoves DEF x
  <2>4. one \subseteq AllIds(s.q) /\ AllIds(t.q) = AllIds(s.q) \ one /\ Neat(t.q)
    BY <1>5, <2>2, <2>3 DEF one
  <2> QED
    BY <1>3, <1>4, <1>5, <1>6, <1>8, <1>9, <2>4, AckedGood
<1>11. CASE id \notin Ids(s.q.withheld_native_steer[c])
  <2> DEFINE none == {}
  <2>1. id \notin Ids(s.q.queues[c])
    BY <1>2, <1>11 DEF AllIds, ChannelIds
  <2>2. \A d \in Channel : SameAt(t.q, s.q, d)
    BY <1>4, <1>5, <1>11, <2>1 DEF SameAt, Without
  <2>3. Neat(t.q) /\ AllIds(t.q) = AllIds(s.q)
    BY <1>1, <2>2, ChangeNone
  <2>4. t.settled = s.settled
    BY <1>2, <1>5, <1>11 DEF one
  <2>5. none \subseteq AllIds(s.q) /\ AllIds(t.q) = AllIds(s.q) \ none
        /\ t.settled = s.settled \cup none
    BY <2>3, <2>4
  <2> HIDE DEF none
  <2> QED
    BY <1>3, <1>4, <1>5, <1>6, <1>8, <1>9, <2>3, <2>5, AckedGood
<1> QED
  BY <1>10, <1>11

\* What release_native_steer leaves in the tables.
LEMMA ReleaseTables ==
  ASSUME NEW r, QueueOK(r), NEW c \in Channel, NEW id, NEW p,
         p = release_native_steer(r, c, id)
  PROVE  /\ \A d \in Channel :
              p.withheld_native_steer[d] = IF d = c THEN Without(r.withheld_native_steer[d], id)
                                           ELSE r.withheld_native_steer[d]
         /\ p.in_flight_channels = r.in_flight_channels
         /\ p.in_flight_deadlines = r.in_flight_deadlines
<1>1. CASE id \notin Ids(r.withheld_native_steer[c])
  BY <1>1 DEF release_native_steer, Without
<1>2. CASE id \in Ids(r.withheld_native_steer[c])
  <2> DEFINE w == r.withheld_native_steer[c]
             x == [r EXCEPT !.withheld_native_steer[c] = Without(@, id)]
  <2>1. p = push_front(x, c, <<w[Position(w, id)]>>)
    BY <1>2 DEF release_native_steer
  <2>2. /\ x.withheld_native_steer = [r.withheld_native_steer EXCEPT ![c] = Without(@, id)]
        /\ x.in_flight_channels = r.in_flight_channels
        /\ x.in_flight_deadlines = r.in_flight_deadlines
    BY DEF QueueOK, QueueType
  <2>3. QueueOK(x)
    <3>1. Without(w, id) \in Seq(Event)
      BY TimerType, WithoutShrinks
    <3> QED
      BY <3>1, WithheldOK
  <2> HIDE DEF x
  <2>4. /\ p.withheld_native_steer = x.withheld_native_steer
        /\ p.in_flight_channels = x.in_flight_channels
        /\ p.in_flight_deadlines = x.in_flight_deadlines
    BY <2>1, <2>3, FrontTables
  <2> QED
    BY <2>2, <2>4 DEF QueueOK, QueueType
<1> QED
  BY <1>1, <1>2

\* The agent did not take the steer: the event goes back to its queue.
LEMMA ReleasedGood ==
  ASSUME NEW A, NEW n, A \subseteq AckType, NEW s, Good(s, A, n), NEW k \in A,
         k.kind # "success",
         NEW r, r = release_native_steer(s.q, k.channel_id, k.event_id),
         NEW D, D = IF k.event_id \in Ids(s.q.withheld_native_steer[k.channel_id])
                    THEN FrontTrimmed(s.q, k.channel_id) ELSE {},
         NEW t, WithQueue(t, s, r, D)
  PROVE  Good(t, A \ {k}, n)
<1> DEFINE c == k.channel_id
           id == k.event_id
<1>1. s \in MainType /\ QueueOK(s.q) /\ Events(s, n) /\ Neat(s.q)
  BY DEF Good, Events
<1>2. /\ c \in Channel /\ id \in Nat
      /\ id \in Ids(s.q.withheld_native_steer[c]) =>
           \A d \in Channel \ {c} : id \notin Ids(s.q.withheld_native_steer[d])
      /\ id \notin Ids(s.q.withheld_native_steer[c]) => id \notin AllIds(s.q) /\ id \in s.settled
  BY AckedEvent
<1>3. /\ QueueOK(r) /\ r \in QueueType /\ Neat(r) /\ AllIds(r) = AllIds(s.q) \ D
      /\ D \subseteq AllIds(s.q) /\ r.cancelled_batches = s.q.cancelled_batches
  <2>1. CASE id \in Ids(s.q.withheld_native_steer[c])
    <3>1. QueueOK(r)
      BY <1>1, <1>2, <2>1, ReleaseNativeSteerOK
    <3>2. D = FrontTrimmed(s.q, c)
      BY <2>1
    <3> HIDE DEF c, id
    <3> QED
      BY <1>1, <1>2, <2>1, <3>1, <3>2, ReleaseMoves DEF QueueOK, c, id
  <2>2. CASE id \notin Ids(s.q.withheld_native_steer[c])
    <3>1. r = s.q /\ D = {}
      BY <2>2 DEF release_native_steer
    <3> QED
      BY <1>1, <3>1 DEF QueueOK
  <2> QED
    BY <2>1, <2>2
<1>4. D \subseteq Nat
  BY <1>1, <1>3 DEF Events
<1>5. /\ t.q = r /\ t.settled = s.settled \cup D /\ SameSlots(t, s)
      /\ t.interrupted = s.interrupted
      /\ r \in QueueType /\ D \subseteq Nat => t \in MainType
  BY DEF WithQueue
<1>6. t \in MainType
  BY <1>3, <1>4, <1>5
<1>7. /\ \A d \in Channel :
              r.withheld_native_steer[d] = IF d = c THEN Without(s.q.withheld_native_steer[d], id)
                                           ELSE s.q.withheld_native_steer[d]
      /\ r.in_flight_channels = s.q.in_flight_channels
      /\ r.in_flight_deadlines = s.q.in_flight_deadlines
  BY <1>1, <1>2, ReleaseTables
<1>8. \A d \in Channel : Ids(t.q.withheld_native_steer[d]) =
                           Ids(s.q.withheld_native_steer[d]) \ {id}
  <2>1. s.q.withheld_native_steer[c] \in Seq(Event) /\ Distinct(s.q.withheld_native_steer[c])
    BY <1>1, <1>2, TimerType DEF Neat, NeatAt
  <2>2. Ids(Without(s.q.withheld_native_steer[c], id)) = Ids(s.q.withheld_native_steer[c]) \ {id}
    BY <2>1, WithoutIds
  <2>3. \A d \in Channel \ {c} : id \notin Ids(s.q.withheld_native_steer[d])
    BY <1>2 DEF AllIds, ChannelIds
  <2> QED
    BY <1>5, <1>7, <2>2, <2>3
<1>9. Extended(t, s)
  BY <1>5, <1>7 DEF Extended
<1> QED
  BY <1>3, <1>5, <1>6, <1>7, <1>8, <1>9, AckedGood

-----------------------------------------------------------------------------
(* The heartbeat *)

\* A new heartbeat task is as a heartbeat should be.
LEMMA HeartbeatTaskOK ==
  /\ HeartbeatTask \in TaskType /\ TaskOK(HeartbeatTask) /\ HeartbeatTask # None
  /\ HeartbeatTask.channel_id = None /\ HeartbeatTask.batch = None
  /\ HeartbeatTask.steerable = FALSE /\ HeartbeatTask.steer_tx = None
  /\ SteerIds(HeartbeatTask) = {}
<1> DEFINE h == HeartbeatTask
<1>1. /\ h.channel_id = None /\ h.batch = None /\ h.control = "none" /\ h.steerable = FALSE
      /\ h.steer_tx = None /\ h.pending_steer = None /\ h.phase = "prompt" /\ h.result = None
  BY DEF HeartbeatTask
<1>2. h \in TaskType
  <2>1. MaxTurn \in 0..MaxTurn
    BY QueueConstants
  <2> QED
    BY <2>1 DEF HeartbeatTask, TaskType, BatchOrNone
<1>3. h # None
  BY <1>2, NoneIsAbsent
<1> HIDE DEF h
<1>4. TaskOK(h) /\ SteerIds(h) = {}
  BY <1>1 DEF TaskOK, SteerIds
<1> QED
  BY <1>1, <1>2, <1>3, <1>4 DEF h

\* Slot a, which was idle, has a heartbeat task h.
Beats(t, s, a, h) ==
  /\ t.q = s.q /\ t.idle = s.idle \ {a} /\ t.respawn = s.respawn /\ t.circuit = s.circuit
  /\ t.hb = TRUE /\ t.settled = s.settled /\ t.interrupted = s.interrupted
  /\ Busy(t.task) = Busy(s.task) \cup {a} /\ t.task[a] = h
  /\ \A b \in Busy(s.task) : t.task[b] = s.task[b] /\ b # a

\* Such a record is good if no heartbeat was in flight.
LEMMA BeatsGood ==
  ASSUME NEW s, NEW A, NEW n, Good(s, A, n), NEW a \in s.idle, ~s.hb, NEW t \in MainType,
         NEW h, h = HeartbeatTask, Beats(t, s, a, h)
  PROVE  Good(t, A, n)
<1>1. /\ Slots(s) /\ Steers(s, A) /\ Deadlines(s, A) /\ QueueOK(s.q) /\ Events(s, n)
      /\ \A b \in Busy(s.task) : TaskOK(s.task[b])
  BY DEF Good
<1>2. /\ TaskOK(h) /\ h.channel_id = None /\ h.batch = None
      /\ h.steerable = FALSE /\ h.steer_tx = None /\ SteerIds(h) = {}
  BY HeartbeatTaskOK
<1>3. /\ t.q = s.q /\ t.idle = s.idle \ {a} /\ t.respawn = s.respawn /\ t.circuit = s.circuit
      /\ t.hb = TRUE /\ t.settled = s.settled /\ t.interrupted = s.interrupted
      /\ Busy(t.task) = Busy(s.task) \cup {a} /\ t.task[a] = h
      /\ \A b \in Busy(s.task) : t.task[b] = s.task[b] /\ b # a
  BY DEF Beats
<1>4. Slots(t)
  <2>1. \A b \in Busy(s.task) : t.task[b].channel_id # None
    BY <1>1, <1>3 DEF Slots
  <2>2. \A b, c \in Busy(t.task) :
          t.task[b].channel_id = None /\ t.task[c].channel_id = None => b = c
    BY <1>3, <2>1
  <2>3. t.hb <=> \E b \in Busy(t.task) : t.task[b].channel_id = None
    BY <1>2, <1>3
  <2>4. /\ t.idle \cap Busy(t.task) = {}
        /\ \A b \in Agent : t.respawn[b] # "no" => b \notin t.idle \cup Busy(t.task)
        /\ \A b \in Agent : t.circuit[b].open # "closed" =>
             b \notin t.idle \cup Busy(t.task) /\ t.respawn[b] = "no"
    BY <1>1, <1>3 DEF Slots
  <2> QED
    BY <2>2, <2>3, <2>4 DEF Slots
<1>5. Events(t, n)
  <2>1. \A b \in Busy(s.task) : BatchIdsOf(t, b) = BatchIdsOf(s, b)
    BY <1>3 DEF BatchIdsOf
  <2>2. BatchIdsOf(t, a) = {}
    BY <1>2, <1>3 DEF BatchIdsOf, BatchIds
  <2>3. InTurns(t) = InTurns(s)
    BY <1>3, <2>1, <2>2 DEF InTurns
  <2>4. \A b, c \in Busy(t.task) : b # c => BatchIdsOf(t, b) \cap BatchIdsOf(t, c) = {}
    BY <1>1, <1>3, <2>1, <2>2 DEF Events
  <2>5. \A b \in Busy(t.task) : t.task[b].batch # None =>
          /\ Distinct(t.task[b].batch.cancelled_events \o t.task[b].batch.events)
          /\ Ids(t.task[b].batch.cancelled_events) \subseteq t.interrupted
    BY <1>1, <1>2, <1>3 DEF Events
  <2> QED
    BY <1>1, <1>3, <2>3, <2>4, <2>5 DEF Events
<1>6. Steers(t, A)
  <2>1. \A c \in Channel : \A i \in Ids(t.q.withheld_native_steer[c]) :
         \/ \E b \in Busy(t.task) : i \in SteerIds(t.task[b])
         \/ \E k \in A : i = k.event_id
    <3> SUFFICES ASSUME NEW c \in Channel, NEW i \in Ids(s.q.withheld_native_steer[c]),
                        ~\E k \in A : i = k.event_id
                 PROVE  \E b \in Busy(t.task) : i \in SteerIds(t.task[b])
      BY <1>3
    <3>1. PICK b \in Busy(s.task) : i \in SteerIds(s.task[b])
      BY <1>1 DEF Steers
    <3> QED
      BY <1>3, <3>1
  <2>2. \A b \in Busy(t.task) : \A i \in SteerIds(t.task[b]) :
          i \in Ids(t.q.withheld_native_steer[t.task[b].channel_id]) \cup t.settled
    BY <1>1, <1>2, <1>3 DEF Steers
  <2>3. /\ \A b \in Busy(t.task) :
             t.task[b].steer_tx # None => t.task[b].steer_tx # t.task[b].pending_steer
        /\ \A b, c \in Busy(t.task) : b # c => SteerIds(t.task[b]) \cap SteerIds(t.task[c]) = {}
        /\ \A b \in Busy(t.task), k \in A : k.event_id \notin SteerIds(t.task[b])
    BY <1>1, <1>2, <1>3 DEF Steers
  <2>4. /\ \A k1, k2 \in A : k1.event_id = k2.event_id => k1 = k2
        /\ \A k \in A : k.event_id \in Ids(t.q.withheld_native_steer[k.channel_id])
                                         \cup t.settled
    BY <1>1, <1>3 DEF Steers
  <2> QED
    BY <2>1, <2>2, <2>3, <2>4 DEF Steers
<1>7. Deadlines(t, A)
  <2>1. \A b \in Busy(s.task) : Covered(s, A, s.task[b]) => Covered(t, A, t.task[b])
    BY <1>3 DEF Covered
  <2>2. /\ \A k \in A : t.q.in_flight_deadlines[k.channel_id] # 0
        /\ \A b \in Busy(t.task) : t.task[b].steerable =>
             \/ t.q.in_flight_deadlines[t.task[b].channel_id] = None
             \/ Covered(t, A, t.task[b])
    BY <1>1, <1>2, <1>3, <2>1 DEF Deadlines
  <2>3. ASSUME ~InitialMessage
        PROVE  /\ \A b \in Busy(t.task) :
                    t.task[b].channel_id # None => Covered(t, A, t.task[b])
               /\ \A b, c \in Busy(t.task) :
                    t.task[b].channel_id # None /\ t.task[b].channel_id = t.task[c].channel_id
                      => b = c
               /\ \A c \in t.q.in_flight_channels :
                    \E b \in Busy(t.task) : t.task[b].channel_id = c
    BY <1>1, <1>2, <1>3, <2>1, <2>3 DEF Deadlines
  <2> QED
    BY <2>2, <2>3 DEF Deadlines
<1>8. \A b \in Busy(t.task) : TaskOK(t.task[b])
  BY <1>1, <1>2, <1>3
<1>9. QueueOK(t.q)
  BY <1>1, <1>3
<1> QED
  BY <1>4, <1>5, <1>6, <1>7, <1>8, <1>9 DEF Good

\* A heartbeat that is started on an idle agent keeps the record good.
LEMMA HeartbeatGood ==
  ASSUME NEW s, NEW A, NEW n, Good(s, A, n), NEW a \in s.idle, ~s.hb,
         NEW t, t = [s EXCEPT !.idle = @ \ {a}, !.task[a] = HeartbeatTask, !.hb = TRUE]
  PROVE  Good(t, A, n)
<1> DEFINE h == HeartbeatTask
           id == s.idle \ {a}
           tk == [s.task EXCEPT ![a] = h]
<1>1. s \in MainType /\ Slots(s) /\ a \in Agent /\ s.task \in [Agent -> TaskType \cup {None}]
  BY DEF Good, MainType
<1>2. h \in TaskType /\ h # None
  BY HeartbeatTaskOK
<1> HIDE DEF h
<1>3. id \in SUBSET Agent /\ tk \in [Agent -> TaskType \cup {None}]
  BY <1>1, <1>2 DEF MainType
<1>4. t = [s EXCEPT !.idle = id, !.task = tk, !.hb = TRUE]
  BY <1>1 DEF MainType, h
<1>5. a \notin Busy(s.task)
  BY <1>1 DEF Slots
<1>6. /\ Busy(tk) = Busy(s.task) \cup {a} /\ tk[a] = h
      /\ \A b \in Busy(s.task) : tk[b] = s.task[b] /\ b # a
  BY <1>1, <1>2, <1>5 DEF Busy
<1> HIDE DEF id, tk
<1>7. /\ t \in MainType /\ t.q = s.q /\ t.idle = id /\ t.respawn = s.respawn
      /\ t.circuit = s.circuit /\ t.hb = TRUE /\ t.settled = s.settled
      /\ t.interrupted = s.interrupted /\ t.task = tk
  BY <1>1, <1>3, <1>4 DEF MainType
<1>8. Beats(t, s, a, h)
  BY <1>6, <1>7 DEF Beats, id
<1> QED
  BY <1>7, <1>8, BeatsGood DEF h

-----------------------------------------------------------------------------
(* The actions of the main loop *)

\* An event from the relay: push, then a steer or a signal, then dispatch.
LEMMA RelayEventInv ==
  ASSUME IInv, NEW c \in Channel, NEW x \in CreatedAt, NEW o \in BOOLEAN, RelayEvent(c, x, o)
  PROVE  IInv'
<1> DEFINE e == [id |-> arrived + 1, channel_id |-> c, created_at |-> x]
           s1 == [Settle(Main, Dropped(q, e)) EXCEPT !.q = push(q, e)]
           signal == IF Accepts(q, e) /\ c \in q.in_flight_channels
                     THEN mode_gate_signal(o) ELSE None
           S == CASE signal = None        -> {s1}
                  [] signal = "Steer"     -> SteerOrSignal(s1, e)
                  [] signal = "Interrupt" -> signal_in_flight_task(s1, c, signal)
           A == acks
           n == arrived + 1
<1>1. /\ Main \in Fine(acks, arrived) /\ Main \in MainType /\ Good(Main, acks, arrived)
      /\ acks \subseteq AckType /\ arrived \in Nat /\ Main.q = q
  BY MainFine, FineIsGood
<1>2. e \in Event /\ e.id = n /\ e.channel_id = c /\ n \in Nat
  BY <1>1, HarnessConstants DEF Event
<1>3. /\ arrived' = n /\ acks' = acks /\ Iterate(Then(S, dispatch_pending))
  BY DEF RelayEvent
<1> HIDE DEF e
<1>4. WithQueue(s1, Main, push(q, e), Dropped(q, e))
  <2> HIDE DEF s1
  <2> QED
    BY <1>1, QueueFields DEF s1
<1> HIDE DEF s1
<1>5. Good(s1, A, n)
  BY <1>1, <1>2, <1>4, PushGood
<1>6. s1 \in Fine(A, n) /\ s1.q = push(q, e)
  BY <1>4, <1>5, FineIsGood DEF WithQueue
<1>7. Accepts(q, e) => e.id \in Ids(s1.q.queues[e.channel_id])
  <2>1. QueueOK(q)
    BY <1>1 DEF Good
  <2> QED
    BY <1>2, <1>6, <2>1, PushTables
<1>8. signal = None \/ (signal \in {"Steer", "Interrupt"} /\ Accepts(q, e))
  BY HarnessConstants DEF mode_gate_signal
<1> HIDE DEF signal
<1>9. S \subseteq Fine(A, n)
  <2>1. CASE signal = None
    <3>1. signal # "Steer" /\ signal # "Interrupt"
      BY <2>1, NoneIsAbsent DEF Signal
    <3>2. S = {s1}
      BY <2>1, <3>1
    <3> QED
      BY <1>6, <3>2
  <2>2. CASE signal # None /\ signal = "Steer" /\ Accepts(q, e)
    <3>1. S = SteerOrSignal(s1, e)
      BY <2>2
    <3>2. SteerOrSignal(s1, e) \subseteq Fine(A, n)
      BY <1>1, <1>2, <1>6, <1>7, <2>2, SteerOrSignalGood
    <3> QED
      BY <3>1, <3>2
  <2>3. CASE signal # None /\ signal = "Interrupt"
    <3>1. S = signal_in_flight_task(s1, c, signal)
      BY <2>3
    <3>2. signal \in Signal
      BY <2>3 DEF Signal
    <3> QED
      BY <1>6, <3>1, <3>2, SignalGood
  <2> QED
    BY <1>8, <2>1, <2>2, <2>3
<1> HIDE DEF S
<1>10. Then(S, dispatch_pending) \subseteq Fine(A, n)
  BY <1>1, <1>2, <1>9, ThenDispatchGood
<1> QED
  BY <1>1, <1>2, <1>3, <1>10, IterateGood

\* The agent was removed from a channel.
LEMMA MemberRemovedInv ==
  ASSUME IInv, NEW c \in Channel, MemberRemoved(c)
  PROVE  IInv'
<1> DEFINE t == [Main EXCEPT !.q = drain_channel(@, c),
                             !.removed = @ \cup {c},
                             !.settled = @ \cup Ids(q.queues[c])
                                           \cup Ids(q.cancelled_batches[c])
                                           \cup Ids(q.withheld_native_steer[c])]
<1>1. /\ Good(Main, acks, arrived) /\ acks \subseteq AckType /\ arrived \in Nat /\ Main.q = q
  BY MainFine, FineIsGood
<1>2. acks' = acks /\ arrived' = arrived /\ Iterate({t})
  BY DEF MemberRemoved
<1>3. Good(t, acks, arrived)
  <2>1. t = [Main EXCEPT !.q = drain_channel(@, c), !.removed = @ \cup {c},
                         !.settled = @ \cup Ids(Main.q.queues[c])
                                       \cup Ids(Main.q.cancelled_batches[c])
                                       \cup Ids(Main.q.withheld_native_steer[c])]
    BY <1>1
  <2> HIDE DEF t
  <2> QED
    BY <1>1, <2>1, RemovedGood
<1> HIDE DEF t
<1>4. {t} \subseteq Fine(acks', arrived')
  BY <1>2, <1>3, FineIsGood
<1> QED
  BY <1>1, <1>2, <1>4, IterateGood

\* The agent was added to a channel.
LEMMA MemberAddedInv ==
  ASSUME IInv, NEW c \in Channel, MemberAdded(c)
  PROVE  IInv'
<1> DEFINE t == [Main EXCEPT !.removed = @ \ {c}]
<1>1. /\ Good(Main, acks, arrived) /\ acks \subseteq AckType /\ arrived \in Nat
      /\ Main \in MainType
  BY MainFine, FineIsGood
<1>2. acks' = acks /\ arrived' = arrived /\ Iterate({t})
  BY DEF MemberAdded
<1>3. /\ t \in MainType /\ t.q = Main.q /\ t.task = Main.task /\ t.idle = Main.idle
      /\ t.respawn = Main.respawn /\ t.circuit = Main.circuit /\ t.hb = Main.hb
      /\ t.settled = Main.settled /\ t.interrupted = Main.interrupted
  <2> HIDE DEF t
  <2> QED
    BY <1>1 DEF t, MainType
<1> HIDE DEF t
<1>4. Slots(t)
  BY <1>1, <1>3 DEF Good, Slots
<1>5. Good(t, acks, arrived)
  BY <1>1, <1>3, <1>4, SlotsChange
<1>6. {t} \subseteq Fine(acks', arrived')
  BY <1>2, <1>5, FineIsGood
<1> QED
  BY <1>1, <1>2, <1>6, IterateGood

\* A command of the owner.
LEMMA OwnerControlInv ==
  ASSUME IInv, NEW c \in Channel, NEW sig \in {"Cancel", "Rotate", "SwitchModel"},
         OwnerControl(c, sig)
  PROVE  IInv'
<1>1. /\ Main \in Fine(acks, arrived) /\ acks \subseteq AckType /\ arrived \in Nat
  BY MainFine
<1>2. /\ acks' = acks /\ arrived' = arrived
      /\ Iterate(signal_in_flight_task(Main, c, sig))
  BY DEF OwnerControl
<1>3. signal_in_flight_task(Main, c, sig) \subseteq Fine(acks', arrived')
  BY <1>1, <1>2, SignalGood DEF Signal
<1> QED
  BY <1>1, <1>2, <1>3, IterateGood

\* A prompt task has returned.
LEMMA ResultInv ==
  ASSUME IInv, NEW a \in Agent, Result(a)
  PROVE  IInv'
<1> DEFINE S == handle_prompt_result(Main, a)
           T == Then(S, drain_ready_join_results)
           U == Then(T, dispatch_pending)
<1>1. /\ Main \in Fine(acks, arrived) /\ acks \subseteq AckType /\ arrived \in Nat
      /\ Main.task = task
  BY MainFine
<1>2. /\ acks' = acks /\ arrived' = arrived /\ Iterate(U)
      /\ task[a] # None /\ task[a].result # None
  BY DEF Result
<1>3. a \in Busy(Main.task)
  BY <1>1, <1>2 DEF Busy
<1>4. S \subseteq Fine(acks, arrived)
  BY <1>1, <1>2, <1>3, ResultGood
<1> HIDE DEF S
<1>5. T \subseteq Fine(acks, arrived)
  BY <1>1, <1>4, ThenDrainGood
<1> HIDE DEF T
<1>6. U \subseteq Fine(acks', arrived')
  BY <1>1, <1>2, <1>5, ThenDispatchGood
<1> HIDE DEF U
<1> QED
  BY <1>1, <1>2, <1>6, IterateGood

\* A prompt task has panicked.
LEMMA PanicInv ==
  ASSUME IInv, NEW a \in Agent, Panic(a)
  PROVE  IInv'
<1> DEFINE S == {ExitIfDead(x) : x \in recover_panicked_agent(Main, a)}
           U == Then(S, dispatch_pending)
<1>1. /\ Main \in Fine(acks, arrived) /\ acks \subseteq AckType /\ arrived \in Nat
  BY MainFine
<1>2. acks' = acks /\ arrived' = arrived /\ Iterate(U) /\ a \in Panicked(Main)
  BY DEF Panic
<1>3. \A x \in recover_panicked_agent(Main, a) : ExitIfDead(x) \in Fine(acks, arrived)
  BY <1>1, <1>2, RecoverGood, ExitGood, FineIsGood
<1>4. S \subseteq Fine(acks, arrived)
  BY <1>3
<1> HIDE DEF S
<1>5. U \subseteq Fine(acks', arrived')
  BY <1>1, <1>2, <1>4, ThenDispatchGood
<1> HIDE DEF U
<1> QED
  BY <1>1, <1>2, <1>5, IterateGood

\* The answer to a steer has reached the main loop.
LEMMA SteerAckInv ==
  ASSUME IInv, NEW k \in acks, SteerAck(k)
  PROVE  IInv'
<1> DEFINE c == k.channel_id
           id == k.event_id
           D == IF id \in Ids(q.withheld_native_steer[c]) THEN FrontTrimmed(q, c) ELSE {}
           taken == Settle([Main EXCEPT !.q = remove_event(extend_in_flight_deadline(@, c),
                                                           c, id)], {id})
           back == [Settle(Main, D) EXCEPT !.q = release_native_steer(@, c, id)]
           s1 == IF k.kind = "success" THEN taken ELSE back
           S == IF k.kind = "rejected" THEN signal_in_flight_task(s1, c, "Steer") ELSE {s1}
           U == Then(S, dispatch_pending)
           B == acks \ {k}
<1>1. /\ Good(Main, acks, arrived) /\ acks \subseteq AckType /\ arrived \in Nat
      /\ Main.q = q /\ Main \in MainType
  BY MainFine, FineIsGood
<1>2. acks' = B /\ arrived' = arrived /\ Iterate(U)
  BY DEF SteerAck
<1>3. c \in Channel /\ B \subseteq AckType
  BY <1>1 DEF AckType
<1>4. Good(s1, B, arrived)
  <2>1. CASE k.kind = "success"
    <3> DEFINE r == remove_event(extend_in_flight_deadline(q, c), c, id)
               one == {id}
    <3>1. taken = Settle([Main EXCEPT !.q = r], one)
      BY <1>1
    <3> HIDE DEF taken, r, one
    <3>2. WithQueue(taken, Main, r, one)
      BY <1>1, <3>1, QueueFields
    <3>3. Good(taken, acks \ {k}, arrived)
      BY <1>1, <3>2, TakenGood DEF r, one
    <3> QED
      BY <2>1, <3>3
  <2>2. CASE k.kind # "success"
    <3> DEFINE r == release_native_steer(q, c, id)
    <3>1. back = [Settle(Main, D) EXCEPT !.q = r]
      BY <1>1 DEF Settle, Main
    <3> HIDE DEF back, r, D
    <3>2. WithQueue(back, Main, r, D)
      BY <1>1, <3>1, QueueFields
    <3>3. Good(back, acks \ {k}, arrived)
      BY <1>1, <2>2, <3>2, ReleasedGood DEF r, D
    <3> QED
      BY <2>2, <3>3
  <2> QED
    BY <2>1, <2>2
<1> HIDE DEF s1, B
<1>5. S \subseteq Fine(B, arrived)
  <2>1. s1 \in Fine(B, arrived) /\ "Steer" \in Signal
    BY <1>4, FineIsGood DEF Signal
  <2> QED
    BY <1>3, <2>1, SignalGood
<1> HIDE DEF S
<1>6. U \subseteq Fine(acks', arrived')
  BY <1>1, <1>2, <1>3, <1>5, ThenDispatchGood
<1> HIDE DEF U
<1> QED
  BY <1>1, <1>2, <1>3, <1>6, IterateGood

\* The heartbeat timer.
LEMMA HeartbeatTickInv ==
  ASSUME IInv, HeartbeatTick
  PROVE  IInv'
<1> DEFINE s1 == Expire(Main)
           beats == {[s1 EXCEPT !.idle = @ \ {a}, !.task[a] = HeartbeatTask, !.hb = TRUE]
                       : a \in s1.idle}
           S == IF has_flushable_work(s1.q) THEN dispatch_pending(s1)
                ELSE IF s1.idle # {} /\ ~s1.hb THEN beats ELSE {s1}
<1>1. /\ Good(Main, acks, arrived) /\ acks \subseteq AckType /\ arrived \in Nat
  BY MainFine, FineIsGood
<1>2. acks' = acks /\ arrived' = arrived /\ Iterate(S)
  BY DEF HeartbeatTick
<1>3. Good(s1, acks, arrived) /\ s1 \in Fine(acks, arrived)
  BY <1>1, ExpireGood, FineIsGood
<1> HIDE DEF s1
<1>4. dispatch_pending(s1) \subseteq Fine(acks, arrived)
  BY <1>1, <1>3, DispatchGood
<1>5. ~s1.hb => beats \subseteq Fine(acks, arrived)
  <2> SUFFICES ASSUME ~s1.hb, NEW a \in s1.idle
               PROVE  [s1 EXCEPT !.idle = @ \ {a}, !.task[a] = HeartbeatTask, !.hb = TRUE]
                        \in Fine(acks, arrived)
    OBVIOUS
  <2> DEFINE t == [s1 EXCEPT !.idle = @ \ {a}, !.task[a] = HeartbeatTask, !.hb = TRUE]
  <2> HIDE DEF t
  <2>1. Good(t, acks, arrived)
    BY <1>3, HeartbeatGood DEF t
  <2>2. t \in Fine(acks, arrived)
    BY <2>1, FineIsGood
  <2> QED
    BY <2>2 DEF t
<1> HIDE DEF beats
<1>6. S \subseteq Fine(acks', arrived')
  BY <1>2, <1>3, <1>4, <1>5
<1> HIDE DEF S
<1> QED
  BY <1>1, <1>2, <1>6, IterateGood

\* Another timer.
LEMMA LoopTimerInv ==
  ASSUME IInv, LoopTimer
  PROVE  IInv'
<1>1. /\ Main \in Fine(acks, arrived) /\ acks \subseteq AckType /\ arrived \in Nat
  BY MainFine
<1>2. acks' = acks /\ arrived' = arrived /\ Iterate({Main})
  BY DEF LoopTimer
<1>3. {Main} \subseteq Fine(acks', arrived')
  BY <1>1, <1>2
<1> QED
  BY <1>1, <1>2, <1>3, IterateGood

-----------------------------------------------------------------------------
(* The actions of the prompt tasks *)

\* What is known of a task that runs.
Runs(u, A) ==
  /\ u \in TaskType /\ TaskOK(u) /\ u.result = None
  /\ u.steer_tx # None => u.steer_tx # u.pending_steer
  /\ SteerIds(u) # {} => u.channel_id \in Channel /\ u.steerable
  /\ SteerIds(u) \subseteq Nat
  /\ \A k \in A : k.event_id \notin SteerIds(u)

\* The invariant says it of every task that runs.
LEMMA RunningTask ==
  ASSUME IInv, NEW a \in Agent, Running(a)
  PROVE  Runs(task[a], acks) /\ a \in Busy(Main.task)
<1> DEFINE u == task[a]
<1>1. /\ Good(Main, acks, arrived) /\ Main \in MainType /\ Main.task = task
      /\ task \in [Agent -> TaskType \cup {None}] /\ Steers(Main, acks)
  BY MainFine, FineIsGood DEF MainType, Good
<1>2. u # None /\ u.result = None /\ a \in Busy(task)
  BY DEF Running, Busy
<1>3. u \in TaskType /\ TaskOK(u)
  BY <1>1, <1>2 DEF Good
<1>4. SteerIds(u) # {} => u.channel_id \in Channel /\ u.steerable
  BY <1>1, <1>2, <1>3, SteeredChannel
<1>5. SteerIds(u) \subseteq Nat
  BY <1>3 DEF SteerIds, TaskType
<1>6. /\ u.steer_tx # None => u.steer_tx # u.pending_steer
      /\ \A k \in acks : k.event_id \notin SteerIds(u)
  BY <1>1, <1>2 DEF Steers
<1> QED
  BY <1>1, <1>2, <1>3, <1>4, <1>5, <1>6 DEF Runs

\* A step of a task: the acks N answer those of its steers that it has no more.
LEMMA TaskStepInv ==
  ASSUME IInv, NEW a \in Agent, Running(a), NEW w \in TaskType, TaskOK(w), NEW N,
         acks' = acks \cup N, SetTask(a, w),
         w.channel_id = task[a].channel_id, w.batch = task[a].batch,
         w.steerable => task[a].steerable,
         w.steer_tx # None => w.steer_tx # w.pending_steer,
         SteerIds(w) \subseteq SteerIds(task[a]),
         N \subseteq AckType,
         \A k \in N : /\ k.channel_id = task[a].channel_id
                      /\ k.event_id \in SteerIds(task[a]) \ SteerIds(w),
         \A k1, k2 \in N : k1.event_id = k2.event_id => k1 = k2,
         \A i \in SteerIds(task[a]) \ SteerIds(w) : \E k \in N : k.event_id = i,
         \/ w.left <= task[a].left
         \/ \E k \in N : k.kind = "success"
         \/ InitialMessage /\ ~w.steerable
  PROVE  IInv'
<1> DEFINE u == task[a]
           t == [Main EXCEPT !.task[a] = w]
<1>1. /\ Good(Main, acks, arrived) /\ Main \in MainType /\ Main.task = task
      /\ acks \subseteq AckType /\ arrived \in Nat
  BY MainFine, FineIsGood
<1>2. Runs(u, acks) /\ a \in Busy(Main.task)
  BY RunningTask
<1>3. acks' \ acks = N
  BY <1>2 DEF Runs
<1>4. GoesOn(u, w, acks, acks')
  <2>1. \/ w.left <= u.left
        \/ \E k \in acks' : k.channel_id = u.channel_id /\ k.kind = "success"
        \/ InitialMessage /\ ~w.steerable
    OBVIOUS
  <2> QED
    BY <1>3, <2>1 DEF GoesOn
<1>5. Good(t, acks', arrived)
  <2> HIDE DEF t
  <2> QED
    BY <1>1, <1>2, <1>4, ReplacedGood DEF t
<1>6. Main' = t /\ arrived' = arrived
  BY DEF SetTask, Main
<1>7. acks' \subseteq AckType
  BY <1>1
<1> HIDE DEF t
<1> QED
  BY <1>1, <1>5, <1>6, <1>7 DEF IInv

\* The read loop of task u ends, and its unanswered steers are answered.
Ends(u, w) ==
  /\ w.channel_id = u.channel_id /\ w.batch = u.batch
  /\ ~w.steerable /\ w.steer_tx = None /\ w.pending_steer = None
  /\ w.left <= u.left \/ InitialMessage

\* The end of a read loop, whatever ends it.
LEMMA ReadLoopEnds ==
  ASSUME IInv, NEW a \in Agent, Running(a), NEW w \in TaskType, TaskOK(w),
         acks' = acks \cup Unanswered(task[a]), SetTask(a, w), Ends(task[a], w)
  PROVE  IInv'
<1> DEFINE u == task[a]
           N == Unanswered(u)
<1>1. Runs(u, acks)
  BY RunningTask
<1>2. SteerIds(w) = {}
  BY DEF Ends, SteerIds
<1>3. N = {[channel_id |-> u.channel_id, event_id |-> i, kind |-> "unknown"] : i \in SteerIds(u)}
  BY DEF Unanswered, SteerIds
<1>4. N \subseteq AckType
  BY <1>1, <1>3 DEF Runs, AckType
<1>5. \A k \in N : /\ k.channel_id = u.channel_id
                   /\ k.event_id \in SteerIds(u) \ SteerIds(w)
  BY <1>2, <1>3
<1>6. \A k1, k2 \in N : k1.event_id = k2.event_id => k1 = k2
  BY <1>3
<1>7. \A i \in SteerIds(u) \ SteerIds(w) : \E k \in N : k.event_id = i
  <2> TAKE i \in SteerIds(u) \ SteerIds(w)
  <2> DEFINE k == [channel_id |-> u.channel_id, event_id |-> i, kind |-> "unknown"]
  <2>1. k \in N /\ k.event_id = i
    BY <1>3
  <2> QED
    BY <2>1
<1> HIDE DEF N
<1> QED
  BY <1>2, <1>4, <1>5, <1>6, <1>7, TaskStepInv DEF Ends, N

\* The initial message is answered.
LEMMA InitialMessageDoneInv ==
  ASSUME IInv, NEW a \in Agent, InitialMessageDone(a)
  PROVE  IInv'
<1> DEFINE u == task[a]
           w == [u EXCEPT !.phase = "prompt", !.left = MaxTurn, !.steerable = FALSE,
                          !.steer_tx = None, !.pending_steer = None]
<1>1. Running(a) /\ u.phase = "init" /\ acks' = acks \cup Unanswered(u) /\ SetTask(a, w)
  BY DEF InitialMessageDone
<1>2. u \in TaskType /\ TaskOK(u) /\ u.result = None
  BY <1>1, RunningTask DEF Runs
<1>3. InitialMessage
  BY <1>1, <1>2 DEF TaskOK
<1>4. MaxTurn \in 0..MaxTurn
  BY QueueConstants
<1>5. w \in TaskType
  BY <1>2, <1>4, ZenonT(60) DEF TaskType
<1>6. /\ w.channel_id = u.channel_id /\ w.batch = u.batch /\ w.control = u.control
      /\ w.steerable = FALSE /\ w.steer_tx = None /\ w.pending_steer = None
      /\ w.phase = "prompt" /\ w.result = u.result
  BY <1>2 DEF TaskType
<1> HIDE DEF w
<1>7. TaskOK(w)
  BY <1>2, <1>3, <1>6 DEF TaskOK
<1>8. Ends(u, w)
  BY <1>3, <1>6 DEF Ends
<1> QED
  BY <1>1, <1>5, <1>7, <1>8, ReadLoopEnds

\* A task returns a batch that is its own, or none.
LEMMA ReturnInv ==
  ASSUME IInv, NEW a \in Agent, Running(a), NEW outcome \in Outcome, NEW batch \in BatchOrNone,
         batch # None => /\ ~DropMode /\ task[a].batch # None
                         /\ batch.channel_id = task[a].batch.channel_id
                         /\ batch.events = task[a].batch.events
                         /\ batch.cancelled_events = task[a].batch.cancelled_events,
         Return(a, outcome, batch)
  PROVE  IInv'
<1> DEFINE u == task[a]
           res == [outcome |-> outcome, batch |-> batch]
           w == [u EXCEPT !.result = res, !.steerable = FALSE,
                          !.steer_tx = None, !.pending_steer = None]
<1>1. acks' = acks \cup Unanswered(u) /\ SetTask(a, w)
  BY DEF Return
<1>2. u \in TaskType /\ TaskOK(u) /\ u.result = None
  BY RunningTask DEF Runs
<1>3. res \in [outcome : Outcome, batch : BatchOrNone] /\ res.batch = batch
  OBVIOUS
<1> HIDE DEF res
<1>4. w \in TaskType
  BY <1>2, <1>3 DEF TaskType
<1>5. /\ w.channel_id = u.channel_id /\ w.batch = u.batch /\ w.control = u.control
      /\ w.steerable = FALSE /\ w.steer_tx = None /\ w.pending_steer = None
      /\ w.phase = u.phase /\ w.result = res /\ w.left = u.left
  BY <1>2 DEF TaskType
<1> HIDE DEF w
<1>6. TaskOK(w)
  BY <1>2, <1>3, <1>5 DEF TaskOK
<1>7. u.left \in Nat
  BY <1>2, QueueConstants DEF TaskType
<1>8. Ends(u, w)
  BY <1>5, <1>7 DEF Ends
<1> QED
  BY <1>1, <1>4, <1>6, <1>8, ReadLoopEnds

\* A prompt task ends, in any of its outcomes.
LEMMA TaskEndsInv ==
  ASSUME IInv, NEW a \in Agent, TaskEnds(a)
  PROVE  IInv'
<1> DEFINE u == task[a]
<1>1. Running(a)
  BY DEF TaskEnds, TurnSucceeds, TurnFails, TurnCancelled, TaskPanics
<1>2. u \in TaskType /\ TaskOK(u)
  BY <1>1, RunningTask DEF Runs
<1>3. None \in BatchOrNone /\ u.batch \in BatchOrNone
  BY <1>2 DEF BatchOrNone, TaskType
<1>4. CASE TurnSucceeds(a)
  <2>1. Return(a, "ok", None) /\ "ok" \in Outcome
    BY <1>4 DEF TurnSucceeds, Outcome
  <2> QED
    BY <1>1, <1>3, <2>1, ReturnInv
<1>5. CASE TaskPanics(a)
  <2>1. Return(a, "panic", None) /\ "panic" \in Outcome
    BY <1>5 DEF TaskPanics, Outcome
  <2> QED
    BY <1>1, <1>3, <2>1, ReturnInv
<1>6. ASSUME NEW o \in {"exited", "app_error", "auth_error", "hard_active", "hard_silent"},
             TurnFails(a, o)
      PROVE  IInv'
  <2> DEFINE b == requeue_batch_if_queue(u.batch)
  <2>1. Return(a, o, b) /\ o \in Outcome
    BY <1>6 DEF TurnFails, Outcome
  <2>2. b \in BatchOrNone /\ (b # None => ~DropMode /\ b = u.batch)
    BY <1>3 DEF requeue_batch_if_queue
  <2> HIDE DEF b
  <2> QED
    BY <1>1, <2>1, <2>2, ReturnInv
<1>7. ASSUME NEW o \in {"cancelled", "drain_timeout", "exited", "app_error"},
             TurnCancelled(a, o)
      PROVE  IInv'
  <2> DEFINE sig == u.control
             b == requeue_cancelled_batch(u.batch, sig)
  <2>1. Return(a, o, b) /\ o \in Outcome /\ sig \in Signal
    BY <1>7 DEF TurnCancelled, Outcome
  <2>2. u.batch # None /\ u.batch \in FlushBatch
    <3>1. sig # "none"
      BY <2>1 DEF Signal
    <3> QED
      BY <1>2, <1>3, <3>1 DEF TaskOK, BatchOrNone
  <2>3. /\ b \in BatchOrNone
        /\ b # None => /\ ~DropMode /\ b.channel_id = u.batch.channel_id
                       /\ b.events = u.batch.events
                       /\ b.cancelled_events = u.batch.cancelled_events
    <3>1. CASE DropMode \/ sig \in {"Cancel", "Rotate"}
      BY <1>3, <3>1 DEF requeue_cancelled_batch
    <3>2. CASE ~(DropMode \/ sig \in {"Cancel", "Rotate"})
      <4>1. b = [u.batch EXCEPT !.cancel_reason = IF sig = "Steer" THEN "steer"
                                                  ELSE "interrupt"]
        BY <3>2 DEF requeue_cancelled_batch
      <4> HIDE DEF b
      <4>2. /\ b \in FlushBatch /\ b.channel_id = u.batch.channel_id
            /\ b.events = u.batch.events /\ b.cancelled_events = u.batch.cancelled_events
        BY <2>2, <4>1 DEF FlushBatch, CancelReason
      <4> QED
        BY <3>2, <4>2 DEF BatchOrNone
    <3> QED
      BY <3>1, <3>2
  <2> HIDE DEF b
  <2> QED
    BY <1>1, <2>1, <2>2, <2>3, ReturnInv
<1> QED
  BY <1>4, <1>5, <1>6, <1>7 DEF TaskEnds

\* The read loop takes a steer from its channel.
LEMMA TakeSteerInv ==
  ASSUME IInv, NEW a \in Agent, TakeSteer(a)
  PROVE  IInv'
<1> DEFINE u == task[a]
<1>1. Running(a) /\ u.steer_tx # None /\ u.pending_steer = None
  BY DEF TakeSteer
<1>2. /\ u \in TaskType /\ TaskOK(u) /\ SteerIds(u) = {u.steer_tx}
      /\ u.channel_id \in Channel /\ u.steer_tx \in Nat /\ u.left \in Nat
  <2>1. Runs(u, acks)
    BY <1>1, RunningTask
  <2>2. SteerIds(u) = {u.steer_tx}
    BY <1>1 DEF SteerIds
  <2>3. u.left \in Nat
    BY <2>1, QueueConstants DEF Runs, TaskType
  <2> QED
    BY <2>1, <2>2, <2>3 DEF Runs
<1>3. CASE /\ acks' = acks
           /\ SetTask(a, [u EXCEPT !.steer_tx = None, !.pending_steer = u.steer_tx])
  <2> DEFINE w == [u EXCEPT !.steer_tx = None, !.pending_steer = u.steer_tx]
             N == {}
  <2>1. w \in TaskType
    BY <1>2 DEF TaskType
  <2>2. /\ w.channel_id = u.channel_id /\ w.batch = u.batch /\ w.control = u.control
        /\ w.steerable = u.steerable /\ w.steer_tx = None /\ w.pending_steer = u.steer_tx
        /\ w.phase = u.phase /\ w.result = u.result /\ w.left = u.left
    BY <1>2 DEF TaskType
  <2>3. SetTask(a, w) /\ acks' = acks \cup N
    BY <1>3
  <2> HIDE DEF w
  <2>4. TaskOK(w)
    BY <1>1, <1>2, <2>2 DEF TaskOK
  <2>5. SteerIds(w) = SteerIds(u)
    BY <1>1, <1>2, <2>2 DEF SteerIds
  <2>6. /\ N \subseteq AckType
        /\ \A k \in N : /\ k.channel_id = task[a].channel_id
                        /\ k.event_id \in SteerIds(task[a]) \ SteerIds(w)
        /\ \A k1, k2 \in N : k1.event_id = k2.event_id => k1 = k2
        /\ \A i \in SteerIds(task[a]) \ SteerIds(w) : \E k \in N : k.event_id = i
    BY <2>5
  <2>7. w.left <= u.left
    BY <1>2, <2>2
  <2> HIDE DEF N
  <2> QED
    BY <1>1, <2>1, <2>2, <2>3, <2>4, <2>5, <2>6, <2>7, TaskStepInv
<1>4. CASE /\ acks' = acks \cup {[channel_id |-> u.channel_id, event_id |-> u.steer_tx,
                                 kind |-> "rejected"]}
           /\ SetTask(a, [u EXCEPT !.steer_tx = None])
  <2> DEFINE w == [u EXCEPT !.steer_tx = None]
             k0 == [channel_id |-> u.channel_id, event_id |-> u.steer_tx,
                    kind |-> "rejected"]
             N == {k0}
  <2>1. w \in TaskType
    BY <1>2 DEF TaskType
  <2>2. /\ w.channel_id = u.channel_id /\ w.batch = u.batch /\ w.control = u.control
        /\ w.steerable = u.steerable /\ w.steer_tx = None /\ w.pending_steer = None
        /\ w.phase = u.phase /\ w.result = u.result /\ w.left = u.left
    BY <1>1, <1>2 DEF TaskType
  <2>3. SetTask(a, w) /\ acks' = acks \cup N
    BY <1>4
  <2> HIDE DEF w
  <2>4. TaskOK(w)
    BY <1>1, <1>2, <2>2 DEF TaskOK
  <2>5. SteerIds(w) = {}
    BY <2>2 DEF SteerIds
  <2>6. k0 \in AckType /\ k0.channel_id = u.channel_id /\ k0.event_id = u.steer_tx
    BY <1>2 DEF AckType
  <2> HIDE DEF k0
  <2>7. /\ N \subseteq AckType
        /\ \A k \in N : /\ k.channel_id = task[a].channel_id
                        /\ k.event_id \in SteerIds(task[a]) \ SteerIds(w)
        /\ \A k1, k2 \in N : k1.event_id = k2.event_id => k1 = k2
        /\ \A i \in SteerIds(task[a]) \ SteerIds(w) : \E k \in N : k.event_id = i
    BY <1>2, <2>5, <2>6
  <2>8. w.left <= u.left /\ SteerIds(w) \subseteq SteerIds(u)
    BY <1>2, <2>2, <2>5
  <2> HIDE DEF N
  <2> QED
    BY <1>1, <2>1, <2>2, <2>3, <2>4, <2>7, <2>8, TaskStepInv
<1> QED
  BY <1>3, <1>4 DEF TakeSteer

\* The agent answers a steer.
LEMMA AnswerSteerInv ==
  ASSUME IInv, NEW a \in Agent, NEW kind \in {"success", "rejected", "unknown"},
         AnswerSteer(a, kind)
  PROVE  IInv'
<1> DEFINE u == task[a]
           k0 == [channel_id |-> u.channel_id, event_id |-> u.pending_steer, kind |-> kind]
           N == {k0}
<1>1. Running(a) /\ u.pending_steer # None /\ acks' = acks \cup N
  BY DEF AnswerSteer
<1>2. PICK left \in {u.left} \cup (IF kind = "success" THEN {MaxTurn} ELSE {}) :
        SetTask(a, [u EXCEPT !.pending_steer = None, !.left = left])
  BY DEF AnswerSteer
<1> DEFINE w == [u EXCEPT !.pending_steer = None, !.left = left]
<1>3. /\ u \in TaskType /\ TaskOK(u) /\ u.pending_steer \in SteerIds(u)
      /\ u.channel_id \in Channel /\ u.pending_steer \in Nat /\ u.left \in 0..MaxTurn
      /\ u.steer_tx # u.pending_steer
  <2>1. Runs(u, acks)
    BY <1>1, RunningTask
  <2>2. u.pending_steer \in SteerIds(u)
    BY <1>1 DEF SteerIds
  <2> QED
    BY <1>1, <2>1, <2>2 DEF Runs, TaskType
<1>4. left \in 0..MaxTurn /\ (left = u.left \/ kind = "success")
  BY <1>3, QueueConstants
<1>5. w \in TaskType
  BY <1>3, <1>4 DEF TaskType
<1>6. /\ w.channel_id = u.channel_id /\ w.batch = u.batch /\ w.control = u.control
      /\ w.steerable = u.steerable /\ w.steer_tx = u.steer_tx /\ w.pending_steer = None
      /\ w.phase = u.phase /\ w.result = u.result /\ w.left = left
  BY <1>3 DEF TaskType
<1>7. SetTask(a, w)
  BY <1>2
<1> HIDE DEF w
<1>8. TaskOK(w)
  BY <1>1, <1>3, <1>6 DEF TaskOK
<1>9. SteerIds(w) = SteerIds(u) \ {u.pending_steer}
  BY <1>1, <1>3, <1>6 DEF SteerIds
<1>10. /\ k0 \in AckType /\ k0.channel_id = u.channel_id
       /\ k0.event_id = u.pending_steer /\ k0.kind = kind
  BY <1>3 DEF AckType
<1> HIDE DEF k0
<1>11. /\ N \subseteq AckType
       /\ \A k \in N : /\ k.channel_id = task[a].channel_id
                       /\ k.event_id \in SteerIds(task[a]) \ SteerIds(w)
       /\ \A k1, k2 \in N : k1.event_id = k2.event_id => k1 = k2
       /\ \A i \in SteerIds(task[a]) \ SteerIds(w) : \E k \in N : k.event_id = i
  BY <1>3, <1>9, <1>10
<1>12. w.left <= u.left \/ \E k \in N : k.kind = "success"
  <2>1. CASE left = u.left
    BY <1>3, <1>6, <2>1, QueueConstants
  <2>2. CASE kind = "success"
    BY <1>10, <2>2
  <2> QED
    BY <1>4, <2>1, <2>2
<1> HIDE DEF N
<1>13. SteerIds(w) \subseteq SteerIds(u) /\ (w.steer_tx # None => w.steer_tx # w.pending_steer)
  BY <1>6, <1>9
<1> QED
  BY <1>1, <1>5, <1>6, <1>7, <1>8, <1>11, <1>12, <1>13, TaskStepInv

-----------------------------------------------------------------------------
(* Respawns and the circuit breaker's cooldown *)

\* A respawn task reports.
LEMMA RespawnDoneInv ==
  ASSUME IInv, NEW a \in Agent, NEW o \in {"ok", "failed"}, RespawnDone(a, o)
  PROVE  IInv'
<1> DEFINE t == [Main EXCEPT !.respawn[a] = o]
<1>1. Good(Main, acks, arrived) /\ Main \in MainType /\ Slots(Main)
  BY MainFine, FineIsGood DEF Good
<1>2. Main' = t /\ acks' = acks /\ arrived' = arrived
  BY DEF RespawnDone, Main
<1>3. t \in MainType
  BY <1>1 DEF MainType
<1>4. /\ t.q = Main.q /\ t.task = Main.task /\ t.settled = Main.settled
      /\ t.interrupted = Main.interrupted /\ t.idle = Main.idle
      /\ t.circuit = Main.circuit /\ t.hb = Main.hb
      /\ t.respawn = [Main.respawn EXCEPT ![a] = o]
  BY <1>1 DEF MainType
<1>5. Main.respawn[a] = "flying" /\ Main.respawn \in [Agent -> {"no", "flying", "ok", "failed"}]
  BY <1>1 DEF RespawnDone, Main, MainType
<1> HIDE DEF t
<1>6. \A b \in Agent : t.respawn[b] # "no" <=> Main.respawn[b] # "no"
  BY <1>4, <1>5
<1>7. Slots(t)
  BY <1>1, <1>4, <1>6 DEF Slots
<1>8. Good(t, acks, arrived)
  BY <1>1, <1>3, <1>4, <1>7, SlotsChange
<1> QED
  BY <1>2, <1>8 DEF IInv

\* An open circuit has cooled down.
LEMMA CooldownInv ==
  ASSUME IInv, NEW a \in Agent, Cooldown(a)
  PROVE  IInv'
<1> DEFINE t == [Main EXCEPT !.circuit = [circuit EXCEPT ![a].open = "cooled"]]
<1>1. Good(Main, acks, arrived) /\ Main \in MainType /\ Slots(Main)
  BY MainFine, FineIsGood DEF Good
<1>2. Main' = t /\ acks' = acks /\ arrived' = arrived
  BY DEF Cooldown, Main
<1>3. Main.circuit = circuit /\ circuit \in [Agent -> Circuit] /\ circuit[a].open = "open"
  BY <1>1 DEF Cooldown, Main, MainType
<1>4. [circuit EXCEPT ![a].open = "cooled"] \in [Agent -> Circuit]
  BY <1>3 DEF Circuit
<1>5. t \in MainType
  BY <1>1, <1>4 DEF MainType
<1>6. /\ t.q = Main.q /\ t.task = Main.task /\ t.settled = Main.settled
      /\ t.interrupted = Main.interrupted /\ t.idle = Main.idle
      /\ t.respawn = Main.respawn /\ t.hb = Main.hb
      /\ t.circuit = [circuit EXCEPT ![a].open = "cooled"]
  BY <1>1 DEF MainType
<1> HIDE DEF t
<1>7. \A b \in Agent : t.circuit[b].open # "closed" <=> Main.circuit[b].open # "closed"
  BY <1>3, <1>6 DEF Circuit
<1>8. Slots(t)
  BY <1>1, <1>6, <1>7 DEF Slots
<1>9. Good(t, acks, arrived)
  BY <1>1, <1>5, <1>6, <1>8, SlotsChange
<1> QED
  BY <1>2, <1>9 DEF IInv

-----------------------------------------------------------------------------
(* The passing of time *)

\* Record t is record s a tick later.
Older(t, s) ==
  /\ Busy(t.task) = Busy(s.task)
  /\ \A a \in Busy(s.task) :
       /\ t.task[a].channel_id = s.task[a].channel_id /\ t.task[a].batch = s.task[a].batch
       /\ t.task[a].control = s.task[a].control /\ t.task[a].phase = s.task[a].phase
       /\ t.task[a].steerable = s.task[a].steerable
       /\ t.task[a].steer_tx = s.task[a].steer_tx
       /\ t.task[a].pending_steer = s.task[a].pending_steer
       /\ t.task[a].result = s.task[a].result
       /\ s.task[a].left \in Nat \ {0} /\ t.task[a].left = s.task[a].left - 1
  /\ t.idle = s.idle /\ t.respawn = s.respawn /\ t.circuit = s.circuit /\ t.hb = s.hb
  /\ t.settled = s.settled /\ t.interrupted = s.interrupted
  /\ t.q = elapse(s.q)

\* What a tick leaves in the tables.
LEMMA ElapseTables ==
  ASSUME NEW r, QueueOK(r)
  PROVE  /\ elapse(r).in_flight_channels = r.in_flight_channels
         /\ \A c \in Channel :
              /\ elapse(r).in_flight_deadlines[c] = Later(r.in_flight_deadlines[c])
              /\ elapse(r).withheld_native_steer[c] = r.withheld_native_steer[c]
              /\ elapse(r).cancelled_batches[c] = r.cancelled_batches[c]
         /\ AllIds(elapse(r)) = AllIds(r) /\ (Neat(r) => Neat(elapse(r)))
<1>1. \A c \in Channel : SameAt(elapse(r), r, c)
  BY TimersMoveNothing
<1>2. AllIds(elapse(r)) = AllIds(r) /\ (Neat(r) => Neat(elapse(r)))
  BY <1>1, ChangeNone
<1>3. /\ elapse(r).in_flight_channels = r.in_flight_channels
      /\ \A c \in Channel :
              elapse(r).in_flight_deadlines[c] = Later(r.in_flight_deadlines[c])
  BY DEF elapse, QueueOK, QueueType
<1> QED
  BY <1>1, <1>2, <1>3 DEF SameAt

\* A turn whose deadline lies beyond its hard cap still has it so a tick later.
LEMMA OlderCovered ==
  ASSUME NEW s, NEW t, s \in MainType, QueueOK(s.q), Older(t, s), NEW a \in Busy(s.task),
         s.task[a].channel_id \in Channel, Covered(s, {}, s.task[a])
  PROVE  Covered(t, {}, t.task[a])
<1> DEFINE c == s.task[a].channel_id
           d == s.q.in_flight_deadlines[c]
           e == t.q.in_flight_deadlines[c]
           n == s.task[a].left
<1>1. d \in Nat \ {0} /\ d >= n + DeadlineBuffer
  BY TimerType DEF Covered
<1>2. e = Later(d) /\ n \in Nat \ {0} /\ t.task[a].left = n - 1 /\ t.task[a].channel_id = c
  BY ElapseTables DEF Older
<1> HIDE DEF c, d, e, n
<1>3. e = d - 1
  BY <1>1, <1>2, QueueConstants DEF Later
<1>4. e \in Nat \ {0} /\ e >= (n - 1) + DeadlineBuffer
  BY <1>1, <1>2, <1>3, QueueConstants
<1>5. e # None /\ e # 0 /\ e >= t.task[a].left + DeadlineBuffer
  BY <1>2, <1>4, QueueConstants
<1> QED
  BY <1>2, <1>5 DEF Covered, e, c

\* With no ack on its way and no turn at its hard cap, a tick keeps the record good.
LEMMA OlderGood ==
  ASSUME NEW s, NEW n, Good(s, {}, n), NEW t \in MainType, Older(t, s)
  PROVE  Good(t, {}, n)
<1> DEFINE K == Busy(s.task)
<1>1. /\ s \in MainType /\ QueueOK(s.q) /\ Slots(s) /\ Events(s, n)
      /\ Steers(s, {}) /\ Deadlines(s, {}) /\ \A a \in K : TaskOK(s.task[a])
  BY DEF Good
<1>2. /\ t.q.in_flight_channels = s.q.in_flight_channels
      /\ \A c \in Channel :
           /\ t.q.in_flight_deadlines[c] = Later(s.q.in_flight_deadlines[c])
           /\ t.q.withheld_native_steer[c] = s.q.withheld_native_steer[c]
           /\ t.q.cancelled_batches[c] = s.q.cancelled_batches[c]
      /\ AllIds(t.q) = AllIds(s.q) /\ Neat(t.q) /\ QueueOK(t.q)
  BY <1>1, ElapseTables, ElapseOK DEF Older, Events
<1>3. /\ Busy(t.task) = K
      /\ \A a \in K : /\ t.task[a].channel_id = s.task[a].channel_id
                      /\ t.task[a].batch = s.task[a].batch
                      /\ t.task[a].control = s.task[a].control
                      /\ t.task[a].phase = s.task[a].phase
                      /\ t.task[a].steerable = s.task[a].steerable
                      /\ t.task[a].steer_tx = s.task[a].steer_tx
                      /\ t.task[a].pending_steer = s.task[a].pending_steer
                      /\ t.task[a].result = s.task[a].result
      /\ t.idle = s.idle /\ t.respawn = s.respawn /\ t.circuit = s.circuit /\ t.hb = s.hb
      /\ t.settled = s.settled /\ t.interrupted = s.interrupted
  BY DEF Older
<1>4. \A a \in K : /\ BatchIdsOf(t, a) = BatchIdsOf(s, a)
                   /\ SteerIds(t.task[a]) = SteerIds(s.task[a])
                   /\ TaskOK(t.task[a])
  <2> TAKE a \in K
  <2>1. BatchIdsOf(t, a) = BatchIdsOf(s, a)
    BY <1>3 DEF BatchIdsOf
  <2>2. SteerIds(t.task[a]) = SteerIds(s.task[a])
    BY <1>3 DEF SteerIds
  <2>3. TaskOK(t.task[a])
    BY <1>1, <1>3, SMTT(40) DEF TaskOK
  <2> QED
    BY <2>1, <2>2, <2>3
<1>5. \A a \in K : s.task[a].channel_id \in Channel \cup {None}
  BY <1>1 DEF MainType, TaskType, Busy
<1>6. \A a \in K : \A i \in SteerIds(s.task[a]) : s.task[a].channel_id \in Channel
  BY <1>1, SteeredChannel DEF MainType
<1>7. \A a \in K : s.task[a].channel_id # None /\ Covered(s, {}, s.task[a])
                     => Covered(t, {}, t.task[a])
  BY <1>1, <1>5, OlderCovered
<1> HIDE DEF K
<1>8. Slots(t)
  BY <1>1, <1>3 DEF Slots, K
<1>9. Events(t, n)
  <2>1. InTurns(t) = InTurns(s)
    BY <1>3, <1>4 DEF InTurns, K
  <2> QED
    BY <1>1, <1>2, <1>3, <1>4, <2>1 DEF Events, K
<1>10. Steers(t, {})
  <2>1. \A a \in K : \A i \in SteerIds(t.task[a]) :
          i \in Ids(t.q.withheld_native_steer[t.task[a].channel_id]) \cup t.settled
    BY <1>1, <1>2, <1>3, <1>4, <1>6 DEF Steers, K
  <2>2. \A c \in Channel : \A i \in Ids(t.q.withheld_native_steer[c]) :
          \E a \in K : i \in SteerIds(t.task[a])
    BY <1>1, <1>2, <1>4 DEF Steers, K
  <2> QED
    BY <1>1, <1>3, <1>4, <2>1, <2>2 DEF Steers, K
<1>11. Deadlines(t, {})
  <2>1. ASSUME NEW a \in K, t.task[a].steerable
        PROVE  \/ t.q.in_flight_deadlines[t.task[a].channel_id] = None
               \/ Covered(t, {}, t.task[a])
    <3>1. s.task[a].channel_id \in Channel /\ s.task[a].channel_id # None
      BY <1>1, <1>3, <1>5, <2>1, HarnessConstants DEF TaskOK
    <3>2. CASE s.q.in_flight_deadlines[s.task[a].channel_id] = None
      BY <1>2, <1>3, <3>1, <3>2 DEF Later
    <3>3. CASE Covered(s, {}, s.task[a])
      BY <1>7, <3>1, <3>3
    <3> QED
      BY <1>1, <1>3, <2>1, <3>2, <3>3 DEF Deadlines, K
  <2>2. ASSUME ~InitialMessage
        PROVE  /\ \A a \in K : t.task[a].channel_id # None => Covered(t, {}, t.task[a])
               /\ \A a, b \in K :
                    t.task[a].channel_id # None /\ t.task[a].channel_id = t.task[b].channel_id
                      => a = b
               /\ \A c \in t.q.in_flight_channels : \E a \in K : t.task[a].channel_id = c
    <3>1. /\ \A a \in K : s.task[a].channel_id # None => Covered(s, {}, s.task[a])
          /\ \A a, b \in K :
               s.task[a].channel_id # None /\ s.task[a].channel_id = s.task[b].channel_id
                 => a = b
          /\ \A c \in s.q.in_flight_channels : \E a \in K : s.task[a].channel_id = c
      BY <1>1, <2>2 DEF Deadlines, K
    <3>2. \A a \in K : t.task[a].channel_id # None => Covered(t, {}, t.task[a])
      BY <1>3, <1>7, <3>1
    <3>3. \A c \in t.q.in_flight_channels : \E a \in K : t.task[a].channel_id = c
      BY <1>2, <1>3, <3>1
    <3>4. \A a, b \in K :
            t.task[a].channel_id # None /\ t.task[a].channel_id = t.task[b].channel_id
              => a = b
      BY <1>3, <3>1
    <3> QED
      BY <3>2, <3>3, <3>4
  <2> QED
    BY <1>3, <2>1, <2>2 DEF Deadlines
<1> QED
  BY <1>2, <1>3, <1>4, <1>8, <1>9, <1>10, <1>11 DEF Good

\* Time passes.
LEMMA TickInv ==
  ASSUME IInv, Tick
  PROVE  IInv'
<1> DEFINE t == Main'
<1>1. /\ Good(Main, acks, arrived) /\ Main \in MainType
      /\ acks \subseteq AckType /\ arrived \in Nat
      /\ Main.q = q /\ Main.task = task /\ Main.maint = maint
  BY MainFine, FineIsGood
<1>2. acks = {} /\ acks' = {} /\ arrived' = arrived
  BY DEF Tick
<1>3. /\ task \in [Agent -> TaskType \cup {None}] /\ maint \in 0..MaintInterval
      /\ QueueOK(q)
  BY <1>1 DEF MainType, Good
<1>4. task' = [a \in Agent |-> IF task[a] = None THEN None
                               ELSE [task[a] EXCEPT !.left = @ - 1]]
  BY DEF Tick
<1>5. ASSUME NEW a \in Busy(task)
      PROVE  /\ task'[a] \in TaskType /\ task[a].left \in Nat \ {0}
             /\ task'[a].left = task[a].left - 1
             /\ task'[a].channel_id = task[a].channel_id /\ task'[a].batch = task[a].batch
             /\ task'[a].control = task[a].control /\ task'[a].phase = task[a].phase
             /\ task'[a].steerable = task[a].steerable
             /\ task'[a].steer_tx = task[a].steer_tx
             /\ task'[a].pending_steer = task[a].pending_steer
             /\ task'[a].result = task[a].result
  <2>1. task[a] \in TaskType /\ task[a].left > 0 /\ a \in Agent /\ task[a] # None
    BY <1>3 DEF Busy, Tick
  <2>2. task'[a] = [task[a] EXCEPT !.left = @ - 1]
    BY <1>4, <2>1
  <2>3. task[a].left \in Nat \ {0} /\ task[a].left - 1 \in 0..MaxTurn
    BY <2>1, QueueConstants DEF TaskType
  <2> QED
    BY <2>1, <2>2, <2>3 DEF TaskType
<1>6. \A a \in Agent : a \notin Busy(task) => task'[a] = None
  BY <1>4 DEF Busy
<1>7. task' \in [Agent -> TaskType \cup {None}] /\ Busy(task') = Busy(task)
  <2>1. \A a \in Agent : task'[a] \in TaskType \cup {None}
    BY <1>5, <1>6
  <2>2. \A a \in Busy(task) : task'[a] # None
    BY <1>5, NoneIsAbsent
  <2>3. Busy(task') = Busy(task)
    BY <1>6, <2>2 DEF Busy
  <2> QED
    BY <1>4, <2>1, <2>3
<1>8. maint' \in 0..MaintInterval /\ q' = elapse(q) /\ q' \in QueueType
  <2>1. maint' \in 0..MaintInterval
    BY <1>3, HarnessConstants DEF Tick
  <2>2. q' = elapse(q)
    BY DEF Tick
  <2> QED
    BY <1>3, <2>1, <2>2, ElapseOK DEF QueueOK
<1>9. /\ idle' = idle /\ respawn' = respawn /\ circuit' = circuit /\ removed' = removed
      /\ heartbeat_in_flight' = heartbeat_in_flight /\ exited' = exited
      /\ settled' = settled /\ interrupted' = interrupted /\ failures' = failures
  BY DEF Tick
<1>10. Main' = [q |-> q', idle |-> idle, task |-> task', respawn |-> respawn,
                circuit |-> circuit, removed |-> removed, hb |-> heartbeat_in_flight,
                maint |-> maint', exited |-> exited, settled |-> settled,
                interrupted |-> interrupted, failures |-> failures]
  BY <1>9 DEF Main
<1>11. t \in MainType
  BY <1>1, <1>7, <1>8, <1>10 DEF Main, MainType
<1>12. /\ t.q = q' /\ t.idle = Main.idle /\ t.task = task' /\ t.respawn = Main.respawn
       /\ t.circuit = Main.circuit /\ t.hb = Main.hb /\ t.settled = Main.settled
       /\ t.interrupted = Main.interrupted
  BY <1>10 DEF Main
<1> HIDE DEF t
<1>13. Older(t, Main)
  BY <1>1, <1>5, <1>7, <1>8, <1>12 DEF Older
<1>14. Good(t, {}, arrived)
  BY <1>1, <1>2, <1>11, <1>13, OlderGood
<1> QED
  BY <1>1, <1>2, <1>14 DEF IInv, t

-----------------------------------------------------------------------------
(* The invariant is inductive *)

\* The harness starts in a good record.
LEMMA InitInv == Init => IInv
<1> SUFFICES ASSUME Init PROVE IInv
  OBVIOUS
<1> DEFINE s == Main
<1>1. /\ q = EmptyQueue /\ idle \subseteq Agent /\ task = [a \in Agent |-> None]
      /\ respawn = [a \in Agent |-> "no"]
      /\ circuit = [a \in Agent |-> [crashes |-> 0, open |-> "closed"]]
      /\ removed = {} /\ heartbeat_in_flight = FALSE /\ maint = MaintInterval
      /\ acks = {} /\ exited = FALSE /\ arrived = 0
      /\ settled = {} /\ interrupted = {} /\ failures = [i \in 1..MaxEvents |-> 0]
  BY DEF Init
<1>2. QueueOK(q) /\ Neat(q) /\ AllIds(q) = {} /\ q \in QueueType
  BY <1>1, EmptyQueueOK, EmptyQueueNeat DEF QueueOK
<1>3. circuit \in [Agent -> Circuit] /\ maint \in 0..MaintInterval
  BY <1>1, HarnessConstants DEF Circuit
<1>4. task \in [Agent -> TaskType \cup {None}] /\ Busy(task) = {}
  BY <1>1 DEF Busy
<1>5. /\ s \in MainType
      /\ s.q = q /\ s.idle = idle /\ s.task = task /\ s.respawn = respawn
      /\ s.circuit = circuit /\ s.hb = FALSE /\ s.settled = {} /\ s.interrupted = {}
  BY <1>1, <1>2, <1>3, <1>4 DEF Main, MainType
<1>6. \A c \in Channel : /\ q.withheld_native_steer[c] = <<>>
                         /\ q.cancelled_batches[c] = <<>>
  BY <1>1 DEF EmptyQueue
<1>7. q.in_flight_channels = {}
  BY <1>1 DEF EmptyQueue
<1>8. \A a \in Agent : respawn[a] = "no" /\ circuit[a].open = "closed"
  BY <1>1
<1> HIDE DEF s
<1>9. Slots(s)
  BY <1>4, <1>5, <1>8 DEF Slots
<1>10. InTurns(s) = {}
  BY <1>4, <1>5 DEF InTurns
<1>11. Events(s, 0)
  <2>1. 1..0 = {}
    OBVIOUS
  <2>2. \A c \in Channel : Ids(s.q.cancelled_batches[c]) \subseteq s.interrupted
    BY <1>5, <1>6, EmptyIds
  <2> QED
    BY <1>2, <1>4, <1>5, <1>10, <2>1, <2>2 DEF Events
<1>12. Steers(s, {})
  BY <1>4, <1>5, <1>6, EmptyIds DEF Steers
<1>13. Deadlines(s, {})
  BY <1>4, <1>5, <1>7 DEF Deadlines
<1>14. Good(s, {}, 0)
  BY <1>2, <1>4, <1>5, <1>9, <1>11, <1>12, <1>13 DEF Good
<1> QED
  BY <1>1, <1>14 DEF IInv, s

\* Every step of the harness keeps the invariant.
LEMMA NextInv == IInv /\ [Next]_vars => IInv'
<1> SUFFICES ASSUME IInv, [Next]_vars PROVE IInv'
  OBVIOUS
<1>1. CASE Next
  BY <1>1, RelayEventInv, MemberRemovedInv, MemberAddedInv, OwnerControlInv, ResultInv,
     PanicInv, SteerAckInv, HeartbeatTickInv, LoopTimerInv, InitialMessageDoneInv,
     TaskEndsInv, TakeSteerInv, AnswerSteerInv, RespawnDoneInv, CooldownInv, TickInv
     DEF Next, MainLoop
<1>2. CASE UNCHANGED vars
  <2>1. Main' = Main /\ acks' = acks /\ arrived' = arrived
    BY <1>2 DEF vars, Main
  <2> QED
    BY <2>1 DEF IInv
<1> QED
  BY <1>1, <1>2

-----------------------------------------------------------------------------
(* What the invariant says of the variables *)

\* The properties follow from the invariant.
LEMMA IInvSays ==
  ASSUME IInv
  PROVE  /\ TypeOK /\ OneAgentPerSlot /\ HeartbeatFlag /\ WithheldIsSteering
         /\ SettledIsGone /\ NoDoubleDelivery /\ OnlyInterruptedLost
         /\ DropMode => NothingLost
         /\ ~InitialMessage => OneTurnPerChannel
<1> DEFINE s == Main
<1>1. /\ Good(s, acks, arrived) /\ s \in MainType /\ acks \subseteq AckType
      /\ s.q = q /\ s.task = task /\ s.idle = idle /\ s.respawn = respawn
      /\ s.circuit = circuit /\ s.hb = heartbeat_in_flight
      /\ s.settled = settled /\ s.interrupted = interrupted /\ s.maint = maint
      /\ s.removed = removed /\ s.exited = exited
  BY MainFine, FineIsGood
<1> HIDE DEF s
<1>2. Slots(s) /\ Events(s, arrived) /\ Steers(s, acks) /\ Deadlines(s, acks) /\ QueueOK(q)
      /\ \A a \in Busy(task) : TaskOK(task[a])
  BY <1>1 DEF Good
<1>3. TypeOK
  BY <1>1 DEF TypeOK, MainType
<1>4. OneAgentPerSlot /\ HeartbeatFlag
  BY <1>1, <1>2 DEF Slots, OneAgentPerSlot, HeartbeatFlag
<1>5. WithheldIsSteering
  <2> SUFFICES ASSUME NEW c \in Channel, NEW i \in Ids(q.withheld_native_steer[c])
               PROVE  i \in Steering
    BY DEF WithheldIsSteering
  <2>1. \/ \E a \in Busy(task) : i \in SteerIds(task[a])
        \/ \E k \in acks : i = k.event_id
    BY <1>1, <1>2 DEF Steers
  <2> QED
    BY <2>1 DEF Steering, SteerIds
<1>6. HeldIds = AllIds(q) /\ TurnIds = InTurns(s)
  <2>1. HeldIds = AllIds(q)
    BY DEF HeldIds, AllIds, ChannelIds
  <2>2. TurnIds = InTurns(s)
    BY <1>1 DEF TurnIds, InTurns, BatchIdsOf
  <2> QED
    BY <2>1, <2>2
<1>7. SettledIsGone
  BY <1>1, <1>2, <1>6 DEF SettledIsGone, Events
<1>8. NoDoubleDelivery
  <2>1. \A a, b \in Busy(task) : a # b => BatchIds(task[a].batch) \cap BatchIds(task[b].batch) = {}
    BY <1>1, <1>2 DEF Events, BatchIdsOf
  <2>2. HeldIds \cap TurnIds = {}
    BY <1>1, <1>2, <1>6 DEF Events
  <2> QED
    BY <2>1, <2>2 DEF NoDoubleDelivery, Turns
<1>9. /\ 1..arrived \subseteq HeldIds \cup TurnIds \cup settled \cup interrupted
      /\ DropMode => interrupted = {}
  BY <1>1, <1>2, <1>6 DEF Events
<1>10. OnlyInterruptedLost
  BY <1>9 DEF OnlyInterruptedLost, Lost
<1>11. DropMode => NothingLost
  BY <1>9 DEF NothingLost, Lost
<1>12. ASSUME ~InitialMessage
       PROVE  OneTurnPerChannel
  <2>1. /\ \A a \in Busy(task) : task[a].channel_id # None => Covered(s, acks, task[a])
        /\ \A a, b \in Busy(task) :
             task[a].channel_id # None /\ task[a].channel_id = task[b].channel_id => a = b
        /\ \A c \in q.in_flight_channels : \E a \in Busy(task) : task[a].channel_id = c
    BY <1>1, <1>2, <1>12 DEF Deadlines
  <2>2. ASSUME NEW a \in Turns
        PROVE  task[a].channel_id \in q.in_flight_channels
    <3>1. a \in Busy(task) /\ task[a].channel_id # None
      BY DEF Turns
    <3>2. task[a].channel_id \in Channel
      BY <1>1, <3>1 DEF MainType, TaskType, Busy
    <3>3. q.in_flight_deadlines[task[a].channel_id] # None
      BY <1>1, <2>1, <3>1 DEF Covered
    <3> QED
      BY <1>2, <3>2, <3>3 DEF QueueOK
  <2>3. \A c \in q.in_flight_channels : \E a \in Turns : task[a].channel_id = c
    <3>1. \A c \in q.in_flight_channels : c # None
      BY <1>2, HarnessConstants DEF QueueOK, QueueType
    <3> QED
      BY <2>1, <3>1 DEF Turns
  <2>4. \A a, b \in Turns : task[a].channel_id = task[b].channel_id => a = b
    BY <2>1 DEF Turns
  <2> QED
    BY <2>2, <2>3, <2>4 DEF OneTurnPerChannel
<1> QED
  BY <1>3, <1>4, <1>5, <1>7, <1>8, <1>10, <1>11, <1>12

\* The invariant holds of every state of the harness.
THEOREM Invariance == Spec => []IInv
BY InitInv, NextInv, PTL DEF Spec

-----------------------------------------------------------------------------
(* The properties of the harness *)

\* The tables of the main loop keep their types.
THEOREM HarnessTyped == Spec => []TypeOK
<1>1. IInv => TypeOK
  BY IInvSays
<1> QED
  BY <1>1, Invariance, PTL

\* Without an initial message, a channel has exactly one turn while it is in
\* flight and none otherwise, however many turns are steered: no in-flight
\* deadline fires under a running turn.
THEOREM OneTurn == ~InitialMessage => (Spec => []OneTurnPerChannel)
<1> SUFFICES ASSUME ~InitialMessage PROVE Spec => []OneTurnPerChannel
  OBVIOUS
<1>1. IInv => OneTurnPerChannel
  BY IInvSays
<1> QED
  BY <1>1, Invariance, PTL

\* No slot of the pool ever holds two agents, or an agent and a respawn, and no
\* agent works under an open circuit.
THEOREM SlotsAreSingle == Spec => []OneAgentPerSlot
<1>1. IInv => OneAgentPerSlot
  BY IInvSays
<1> QED
  BY <1>1, Invariance, PTL

\* The heartbeat flag is set exactly while a heartbeat task exists.
THEOREM HeartbeatIsFlagged == Spec => []HeartbeatFlag
<1>1. IInv => HeartbeatFlag
  BY IInvSays
<1> QED
  BY <1>1, Invariance, PTL

\* Whatever is withheld waits for the answer to a steer that is under way, so
\* that no event is withheld for good.
THEOREM WithheldHasSteer == Spec => []WithheldIsSteering
<1>1. IInv => WithheldIsSteering
  BY IInvSays
<1> QED
  BY <1>1, Invariance, PTL

\* An event that was answered, dropped, dead-lettered or given to a running turn
\* by a steer is never queued or run again.
THEOREM NoEventComesBack == Spec => []SettledIsGone
<1>1. IInv => SettledIsGone
  BY IInvSays
<1> QED
  BY <1>1, Invariance, PTL

\* No event is in the queue and in a turn, or in two turns.
THEOREM OneDelivery == Spec => []NoDoubleDelivery
<1>1. IInv => NoDoubleDelivery
  BY IInvSays
<1> QED
  BY <1>1, Invariance, PTL

\* An event that disappears for no reason the code names had been given to an
\* agent, in a turn that was cancelled.
THEOREM UnseenIsKept == Spec => []OnlyInterruptedLost
<1>1. IInv => OnlyInterruptedLost
  BY IInvSays
<1> QED
  BY <1>1, Invariance, PTL

\* Where cancelled and failed batches are dropped, an event leaves only for a
\* reason the code names.
THEOREM DropModeLosesNothing == DropMode => (Spec => []NothingLost)
<1> SUFFICES ASSUME DropMode PROVE Spec => []NothingLost
  OBVIOUS
<1>1. IInv => NothingLost
  BY IInvSays
<1> QED
  BY <1>1, Invariance, PTL
=============================================================================
