# TLA+ models of Buzz

Buzz is a chat relay for people and agents: a multi-tenant Nostr relay in Rust
(`crates/buzz-relay` and the crates under it), an agent harness that connects
language-model agents to channels (`crates/buzz-acp`), command line tools, and
desktop, mobile and web clients. This directory holds TLA+ models of the parts
whose correctness depends on the order in which things happen, TLC
configurations that check them on small instances, and theorems checked by
TLAPS.

The repository already keeps two TLA+ models of its own:
`docs/spec/MultiTenantRelay.tla` (isolation of communities) and
`docs/spec/GitOnObjectStore.tla` (the commit point of a push). They are not
repeated here.

All paths below are relative to `src/`.

## 1. Inventory

### Agent harness (`crates/buzz-acp`)

A harness process owns a pool of agent subprocesses. It subscribes to the
channels its identity belongs to, queues events per channel, gives batches of
them to agents as turns, and recovers when agents fail.

| part | state | operations | what makes it correct |
|---|---|---|---|
| event queue, `queue.rs` | pending events, in-flight set and deadlines, retry counts and backoff, cancelled batches with a reason, withheld steers | push, flush_next, mark_complete, requeue (three kinds), drain_channel, steer bookkeeping, expiry, compaction | one turn per channel; an event is in one place; none returns after it has settled; bounded queues and retries |
| main loop, `lib.rs` | queue, pool, removed channels, crash history, heartbeat flag, maintenance time | one `select!` branch per source of events, then maintenance at the top of the loop | nothing is stranded; every withheld event has an answer under way; flags never stick |
| prompt tasks and agents, `pool.rs`, `acp.rs` | session, steer channel, pending steer, hard and idle deadlines | initial message, prompt, steer, cancel, timeouts, panic | a turn ends in exactly one way, and every steer is answered |
| circuit breaker and respawn, `lib.rs` | crash times, open/half-open, respawn in flight | record_crash, refill, cool down | one agent per slot; no agent behind an open circuit |
| lazy pool, `pool_lifecycle.rs` | listening / waking / ready, attempt number | wake, complete_wake, sleep | a late result of an old attempt is rejected |
| relay client, `relay.rs` | subscriptions, since-watermarks, seen ids | reconnect, resubscribe | an event id is handed over once |

Interaction: the main loop is the only owner of the queue. Prompt tasks, respawn
tasks and steer acks run concurrently and reach it through channels; they share
nothing else with it. What is hard is the order of these messages: the answer of
a steer, the end of the turn it was sent to, the expiry of the in-flight
deadline, the removal of the channel and the panic of the task race each other.

### Device pairing (`crates/buzz-core/src/pairing`, `crates/buzz-pairing-cli`, `desktop/src-tauri/src/commands/pairing.rs`)

A device that holds an identity shows a QR code; another scans it; both users
compare a short code; the secret is sent. State: one session per device (state,
peer, processed ids, expiry) and, in the desktop app, the payload, mode and
background task of a shared handle. The relay in between may lose and repeat
events, several devices may scan one code, and the desktop's commands run beside
the task that reads events. It is correct if one device at most gets the secret,
only with both users' consent, success is reported only when it is true, and a
finished session stays finished.

### Relay

| part | state | hard behaviour | what makes it correct |
|---|---|---|---|
| subscriptions and connections, `buzz-relay/src/subscription.rs`, `connection.rs` | per-connection table, channel and kind indexes | registration, removal and revocation beside fan-out | the indexes agree with the table; nothing is delivered after revocation |
| huddle ownership, `buzz-relay/src/tunnel/directory.rs`, `audio/` | a lease with a generation in Redis; per pod an owner registry with a renewer per lease, rooms and their peers | several pods join one huddle, leases lapse and are taken over, a pod shuts down, a room empties while somebody joins | one owner per huddle; a stale owner is fenced and its peers are told; a pod that shuts down lets go |
| mesh membership, `buzz-relay-mesh` | versioned gossip records | late gossip | the newest record wins |
| push leases and wake outbox, `buzz-db/src/push.rs`, `buzz-relay/src/push_runtime.rs` | leases per installation, a queue of match jobs, an outbox of wakes, claims with expiry | claims that lapse while their worker goes on, answers about an older registration, inserts beside the first lease | no wake that is owed is lost, a late answer has no effect, everything is settled |
| replica fence, `buzz-db/src/replica_fence.rs`, routing in `buzz-db/src/lib.rs` | per pod a ring of heartbeat tokens with the wall each proves, and an epoch | transactions that commit late with an old `created_at`, failed probes, restarts, restores of the writer | a page served by a replica has no holes and is not older than promised |
| git on object storage, `buzz-relay/src/api/git` | manifests, packs, a pointer changed by compare-and-swap | concurrent pushes, compaction beside reads | a push is atomic and no reachable pack is removed |
| workflows, `buzz-workflow`, `buzz-db/src/workflow.rs` | runs, schedule claims, approvals | two pods, a crash between claim and attach | each schedule slot runs once; an approval is used once |
| audit chain, `buzz-audit` | hash chain per community | concurrent appends | the chain has no fork |
| event store, auth, pub/sub, search | database rows, Redis keys | mostly single statements | isolation, left to the database |

The remaining crates are request/response programs, parsers, formatters and user
interfaces. `PROJECT.json` lists every part under "components" with its status,
and every place that is hard to test, at its line, under "hazards".

## 2. Plan

Done:

1. `EventQueue`, `QueueProtocol`, `Harness`: the queue, its calling convention,
   the harness around it. `EventDelivery` is what the queue promises, and
   `QueueProtocol` implements it.
2. `Pairing`: sessions and drivers, for sending an identity.
3. `ReplicaFence`: the freshness promise of replica reads.
4. `Huddle`: session directory, owner registry and rooms.
5. `PushWakes`: leases, match queue, wake outbox and their workers.

Open, in this order:

6. The desktop's `PairingHandle`: start, confirm, cancel and the websocket task
   with its generation fence, and the recovery direction
   (`handle_return_payload`, `send_source_complete`). `cancel_pairing` takes no
   `start_lock`, so its late `session = None` and `clear()` may meet a newer start.
7. Harness extensions: lazy pool, deduplication of membership notifications,
   relay client with watermarks (today an assumption: each id is handed over
   once), shutdown.
8. Subscription registry and connections; workflow schedules and approvals;
   pushes to object storage with compaction; mesh membership; audit chain.

Every invariant and action property that a run checks is proved as well
(section 6), some under a hypothesis that section 5 shows to be needed. Theorems
worth proving next: the fence across a restore that is noticed, and what holds of
the harness's turns with an initial message.

## 3. Modules and the code

### EventQueue

`queue.rs` has no concurrency: the main loop owns the queue. Each method is an
operator from a queue value (a record with one field per map of the struct) to a
new queue value, so that a handler that calls several methods is one action that
composes the operators. An absent key is `<<>>`, 0 or `None`. An `Instant` is the
number of ticks left until it, and `elapse` lets a tick pass. Events carry their
arrival number, which is at once their id and their `received_at`, and a
`created_at` chosen by the author. `sort_by_created_at` is the stable sort of
`flush_next`, given by the rank of each position rather than by recursion so that
it can be proved about. The backoff is a set of delays, because the code adds
jitter. `in_flight_batch_sizes`, which only feeds a log line, and the prompt text
are left out.

### QueueProtocol

The queue with its calling convention and nothing else: a batch from `flush_next`
is a turn, every turn ends in one of the call sequences of `lib.rs` (finish;
requeue and mark_complete; dead letter; requeue_preserve_timestamps and
mark_complete; requeue_as_cancelled and mark_complete), at any time, even after
its deadline has expired. It makes fewer assumptions than the harness does, so
what holds here does not depend on deadlines. `settled` and `interrupted` are
history variables.

### Harness

One action per branch of the main loop's `select!` (`RelayEvent`,
`MemberAdded/Removed`, `OwnerControl`, `MainLoop` for a finished or panicked task,
`SteerAck`, `HeartbeatTick`, `LoopTimer`). A branch is handled to its end before
the loop looks at anything else, so an action is the whole handler followed by the
top of the loop (maintenance, refill of empty slots, collection of respawned
agents). The functions that the handlers call are operators from the record of the
main loop's data to the set of records they can produce.

The steps of the other tasks are separate actions: a prompt task finishes the
initial message, takes a steer from its channel, the agent answers the steer or
not, the task ends in any of its outcomes (success, cancelled, agent exit,
application or authentication error, the two hard timeouts, panic), a respawn task
reports, a circuit cools down, time passes. `Tick` is the only clock. A tick is
longer than the main loop needs for a message that is already there, which is what
`IN_FLIGHT_DEADLINE_BUFFER_SECS` relies on in the code: time does not pass while a
finished task waits to be collected for longer than the buffer.

Constants choose the configuration: `DropMode`, `Handling` (queue, steer,
interrupt, owner_interrupt), `InitialMessage`, `Heartbeats`, `LoopTimers`.

Membership notifications pass a deduplication by event id (`lib.rs` 2668-2712)
that is not modelled: `MemberAdded` and `MemberRemoved` stand for notifications
that passed it.

### Pairing

`session` is `PairingSession` per device, `pc` the place in the driving program,
`command` the progress of the desktop's `confirm_pairing_sas`, which locks the
session twice and can be overtaken between the two. The cryptography is taken at
its word: only the device an event is addressed to can read it, and a transcript
hash stands for the keys it is derived from. `ForeignSource` is a source of
another implementation that derives another hash; it makes the mismatch path
reachable. A target may fail to store what it was sent and then reports
`complete(success = false)`, as the mobile app does; the source ends as failed, or
by its timeout if the report is lost. Events of one connection arrive in order; the
relay may lose any and repeat up to `MaxRedelivered`. A publish that fails is a lost
event.

### EventDelivery

The promise of the queue without tables, sequences or time: events arrive, wait,
are taken by a turn, and go back or are settled when the turn ends. What the queue
holds (queues, withheld steers, cancelled batches) is mapped to `waiting`, the
batches of the running turns to `turns`. `Implements` in `QueueProtocol` says that
every step of the queue's users is one of its steps or none.

### ReplicaFence

The writer is its sequence of commits, one per timeline; a reader's snapshot is a
prefix of one of them. Client transactions insert a row with a `created_at` of the
author's choice; a deferred trigger (migration 0021) refuses rows older than the
floor at commit, and a guarded transaction may still be prepared and committed
later. `probe_once` is taken apart: clock, open transactions and prepared
transactions (two views read by one SELECT, so in either order), heartbeat token,
`record`, and the rotation of the epoch on a regression. A probe may fail at any
point, also after its token has committed. `record`, `resolve`, `newest`, `close` and `fence_wall` keep their
names. `route_read` has two steps, the observation of the heartbeat in the
reader's snapshot and the decision, since pods and database go on between them.
`faults` starts with one of the plans of the MC module: two pods and two
heartbeats; one pod that may fail or restart once; one pod and one restore.

Assumption: a transaction that is prepared was prepared within `Margin` of passing
the guard. PostgreSQL does not say so; the guard is a deferred constraint trigger
that `PREPARE TRANSACTION` runs itself, just before it records the time.

### Huddle

One huddle. A Redis script is one step; in a pod every await and every access to a
shared map is a step of its own, because connections, renewers and the drain run
at once. `renewer[g]` is the task that renews the lease of generation g with its
three tokens, `registry[p]` the entry of a pod, `conn[c].at` the place of a
connection in `handle_audio_connection`: resolve (own, remote or acquire),
find or create the room, check the channel, enter, attach the renewer in the four
steps of `attach_signals`, take the watcher of the loss and then the one of the
drain; for a remote owner dial, and at the owner's side take the two watchers, look
at the draining flag, find or create the room, register; then mirror. A connection
may be refused at both ends (version, full room) and where it enters a room.
Leaving is removal from the room, the automatic end, clean-up and release.
Rooms are numbered, since a connection keeps the room it was given while the
manager may have another.

`stalls` bounds renewers that are later than the lease's TTL, `errors` failed
calls, `MaxDrains` the pods that shut down, and `slow` the joins that attach after
the TTL or are overtaken between the `get` and the `insert` of `attach_signals`.
Nothing in the code prevents either. `OneRenewer`, `OnlyLateLose` and the second half
of `DrainedPodIsQuiet` are about the behaviours without one (`slow = MaxSlowJoins`);
section 5 says what happens otherwise.

### PushWakes

One community, one author. A step is one statement or one transaction; accepting a
lease and inserting an event have two, the grant of the advisory gate lock and the
commit. Time is what it makes true: a claim lapses, a lease expires, an event
leaves the backfill window and stops being useful. A matcher claims due jobs,
loads their events, loads leases and members, enqueues wakes, deletes the jobs that
are done and then releases the others for a retry, and any of these statements may
fail; a worker claims wakes, and for each revalidates, checks the membership,
revalidates again, sends, and applies the answer. Claim ids are represented by the
worker. `owed`, `dropped` and `invalid` are history variables: the wakes that were
owed, the events whose matching was given up, the registrations the gateway called
gone.

### MC modules, proofs

`MCQueueProtocol`, `MCHarness` and `MCPairing` add the symmetry sets;
`MCReplicaFence` also the fault plans, `MCHuddle` which client is near which pod,
`MCPushWakes` the lease events an author publishes. `EventQueueProofs` holds the
lemmas about the queue's methods; `QueueProtocolProofs`, `EventDeliveryProofs`,
`HarnessProofs`, `PairingProofs`, `HuddleProofs`, `PushWakesProofs` and
`ReplicaFenceProofs` hold the theorems about the modules they are named after.

An operator `X_variant` marked "Faulty variant" is a plausible mistake in X; a run
with X replaced by it violates the property that guards against that mistake (`PROJECT.json`, "mutants").

## 4. Runs that pass

| run | configuration | what it shows |
|---|---|---|
| `queue` | 2 channels, 3 events, two `created_at` values | the tables of the queue agree (`InFlightHasDeadline`, `ReasonForCancelled`) and keep their limit (`WithinCap`); a retried failure is counted once, within the limit, and no completion forgets it while its throttle lasts (`RetryAccounting`); an event is in one place (`OnePlace`), never returns (`SettledIsGone`) and is not lost before an agent has seen it (`OnlyInterruptedLost`); the protocol implements `EventDelivery` (`Implements`) |
| `steer` | steer mode, 2 agents, 1 channel, 3 events | `OneTurnPerChannel`, `WithheldIsSteering`, `NoDoubleDelivery` with every order of steer answers, turn ends and deadlines |
| `slots` | drop mode, owner interrupt, 2 agents, 2 channels, 1 owner command, heartbeats | `OneAgentPerSlot` (none behind an open circuit) and `HeartbeatFlag` with crashes, panics, respawns and the circuit breaker; `NothingLost` (with in-flight events refused there are no merged batches to lose) |
| `live` | steer mode with an initial message, fair, 1 agent, 2 events, 1 owner command, 2 membership changes | `NothingStranded`; and, where the initial message uses up the steer channel before the prompt and a channel is left and rejoined under a running turn, `WithheldIsSteering`, `SettledIsGone` and `OnlyInterruptedLost` |
| `pairing` | 2 targets, the CLI or the desktop app as source | `OneApprovedImport`, `CompletedTogether` and `Final` (a finished session stays finished, the peer never changes) |
| `fence` | 1 transaction, 2 heartbeats of 2 pods, or 3 of one with a fault | `NoHoles`: a covered page has every row up to its bound, also those committed after it was served; `BoundedStaleness`: a bounded page has every row committed before the budget began |
| `huddle` | 2 pods, 3 clients, 2 generations; a stall, a slow join or an error; a drain, also beside a stall | `RegistryLive`, `DrainedPodIsQuiet`; and `OneRenewer`, `OnlyLateLose` where no join was slow |
| `huddle_live` | fair, 2 pods, 2 clients, both pods may drain | `DrainedPodLetsGo`, `LossIsTold` |
| `push` | 2 installations at one endpoint, 1 event, 2 matchers, 2 workers, 2 faults | `OwedIsTracked`, `DisabledWasGone`, and `ClaimIsExclusive` of every step |
| `push_live` | fair, 1 installation, 1 matcher, 1 worker, 2 faults | `JobsSettle`, `WakesSettle` |

### Bounds

`MaxEvents` is 3 where a batch, an event behind it and a steer must coexist, and 2
elsewhere. `MaxPending = 2` and `MaxBatch = 2` make queues overflow
and batches be cut off within three events. `MaxRetries = 1` reaches the dead
letter after two failures; delays of 1 and 2 ticks distinguish the first backoff
from the capped one. `MaxTurn` and `DeadlineBuffer` are 1, so the in-flight
deadline is the smallest value strictly above the hard cap. `CircuitThreshold = 2`
opens a circuit by two crashes. Two channels are enough for fairness between
channels and for a full pool; two agents for a second turn beside the first. Two
targets give a rival for the code; two redeliveries repeat an offer and a payload.
Agents, channels and targets are symmetric model values; the liveness runs use no
symmetry.

`fence`: floor, margin and budget are one tick and the clock runs to 4, so that a
transaction can begin before a probe, be guarded during it and commit after it;
a ring of 2 overflows with 3 heartbeats. Two pods share the token and the epoch
without faults; faults are explored with one pod. `huddle`: two generations give a
takeover, three clients two joiners at one pod and one at the other, one late
renewer the loss of a lease, one slow join the overlap of two attaches; the
constraint `FewFaults` explores these one at a time, and a drain alone or beside a
late renewer. (The theorems of section 6 hold for all combinations.) `push`: two
installations want one endpoint and one of them renews; two matchers and two workers let a claim lapse and be taken by the
other, two faults let a crash follow a lapse; two attempts reach the limit.

The main loop ends when every agent is dead, pairing programs end, clients of a
huddle leave and the other models exhaust their bounds, so these configurations do
not check for deadlock. The queue's does.

### Fairness

`FairSpec` of `Harness` assumes weak fairness of: the branches of the main loop
for finished tasks, acks and timers (the runtime polls a ready branch); the end of
a turn (its hard cap ends it); respawn tasks (they have a timeout); the circuit's
cool-down and time. The relay, the owner and the agents' answers to steers owe
nothing. `NothingStranded` is conditional on agents that eventually stop failing,
because a batch whose agents keep failing is rightly dead-lettered or the loop
ends.

`FairSpec` of `Huddle`: every task that can go on does (the runtime polls it), a
renewer notices a lost lease or a cancellation, Redis drops a key nobody renews, a
drain that began is finished. Nobody has to leave, and nothing has to fail: fairness
is of the steps that use up no error.

`FairSpec` of `PushWakes`: matchers and workers poll for ever, the matchers sweep
exhausted jobs at their interval, and an unsettled claim lapses after its seconds.
Clients, leases and the gateway's good will owe nothing.

## 5. Where the code and its comments disagree

Two runs state what the code promises and are violated by what it does:

- `lost_cancelled`: a turn cancelled for a new event leaves its events as
  `cancelled_events` of the next batch. `requeue` and
  `requeue_preserve_timestamps` put back `events` only, so they are gone if that
  batch fails, panics or finds the pool full. `queue.rs` 420 and `lib.rs` 4005
  promise that nothing is lost. `OnlyInterruptedLost` is the strongest statement
  that holds: only events an agent has already been given can go.
- `push_expired`: `accept_lease_event` clears the author's expired leases with an
  UPDATE (`push.rs` 290) that sets `active = false` and leaves the endpoint columns,
  which the table's CHECK (`migrations/0012_push_leases.sql` 20) forbids in an
  inactive row. The transaction fails, and so does every later lease event of the
  author, renewal and revocation included. `push.rs` 287 says that an expired lease
  must not consume quota or endpoint uniqueness for ever.

The other disagreements met while modelling can be reproduced with a configuration
of their own; each checks one property and TLC prints the behaviour.

| configuration | property | what happens |
|---|---|---|
| `MCHarnessRetries.cfg` (MCHarness) | `RetriesBounded` | a batch whose backoff has ended and that finds the pool full is put back and marked complete; `mark_complete` sees no throttle and clears the retry count, so a batch can be retried more than `MAX_RETRIES` times (`queue.rs` 393, 427) |
| `MCHarnessQuiet.cfg` (MCHarness) | `NothingStranded` | maintenance runs when some branch fires; with presence, typing and heartbeats off nothing fires on a quiet relay after a backoff, against `lib.rs` 2329 and 2497. With one timer configured the property holds (`live`) |
| `MCHarnessBackstop.cfg` (MCHarness) | `OneTurnPerChannel` | the initial message and the prompt get `max_turn_duration` each, the in-flight deadline covers one (`queue.rs` 172), and a second turn starts in the channel |
| `MCQueueTrim.cfg` (MCQueueProtocol) | `TrimsOldest` | `requeue` trims with `pop_back`, the newest events, where the comment and the log line say oldest (`queue.rs` 491, 499) |
| `MCPairingMismatch.cfg` (MCPairing) | `MismatchIsReported` | on a transcript mismatch the session is already `Aborted` when the target calls `abort`, which refuses, so the abort that `buzz-pairing-cli/src/main.rs` 272 calls for is not sent |
| `MCReplicaFenceRestore.cfg` (MCReplicaFence) | `NoHoles` | a failed probe (or a restart) empties the ring and keeps the epoch; if the writer is restored meanwhile, `record` finds no entry to compare with, sees no regression and rotates nothing, and a reader on the old timeline with a token that is high enough proves a wall it does not cover, against `replica_fence.rs` 45-47 and 650-655 |
| `MCHuddleWatched.cfg` (MCHuddle) | `OwnerPeerWatched` | a client finds the live entry of its pod; the last peers leave, the room is removed and the entry released; the client then enters a fresh room and `lost_for` has no watcher for it, against `handler.rs` 599-606 |
| `MCPushLapsed.cfg` (MCPushWakes) | `LapsedClaimIsRecovered` | up to 16 wakes are delivered one after another under one 30-second claim; one whose claim has lapsed when its turn comes is failed for good (`push_runtime.rs` 360) instead of being recovered (`push.rs` 1019) |

Seen without a configuration: the jitter comment of `queue.rs` 455-458 says 0.8 to
1.2, but `nanos / u32::MAX` stays below 0.24 and gives 0.8 to 0.893; `flush_next`'s
comment says that it drains all events of a channel and picks the oldest event,
where the code stops at `MAX_BATCH_EVENTS` and compares the heads of the queues. In
`attach_signals`, a join overtaken between `get` and `insert` replaces an entry
whose renewer nobody can cancel any more; the `huddle` run has such joins, and
`OneRenewer` fails there without its hypothesis. Remote
peers that leave last neither release the lease nor end the huddle. A device that
registers again at the same endpoint leaves its older wakes undeliverable, because
the outbox key has no generation.

## 6. Proofs

The theorems hold for every value of the constants that the named assumptions
allow: any number of channels, events, devices, pods, clients, installations and
workers, any cap, limit, delay, floor and margin. The assumptions are in the
modules that declare the constants, and TLC evaluates each of them in the run of
its module: `QueueConstants`, `NoneIsNoReason`, `ProtocolConstants` (`queue`),
`HarnessConstants`, `NoneIsAbsent` (`steer`, `slots`, `live`),
`PairingConstants` (`pairing`), `HuddleConstants` (`huddle`), `PushConstants`
(`push`), `FenceConstants` (`fence`). They say that capacities and delays are
positive numbers, that the sets of processes are sets of the right kind, and that
`None` is none of the values it stands beside.

Each module has one inductive invariant, `IInv` (`Placed` for the second half of
the queue), with a lemma for the initial states, a lemma per action or group of
actions, and one for the whole next-state relation.

### Queue: `EventQueueProofs`, `QueueProtocolProofs`, `EventDeliveryProofs`

| theorem | states |
|---|---|
| `TypeCorrect`, `CapHolds`, `NoChannelStuck`, `ReasonKept`, `RetriesWithinLimit` | `TypeOK`, `WithinCap`, `InFlightHasDeadline`, `ReasonForCancelled`, `RetryAccounting` |
| `NoEventTwice`, `NoEventReturns`, `NothingLostUnseen` | `OnePlace`, `SettledIsGone`, `OnlyInterruptedLost` |
| `QueueDelivers` | `Implements`: `QueueProtocol` refines `EventDelivery` |
| `EveryEventAccounted` | `Accounted` of `EventDelivery` |

`IInv` is the type, `QueueOK(q)` (the four properties of the tables as one
predicate on a queue value) and the fact that every batch handed out has at least
one event. The last part is the strengthening: `requeue_as_cancelled` sets a
reason whenever it is called, so `ReasonForCancelled` is preserved only if the
batch it stores is not empty, and that is known only from `flush_next`.
`RetryAccounting` says of every step that it keeps the counter within the limit, that
a retried failure adds one and leaves a throttle, which the completion in the same
handler sees, and that otherwise only a drain or a dead letter takes the count of a
throttled channel. It needs that `requeue` is given a positive delay, which
`BackoffPositive` shows for every attempt.

`Placed` adds where the events are: no table holds an event twice and no two share
one (`Neat`), no batch holds one twice and no two batches share one, what a batch
has merged or the queue has put aside was interrupted, and `Accounted` of
`EventDelivery` under the refinement mapping. The argument is the refinement
itself: with `Placed`, every step is a step of `EventDelivery` or none, and
`EventDeliveryProofs`, instantiated with the mapping, says that such a step keeps
`Accounted`; what an event can be lost or doubled by is therefore argued once, on
sets. That two turns are two different sets of events, which the mapping needs when
one ends, follows from batches that share nothing and are not empty.

Each queue method has two lemmas, which are about queue values and not about the
protocol: one that it keeps `QueueOK` (`PushOK`, `FlushOK`, `RequeueOK`, ...) and one
that says which events it brings in and takes out (`PushMoves`, `FlushMoves`,
`ExpireMoves`, `CancelMoves`, ...). The latter rest on lemmas about sequences:
what concatenation, `SubSeq`, `trim_back`, `Without` and the sort hold.
`RankIsPermutation` shows that the rank-based sort takes each position once, by
counting the events that rank before each.

### Harness: `HarnessProofs`

| theorem | states |
|---|---|
| `HarnessTyped` | `TypeOK` |
| `SlotsAreSingle`, `HeartbeatIsFlagged` | `OneAgentPerSlot`, `HeartbeatFlag` |
| `WithheldHasSteer` | `WithheldIsSteering` |
| `NoEventComesBack`, `OneDelivery`, `UnseenIsKept` | `SettledIsGone`, `NoDoubleDelivery`, `OnlyInterruptedLost` |
| `OneTurn` | `OneTurnPerChannel`, without an initial message |
| `DropModeLosesNothing` | `NothingLost`, in Drop mode |

The two hypotheses are needed: `MCHarnessBackstop.cfg` shows two turns in a channel
with an initial message, and the run `lost_cancelled` a lost event in Queue mode.

A handler of the main loop is a composition of operators on the record of the
loop's data, so the invariant is a predicate of that record, of the acks on their
way and of the number of events that have arrived: `IInv` is
`Good(Main, acks, arrived)`. Every operator is shown to lead from good records to
good ones, an action's lemma composes those of the operators it calls
(`RelayEventInv`, `ResultInv`, `SteerAckInv`, ...), and the steps of the prompt tasks
share one lemma (`TaskStepInv`: the acks a task sends answer exactly the steers it
no longer has). The parts of `Good` beside types and `QueueOK`:

- `TaskOK`: what the fields of a task say about each other. A heartbeat has no
  batch, no control channel and takes no steers; a result carries the task's own
  batch or none, and none in Drop mode; a read loop that is gone has no steer.
- `Slots`: the slot and heartbeat properties, and that there is at most one
  heartbeat, without which the end of one would clear the flag under another.
- `Events`: queue, turns and settled events are apart and lie in 1..arrived, every
  event that has arrived is in one of them or was interrupted, and what is merged
  into a batch or put aside as cancelled was interrupted.
- `Steers`: an event has at most one steer, in a channel, at an agent or as an ack;
  the event of a steer is withheld for it or settled since; nothing else is
  withheld. An ack that settles an event therefore settles no other turn's.
- `Deadlines`: the deadline of a turn's channel lies a buffer beyond the turn's
  hard cap, or the ack of a successful steer is on its way, whose handling
  extends it (`Covered`); no time passes before that. With an initial message this
  is known only of turns that can be steered and of channels with an ack on its
  way, which is what `Steers` needs: the expiry of a deadline releases what its
  channel withholds, and must not do so under a steer.

`dispatch_pending` and `drain_ready_join_results` are loops, written as recursive
functions of the iteration. `RecursionExists` shows that such a function exists (the
provers take its equation no other way), from `LeastNatural` and `CountUp`, and
`DispatchStays` and `DrainStays` that every iteration stays within the good records
(`Fine`).

### Pairing: `PairingProofs`

`TypeCorrect`, `SecretToOneApproved` (`OneApprovedImport`), `SuccessIsShared`
(`CompletedTogether`), `OutcomeIsFinal` (`Final`, an action property). The
invariant says which state of the session each place in a program goes with
(`ProgramFits`), that the source has a peer from the offer on and keeps it
(`PeersLocked`), that a session that shares has its user's approval
(`ApprovedBefore`), and what a message on the relay proves about its author
(`MailIsTrue`): a payload is addressed to the peer of a source that has approved, a
"complete" comes from a target that has completed. An inbox holds only what was
published (`MailIsPublished`), whatever was lost or repeated. A target imports when
it enters `PayloadExchanged`, which no step enters twice (`ImportedOnce`).

### Huddles: `HuddleProofs`

`TypeCorrect`, `EntriesAreLive` (`RegistryLive`), `InTimeKeeps` (`OnlyLateLose`),
`RenewersAreKnown` (`OneRenewer`) and `DrainIsComplete` (`DrainedPodIsQuiet`). The
last three say themselves that no join was slow where they need it: a join overtaken
in `attach_signals` replaces an entry whose renewer nobody can reach (section 5).

The argument: a generation is given out once, to one connection. Its lease has no
renewer and is in no registry before that connection attaches it, and the renewer
exists before the entry. Without slow joins a pod has at most one insert under way
and no entry while it is, so no entry is overwritten. An entry that outlives
`drain_all` belongs to a connection that has yet to look at the draining flag
again, and removes it then. Releases compare the exact lease, so that a lease that
is renewed in time is deleted by nobody.

### Push: `PushWakesProofs`

`TypeCorrect`, `NoWakeLost` (`OwedIsTracked`), `OnlyGoneDisabled`
(`DisabledWasGone`), `ClaimsExclude` (`ClaimIsExclusive`, an action property). The
invariant says that while an event is being inserted no activation of a lease is
under way, so that the trigger has seen every lease in effect (`GateHeld`); that an
event has neither job nor wake before its insertion has committed (`FreshIsBare`);
that generations only grow past the ones wakes were owed for (`OwedInThePast`); that
the wake found at the endpoint of a lease in effect was made for it
(`WakeIsForDue`, which needs `EndpointsUnique`); that a matcher about to enqueue has
seen the lease and one about to settle has made the wake (`MatcherKnows`); and that
a worker acts on an answer "gone" only for the registration it was about
(`GoneIsInvalid`). `OwedIsTracked` follows: a wake that is owed has a job that is not
settled yet, or is in the outbox, and no step takes it from one before it is in the
other.

### Replica fence: `ReplicaFenceProofs`

`TypeCorrect`, restores included; and, while the writer has one timeline
(`Unrestored`), `PagesComplete` (`NoHoles`) and `PagesFresh`
(`BoundedStaleness`). `Unrestored` is needed: `MCReplicaFenceRestore.cfg` shows a
hole after a restore that no probe has noticed. Restores that are noticed, which
the code handles by rotating the epoch, are model-checked in the `fence` run.

The notion the proof is about is `Sealed(wall, k)`: no transaction that is open
began before wall + floor + margin, none that is prepared was prepared before
that, and nothing at or below the wall has been committed after the first k
commits. A guarded commit has `created_at >= guard - floor`, so it cannot break a
seal: its guard ran after its begin, or at most a margin before it was prepared. A
probe seals its wall before its token commits, whichever of the two views it reads
first (`Begun` and `Held` are what each proves on its own);
every entry of a ring is sealed at its token's commit; and a snapshot that has a
token at least as large contains that commit, because tokens grow along the
commits (`TokensGrow`).

### Only model-checked

`NoHoles` and `BoundedStaleness` across a restore that is noticed; and liveness
(`NothingStranded`, `DrainedPodLetsGo`, `LossIsTold`, `JobsSettle`, `WakesSettle`),
since fairness and ENABLED are out of this prover's reach. How many iterations the
two loops of the harness need (that they end with nothing left to claim or to
recover) is not part of the theorems either, which hold after any number of them.

## 7. What is not modelled

The open items of section 2 are planned, not done. Within the modelled components:
shutdown of the harness, prompt text, rule filters, configuration and usage
accounting; media frames, peer indices, bans and revocation of huddles, and the
guard against writes to a community that is being deleted; the administrative
replacement and revocation of push leases and the pruning of old outbox rows; the
start-up checks of the replica fence. They hold no state that the properties speak
about, or act alone. Cryptography is assumed. SQL statements and Redis commands are
atomic by their servers; the components built on them are modelled where several of
them must agree. The event store, authentication, publish/subscribe and search are
such statements one at a time. User interfaces, media codecs, command line front
ends and the test suites are outside: they make up most of the repository's lines
and hold no protocol of their own.
