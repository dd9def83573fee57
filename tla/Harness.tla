------------------------------- MODULE Harness -------------------------------
(***************************************************************************)
(* The main loop of the agent harness (buzz-acp/src/lib.rs) with the agent  *)
(* pool, the prompt tasks and the steer requests of buzz-acp/src/pool.rs    *)
(* and acp.rs, around the queue of module EventQueue.                       *)
(*                                                                         *)
(* The main loop is one task.  It waits in select!, runs the handler of the *)
(* branch that fired without waiting for anything else, and then passes the *)
(* top of the loop (maintenance, collecting respawned agents) before it     *)
(* waits again.  An action of the main loop is therefore a whole iteration: *)
(* the handler followed by the top of the loop.  The prompt tasks, the      *)
(* agents and the relay run concurrently; they reach the main loop only     *)
(* through channels, and their steps are actions of their own.             *)
(*                                                                         *)
(* The main loop's data is gathered in a record, so that the functions the  *)
(* handlers call are operators from a record to the set of records they can *)
(* produce, and a handler is their composition.                             *)
(*                                                                         *)
(* Modelled with the pool started (lazy_pool off), without shutdown.        *)
(***************************************************************************)
EXTENDS EventQueue

CONSTANTS
  Agent,              \* slots of the agent pool
  Handling,           \* multiple_event_handling
  InitialMessage,     \* TRUE if an initial_message is configured
  Heartbeats,         \* TRUE if a heartbeat interval is configured
  LoopTimers,         \* TRUE if presence, typing or another timer wakes the loop
  MaintInterval,      \* maintenance_interval, in ticks
  CircuitThreshold,   \* CIRCUIT_BREAKER_THRESHOLD
  MaxEvents,          \* bound: events that ever arrive
  CreatedAt,          \* created_at values of the events
  MaxControls,        \* bound: owner commands (!cancel, !rotate, model switch)
  MaxMoves            \* bound: membership notifications

ASSUME HarnessConstants ==
  /\ Handling \in {"queue", "steer", "interrupt", "owner_interrupt"}
  /\ InitialMessage \in BOOLEAN /\ Heartbeats \in BOOLEAN /\ LoopTimers \in BOOLEAN
  /\ MaintInterval \in Nat \ {0} /\ CircuitThreshold \in Nat \ {0}
  /\ MaxEvents \in Nat /\ MaxControls \in Nat /\ MaxMoves \in Nat
  /\ CreatedAt \subseteq Nat /\ None \notin Channel
  /\ IsFiniteSet(Agent)

VARIABLES
  q,            \* queue: EventQueue
  idle,         \* pool.agents: the slots that hold an idle agent
  task,         \* pool.task_map by slot, with the state of the prompt task itself
  respawn,      \* by slot: respawn_in_flight and the RespawnResult it waits for
  circuit,      \* crash_history: SlotCircuit by slot
  removed,      \* removed_channels
  heartbeat_in_flight,
  maint,        \* ticks until maintenance is due
  acks,         \* SteerAckEvents on their way to the main loop
  exited,       \* the main loop has ended: all agents dead
  arrived,      \* events received so far; their ids are 1..arrived
  controls,     \* owner commands received so far
  moves,        \* membership notifications received so far
  settled,      \* history: ids of events that left for a reason the code names
  interrupted,  \* history: ids of events that were part of a cancelled turn
  failures      \* history: by event id, retries granted to it (counted to MaxRetries + 1)

vars == <<q, idle, task, respawn, circuit, removed, heartbeat_in_flight, maint,
          acks, exited, arrived, controls, moves, settled, interrupted, failures>>

-----------------------------------------------------------------------------
(* Prompt tasks *)

Signal == {"Cancel", "Interrupt", "Steer", "Rotate", "SwitchModel"}

\* "exited" stands for AgentExited, Timeout(Idle) and the transport-class
\* errors, which the main loop treats alike: retry the batch, replace the agent.
Outcome == {"ok", "exited", "app_error", "auth_error", "hard_active",
            "hard_silent", "cancelled", "drain_timeout", "panic"}

\* Outcomes after which the agent goes back to its slot.
Healthy == {"ok", "app_error", "auth_error", "cancelled"}

BatchOrNone == FlushBatch \cup {None}

TaskType ==
  [channel_id    : Channel \cup {None},             \* None for a heartbeat
   batch         : BatchOrNone,
   control       : Signal \cup {"open", "none"},    \* "open": control_tx not used yet
   steerable     : BOOLEAN,                         \* the read loop still has steer_rx
   steer_tx      : Nat \cup {None},                 \* request in the capacity-1 channel
   pending_steer : Nat \cup {None},                 \* request written to the agent
   phase         : {"init", "prompt"},
   left          : 0..MaxTurn,                      \* ticks until the hard cap
   result        : [outcome : Outcome, batch : BatchOrNone] \cup {None}]

ASSUME NoneIsAbsent ==
  None \notin TaskType \cup FlushBatch \cup Signal
                 \cup [outcome : Outcome, batch : BatchOrNone]

NewTask(b, phase) ==
  [channel_id |-> b.channel_id, batch |-> b, control |-> "open",
   steerable |-> TRUE, steer_tx |-> None, pending_steer |-> None,
   phase |-> phase, left |-> MaxTurn, result |-> None]

HeartbeatTask ==
  [channel_id |-> None, batch |-> None, control |-> "none",
   steerable |-> FALSE, steer_tx |-> None, pending_steer |-> None,
   phase |-> "prompt", left |-> MaxTurn, result |-> None]

Busy(tk) == {a \in Agent : tk[a] # None}

BatchIds(b) == IF b = None THEN {} ELSE Ids(b.events) \cup Ids(b.cancelled_events)

-----------------------------------------------------------------------------
(* The main loop's data *)

Main == [q |-> q, idle |-> idle, task |-> task, respawn |-> respawn,
         circuit |-> circuit, removed |-> removed, hb |-> heartbeat_in_flight,
         maint |-> maint, exited |-> exited, settled |-> settled,
         interrupted |-> interrupted, failures |-> failures]

Become(s) ==
  /\ q' = s.q /\ idle' = s.idle /\ task' = s.task /\ respawn' = s.respawn
  /\ circuit' = s.circuit /\ removed' = s.removed
  /\ heartbeat_in_flight' = s.hb /\ maint' = s.maint /\ exited' = s.exited
  /\ settled' = s.settled /\ interrupted' = s.interrupted
  /\ failures' = s.failures

\* f applied to every record of S; an exited loop does nothing more.
Then(S, f(_)) == UNION {IF s.exited THEN {s} ELSE f(s) : s \in S}

Settle(s, ids) == [s EXCEPT !.settled = @ \cup ids]

Expire(s) == [Settle(s, ExpiryTrimmed(s.q)) EXCEPT !.q = expire(@)]

-----------------------------------------------------------------------------
(* dispatch_pending *)

\* flush_next, try_claim and the spawn of the task on agent a.
StartTurn(s, c, a, phase) ==
  [s EXCEPT !.q = flush_next(s.q, c),
            !.idle = @ \ {a},
            !.task[a] = NewTask(FlushedBatch(s.q, c), phase)]

\* One iteration that finds an agent.  Which idle agent is claimed depends on its
\* sessions, which are left out; a new session runs the initial message first.
Claim(s) ==
  UNION {{StartTurn(s, c, a, phase)
            : a \in s.idle,
              phase \in IF InitialMessage THEN {"init", "prompt"} ELSE {"prompt"}}
         : c \in FlushChannels(s.q)}

\* The iteration that finds none: the batch goes back, and the loop breaks.
PoolExhausted(s) ==
  {LET b == FlushedBatch(s.q, c)
       q1 == flush_next(s.q, c)
   IN  [Settle(s, Trimmed(b.events \o q1.queues[c])) EXCEPT
          !.q = mark_complete(requeue_preserve_timestamps(q1, b), c)]
     : c \in FlushChannels(s.q)}

dispatch_pending(s) ==
  LET Iteration[n \in 0..Cardinality(Agent)] ==
        IF n = 0 THEN {Expire(s)}
        ELSE UNION {IF t.idle = {} \/ FlushChannels(t.q) = {} THEN {t} ELSE Claim(t)
                      : t \in Iteration[n - 1]}
  IN  UNION {IF FlushChannels(t.q) = {} THEN {t} ELSE PoolExhausted(t)
               : t \in Iteration[Cardinality(s.idle)]}

-----------------------------------------------------------------------------
(* Crashed agents and the circuit breaker *)

Circuit == [crashes : 0..CircuitThreshold, open : {"closed", "open", "cooled"}]

\* The verdict of record_crash: the new circuit, and whether to respawn.  How
\* many of the recorded crashes are still within the window depends on time.
record_crash(k) ==
  CASE k.open = "cooled" -> {[circuit |-> [crashes |-> CircuitThreshold - 1,
                                           open |-> "closed"], respawn |-> TRUE]}
    [] k.open = "open"   -> {[circuit |-> k, respawn |-> FALSE]}
    [] k.open = "closed" ->
         {IF kept + 1 >= CircuitThreshold
          THEN [circuit |-> [crashes |-> CircuitThreshold, open |-> "open"],
                respawn |-> FALSE]
          ELSE [circuit |-> [crashes |-> kept + 1, open |-> "closed"],
                respawn |-> TRUE]
            : kept \in 0..k.crashes}

can_refill(k) == k.open # "open"

Refilled(k) == IF k.open = "cooled"
               THEN [crashes |-> CircuitThreshold - 1, open |-> "closed"] ELSE k

live_count(s) == Cardinality(s.idle) + Cardinality(Busy(s.task))

any_respawn_in_flight(s) == \E a \in Agent : s.respawn[a] # "no"

\* The agent of slot a is gone: respawn it unless its circuit is open.
spawn_respawn_task(s, a) ==
  {[s EXCEPT !.circuit[a] = v.circuit,
             !.respawn[a] = IF v.respawn THEN "flying" ELSE @]
     : v \in record_crash(s.circuit[a])}

\* "all agents dead -- exiting"
ExitIfDead(s) ==
  [s EXCEPT !.exited = live_count(s) = 0 /\ ~any_respawn_in_flight(s)]

-----------------------------------------------------------------------------
(* The end of a turn *)

Failed(s, b) ==
  [s EXCEPT !.failures = [i \in DOMAIN @ |-> IF i \in BatchIds(b) /\ @[i] <= MaxRetries
                                              THEN @[i] + 1 ELSE @[i]]]

\* queue.requeue(batch): retried, or dead-lettered.
Requeue(s, b) ==
  LET c == b.channel_id IN
  IF Exhausted(s.q, b)
  THEN {[Settle(s, BatchIds(b)) EXCEPT !.q = requeue(s.q, b, None)]}
  ELSE {[Settle(Failed(s, b), Trimmed(b.events \o s.q.queues[c])) EXCEPT
           !.q = requeue(s.q, b, d)]
          : d \in BackoffDelays(s.q.retry_counts[c] + 1)}

\* What becomes of the batch of a turn that ended with result r.
BatchFate(s, t, r) ==
  IF r.batch = None \/ t.channel_id \in s.removed
  THEN {Settle(s, BatchIds(t.batch))}
  ELSE CASE r.outcome \in {"cancelled", "drain_timeout"} ->
              {[s EXCEPT !.q = requeue_as_cancelled(s.q, r.batch,
                                 IF r.batch.cancel_reason = None
                                 THEN "steer" ELSE r.batch.cancel_reason),
                         !.interrupted = @ \cup BatchIds(r.batch)]}
         [] r.outcome \in {"hard_silent", "auth_error"} ->
              {Settle(s, BatchIds(r.batch))}
         [] OTHER -> Requeue(s, r.batch)

\* Faulty variant: a heartbeat's end does not clear the flag.
MarkDone_without_flag(s, t) ==
  IF t.channel_id = None THEN s
  ELSE [s EXCEPT !.q = mark_complete(@, t.channel_id)]

\* mark_complete for a channel turn, the flag for a heartbeat.
MarkDone(s, t) ==
  IF t.channel_id = None THEN [s EXCEPT !.hb = FALSE]
  ELSE [s EXCEPT !.q = mark_complete(@, t.channel_id)]

handle_prompt_result(s, a) ==
  LET t == s.task[a]
      s0 == [s EXCEPT !.task[a] = None]
      done == {MarkDone(x, t) : x \in BatchFate(s0, t, t.result)}
  IN  IF t.result.outcome \in Healthy
      THEN {[x EXCEPT !.idle = @ \cup {a}] : x \in done}
      ELSE UNION {{ExitIfDead(y) : y \in spawn_respawn_task(x, a)} : x \in done}

\* Faulty variant: the batch of a panicked task is not recovered.
recover_panicked_agent_dropping(s, a) ==
  LET t == s.task[a]
  IN  spawn_respawn_task(MarkDone([s EXCEPT !.task[a] = None], t), a)

\* A panicked task returned neither agent nor batch; the batch is recovered from
\* the clone in its TaskMeta, which exists in Queue mode only.
recover_panicked_agent(s, a) ==
  LET t == s.task[a]
      s0 == [s EXCEPT !.task[a] = None]
      fates == IF t.batch = None \/ DropMode \/ t.channel_id \in s.removed
               THEN {Settle(s0, BatchIds(t.batch))} ELSE Requeue(s0, t.batch)
  IN  UNION {spawn_respawn_task(MarkDone(x, t), a) : x \in fates}

Panicked(s) == {a \in Busy(s.task) : s.task[a].result # None
                                      /\ s.task[a].result.outcome = "panic"}

\* Recovers every task that has panicked by now.
drain_ready_join_results(s) ==
  LET Drain[n \in 0..Cardinality(Agent)] ==
        IF n = 0 THEN {s}
        ELSE UNION {IF t.exited \/ Panicked(t) = {} THEN {t}
                    ELSE UNION {{ExitIfDead(x) : x \in recover_panicked_agent(t, a)}
                                  : a \in Panicked(t)}
                      : t \in Drain[n - 1]}
  IN  Drain[Cardinality(Agent)]

-----------------------------------------------------------------------------
(* The top of the loop *)

\* Faulty variant: a slot whose agent works in a task is taken for empty.
Refills_ignoring_tasks(s) == {a \in Agent : /\ a \notin s.idle
                                             /\ s.respawn[a] = "no"
                                             /\ can_refill(s.circuit[a])}

Refills(s) == {a \in Agent : /\ a \notin s.idle \cup Busy(s.task)
                             /\ s.respawn[a] = "no"
                             /\ can_refill(s.circuit[a])}

\* Faulty variant: what has become ready is not dispatched.
Maintenance_without_dispatch(s) ==
  IF s.maint # 0 THEN {s}
  ELSE {Expire([s EXCEPT
                  !.maint = MaintInterval,
                  !.q = compact_expired_state(@),
                  !.circuit = [a \in Agent |-> IF a \in Refills(s)
                                               THEN Refilled(@[a]) ELSE @[a]],
                  !.respawn = [a \in Agent |-> IF a \in Refills(s)
                                               THEN "flying" ELSE @[a]]])}

\* Compact the queue, refill empty slots, and dispatch what has become ready.
Maintenance(s) ==
  IF s.maint # 0 THEN {s}
  ELSE LET s1 == [s EXCEPT
                    !.maint = MaintInterval,
                    !.q = compact_expired_state(@),
                    !.circuit = [a \in Agent |-> IF a \in Refills(s)
                                                 THEN Refilled(@[a]) ELSE @[a]],
                    !.respawn = [a \in Agent |-> IF a \in Refills(s)
                                                 THEN "flying" ELSE @[a]]]
           s2 == Expire(s1)
       IN  IF has_flushable_work(s2.q) THEN dispatch_pending(s2) ELSE {s2}

\* Take over the agents that respawn tasks have delivered.
CollectRespawns(s) ==
  LET ok == {a \in Agent : s.respawn[a] = "ok"}
      s1 == [s EXCEPT
               !.idle = @ \cup ok,
               !.circuit = [a \in Agent |-> IF s.respawn[a] = "failed"
                                            THEN [@[a] EXCEPT !.open = "open"] ELSE @[a]],
               !.respawn = [a \in Agent |-> IF @[a] \in {"ok", "failed"}
                                            THEN "no" ELSE @[a]]]
  IN  IF ok = {} THEN {s1} ELSE dispatch_pending(s1)

LoopTop(S) == Then(Then(S, Maintenance), CollectRespawns)

Iterate(S) == \E s \in LoopTop(S) : Become(s)

-----------------------------------------------------------------------------
(* Signals to running turns *)

mode_gate_signal(fromOwner) ==
  CASE Handling = "queue"           -> None
    [] Handling = "steer"           -> "Steer"
    [] Handling = "interrupt"       -> "Interrupt"
    [] Handling = "owner_interrupt" -> IF fromOwner THEN "Interrupt" ELSE None

TasksOf(s, c) == {a \in Busy(s.task) : s.task[a].channel_id = c}

\* The oneshot control_tx can be used once per turn.
signal_in_flight_task(s, c, signal) ==
  IF TasksOf(s, c) = {} THEN {s}
  ELSE {[s EXCEPT !.task[a].control = IF @ = "open" THEN signal ELSE @]
          : a \in TasksOf(s, c)}

CanSteer(t) == t.steerable /\ t.steer_tx = None /\ t.result = None

\* The non-cancelling steer, or the signal when the read loop does not take it.
SteerOrSignal(s, e) ==
  IF TasksOf(s, e.channel_id) = {} THEN {s}
  ELSE UNION {IF CanSteer(s.task[a])
              THEN {[s EXCEPT !.task[a].steer_tx = e.id,
                              !.q = mark_native_steer_pending(@, e.channel_id, e.id)]}
              ELSE signal_in_flight_task(s, e.channel_id, "Steer")
                : a \in TasksOf(s, e.channel_id)}

-----------------------------------------------------------------------------
(* Branches of select! *)

RelayEvent(c, t, fromOwner) ==
  LET e == [id |-> arrived + 1, channel_id |-> c, created_at |-> t]
      s1 == [Settle(Main, Dropped(q, e)) EXCEPT !.q = push(q, e)]
      signal == IF Accepts(q, e) /\ c \in q.in_flight_channels
                THEN mode_gate_signal(fromOwner) ELSE None
      S == CASE signal = None        -> {s1}
             [] signal = "Steer"     -> SteerOrSignal(s1, e)
             [] signal = "Interrupt" -> signal_in_flight_task(s1, c, signal)
  IN  /\ ~exited
      /\ arrived < MaxEvents
      /\ arrived' = arrived + 1
      /\ Iterate(Then(S, dispatch_pending))
      /\ UNCHANGED <<acks, controls, moves>>

MemberRemoved(c) ==
  /\ ~exited
  /\ moves < MaxMoves
  /\ moves' = moves + 1
  /\ Iterate({[Main EXCEPT !.q = drain_channel(@, c),
                           !.removed = @ \cup {c},
                           !.settled = @ \cup Ids(q.queues[c])
                                         \cup Ids(q.cancelled_batches[c])
                                         \cup Ids(q.withheld_native_steer[c])]})
  /\ UNCHANGED <<acks, arrived, controls>>

MemberAdded(c) ==
  /\ ~exited
  /\ moves < MaxMoves
  /\ moves' = moves + 1
  /\ Iterate({[Main EXCEPT !.removed = @ \ {c}]})
  /\ UNCHANGED <<acks, arrived, controls>>

\* !cancel, !rotate, or a cancel / model-switch frame from the owner's desktop.
OwnerControl(c, signal) ==
  /\ ~exited
  /\ controls < MaxControls
  /\ controls' = controls + 1
  /\ Iterate(signal_in_flight_task(Main, c, signal))
  /\ UNCHANGED <<acks, arrived, moves>>

Result(a) ==
  /\ ~exited
  /\ task[a] # None
  /\ task[a].result # None
  /\ task[a].result.outcome # "panic"
  /\ Iterate(Then(Then(handle_prompt_result(Main, a), drain_ready_join_results),
                  dispatch_pending))
  /\ UNCHANGED <<acks, arrived, controls, moves>>

Panic(a) ==
  /\ ~exited
  /\ a \in Panicked(Main)
  /\ Iterate(Then({ExitIfDead(x) : x \in recover_panicked_agent(Main, a)},
                  dispatch_pending))
  /\ UNCHANGED <<acks, arrived, controls, moves>>

\* success: the agent has the event.  rejected: it never reached the agent, so
\* the turn is cancelled for it.  unknown: the turn ended first, or refused it.
SteerAck(k) ==
  LET withheld == k.event_id \in Ids(q.withheld_native_steer[k.channel_id])
      s1 == IF k.kind = "success"
            THEN Settle([Main EXCEPT !.q = remove_event(
                           extend_in_flight_deadline(@, k.channel_id),
                           k.channel_id, k.event_id)], {k.event_id})
            ELSE [Settle(Main, IF withheld THEN FrontTrimmed(q, k.channel_id) ELSE {})
                    EXCEPT !.q = release_native_steer(@, k.channel_id, k.event_id)]
      S == IF k.kind = "rejected"
           THEN signal_in_flight_task(s1, k.channel_id, "Steer") ELSE {s1}
  IN  /\ ~exited
      /\ acks' = acks \ {k}
      /\ Iterate(Then(S, dispatch_pending))
      /\ UNCHANGED <<arrived, controls, moves>>

HeartbeatTick ==
  LET s1 == Expire(Main)
      S == IF has_flushable_work(s1.q) THEN dispatch_pending(s1)
           ELSE IF s1.idle # {} /\ ~s1.hb
           THEN {[s1 EXCEPT !.idle = @ \ {a}, !.task[a] = HeartbeatTask, !.hb = TRUE]
                   : a \in s1.idle}
           ELSE {s1}
  IN  /\ ~exited
      /\ Heartbeats
      /\ Iterate(S)
      /\ UNCHANGED <<acks, arrived, controls, moves>>

\* Presence, typing and the inactivity reaper: nothing of their own here, but
\* the loop passes its top.
LoopTimer ==
  /\ ~exited
  /\ LoopTimers
  /\ Iterate({Main})
  /\ UNCHANGED <<acks, arrived, controls, moves>>

-----------------------------------------------------------------------------
(* Prompt tasks, agents, time *)

SetTask(a, t) ==
  /\ task' = [task EXCEPT ![a] = t]
  /\ UNCHANGED <<q, idle, respawn, circuit, removed, heartbeat_in_flight, maint,
                 exited, arrived, controls, moves, settled, interrupted, failures>>

Running(a) == ~exited /\ task[a] # None /\ task[a].result = None

\* Faulty variant: only the steer already written to the agent is answered.
Unanswered_in_channel_forgotten(t) ==
  {[channel_id |-> t.channel_id, event_id |-> id, kind |-> "unknown"]
     : id \in {t.pending_steer} \ {None}}

\* The steers of task t that are unanswered when its read loop ends.
Unanswered(t) ==
  {[channel_id |-> t.channel_id, event_id |-> id, kind |-> "unknown"]
     : id \in {t.steer_tx, t.pending_steer} \ {None}}

\* run_prompt_task returns: the read loop is gone and the result is sent.
Return(a, outcome, batch) ==
  /\ acks' = acks \cup Unanswered(task[a])
  /\ SetTask(a, [task[a] EXCEPT !.result = [outcome |-> outcome, batch |-> batch],
                                !.steerable = FALSE, !.steer_tx = None,
                                !.pending_steer = None])

requeue_batch_if_queue(b) == IF DropMode THEN None ELSE b

requeue_cancelled_batch(b, signal) ==
  IF DropMode \/ signal \in {"Cancel", "Rotate"} THEN None
  ELSE [b EXCEPT !.cancel_reason = IF signal = "Steer" THEN "steer" ELSE "interrupt"]

\* Faulty variant: steers left over from the initial message are not answered.
InitialMessageDone_silent(a) ==
  /\ Running(a)
  /\ task[a].phase = "init"
  /\ acks' = acks
  /\ SetTask(a, [task[a] EXCEPT !.phase = "prompt", !.left = MaxTurn,
                                !.steerable = FALSE, !.steer_tx = None,
                                !.pending_steer = None])

\* The session's initial message has been answered; it used up the steer_rx.
InitialMessageDone(a) ==
  /\ Running(a)
  /\ task[a].phase = "init"
  /\ acks' = acks \cup Unanswered(task[a])
  /\ SetTask(a, [task[a] EXCEPT !.phase = "prompt", !.left = MaxTurn,
                                !.steerable = FALSE, !.steer_tx = None,
                                !.pending_steer = None])

TurnSucceeds(a) ==
  /\ Running(a)
  /\ task[a].phase = "prompt"
  /\ Return(a, "ok", None)

TurnFails(a, outcome) ==
  /\ Running(a)
  /\ outcome \in {"hard_active", "hard_silent"} => task[a].left = 0
  /\ Return(a, outcome, requeue_batch_if_queue(task[a].batch))

\* The task saw the control signal while the prompt was running.
TurnCancelled(a, outcome) ==
  /\ Running(a)
  /\ task[a].phase = "prompt"
  /\ task[a].control \in Signal
  /\ Return(a, outcome, requeue_cancelled_batch(task[a].batch, task[a].control))

TaskPanics(a) ==
  /\ Running(a)
  /\ Return(a, "panic", None)

\* The read loop takes a steer request and writes it to the agent, or finds that
\* the agent has no way to be steered.
TakeSteer(a) ==
  /\ Running(a)
  /\ task[a].steer_tx # None
  /\ task[a].pending_steer = None
  /\ \/ /\ acks' = acks
        /\ SetTask(a, [task[a] EXCEPT !.steer_tx = None,
                                      !.pending_steer = task[a].steer_tx])
     \/ /\ acks' = acks \cup {[channel_id |-> task[a].channel_id,
                               event_id |-> task[a].steer_tx, kind |-> "rejected"]}
        /\ SetTask(a, [task[a] EXCEPT !.steer_tx = None])

\* The agent answers the steer.  A steer it took renews the turn's hard cap,
\* unless the agent started a new turn for it.
AnswerSteer(a, kind) ==
  /\ Running(a)
  /\ task[a].pending_steer # None
  /\ acks' = acks \cup {[channel_id |-> task[a].channel_id,
                         event_id |-> task[a].pending_steer, kind |-> kind]}
  /\ \E left \in {task[a].left} \cup (IF kind = "success" THEN {MaxTurn} ELSE {}) :
       SetTask(a, [task[a] EXCEPT !.pending_steer = None, !.left = left])

RespawnDone(a, outcome) ==
  /\ ~exited
  /\ respawn[a] = "flying"
  /\ respawn' = [respawn EXCEPT ![a] = outcome]
  /\ UNCHANGED <<q, idle, task, circuit, removed, heartbeat_in_flight, maint, acks,
                 exited, arrived, controls, moves, settled, interrupted, failures>>

Cooldown(a) ==
  /\ ~exited
  /\ circuit[a].open = "open"
  /\ circuit' = [circuit EXCEPT ![a].open = "cooled"]
  /\ UNCHANGED <<q, idle, task, respawn, removed, heartbeat_in_flight, maint, acks,
                 exited, arrived, controls, moves, settled, interrupted, failures>>

\* A tick is far longer than the main loop takes to handle what is waiting for
\* it, and than a task takes to return once its hard cap is reached: the 100s
\* in-flight buffer is there to cover both.
Tick ==
  /\ ~exited
  /\ acks = {}
  /\ \A a \in Busy(task) : task[a].result = None /\ task[a].left > 0
  /\ q' = elapse(q)
  /\ maint' = IF maint = 0 THEN 0 ELSE maint - 1
  /\ task' = [a \in Agent |-> IF task[a] = None THEN None
                              ELSE [task[a] EXCEPT !.left = @ - 1]]
  /\ UNCHANGED <<idle, respawn, circuit, removed, heartbeat_in_flight, acks, exited,
                 arrived, controls, moves, settled, interrupted, failures>>

-----------------------------------------------------------------------------

\* initialize_agent_pool goes on with the agents that came up, if there is one; the
\* slots of the others are empty and left to the refill.
Init ==
  /\ q = EmptyQueue
  /\ idle \in SUBSET Agent \ {{}}
  /\ task = [a \in Agent |-> None]
  /\ respawn = [a \in Agent |-> "no"]
  /\ circuit = [a \in Agent |-> [crashes |-> 0, open |-> "closed"]]
  /\ removed = {} /\ heartbeat_in_flight = FALSE /\ maint = MaintInterval
  /\ acks = {} /\ exited = FALSE
  /\ arrived = 0 /\ controls = 0 /\ moves = 0
  /\ settled = {} /\ interrupted = {}
  /\ failures = [i \in 1..MaxEvents |-> 0]

MainLoop(a) == Result(a) \/ Panic(a)

TaskEnds(a) ==
  \/ TurnSucceeds(a)
  \/ \E o \in {"exited", "app_error", "auth_error", "hard_active", "hard_silent"} :
       TurnFails(a, o)
  \/ \E o \in {"cancelled", "drain_timeout", "exited", "app_error"} :
       TurnCancelled(a, o)
  \/ TaskPanics(a)

Next ==
  \/ \E c \in Channel, t \in CreatedAt, o \in BOOLEAN : RelayEvent(c, t, o)
  \/ \E c \in Channel : MemberRemoved(c) \/ MemberAdded(c)
  \/ \E c \in Channel, sig \in {"Cancel", "Rotate", "SwitchModel"} : OwnerControl(c, sig)
  \/ \E a \in Agent : MainLoop(a)
  \/ \E k \in acks : SteerAck(k)
  \/ HeartbeatTick
  \/ LoopTimer
  \/ \E a \in Agent : InitialMessageDone(a) \/ TaskEnds(a) \/ TakeSteer(a)
  \/ \E a \in Agent, kind \in {"success", "rejected", "unknown"} : AnswerSteer(a, kind)
  \/ \E a \in Agent, o \in {"ok", "failed"} : RespawnDone(a, o)
  \/ \E a \in Agent : Cooldown(a)
  \/ Tick

Spec == Init /\ [][Next]_vars

\* The runtime polls the main loop and the tasks: a branch that stays ready is
\* taken, a turn ends (its hard cap sees to that), time passes, a respawn task
\* reports and a timer, where one is configured, fires again and again.  The
\* relay, the owner and the agents' answers to steers owe nothing.
Fairness ==
  /\ \A a \in Agent : /\ WF_vars(MainLoop(a))
                      /\ WF_vars(InitialMessageDone(a))
                      /\ WF_vars(TaskEnds(a))
                      /\ WF_vars(\E o \in {"ok", "failed"} : RespawnDone(a, o))
                      /\ WF_vars(Cooldown(a))
  /\ WF_vars(\E k \in acks : SteerAck(k))
  /\ WF_vars(HeartbeatTick)
  /\ WF_vars(LoopTimer)
  /\ WF_vars(Tick)

FairSpec == Spec /\ Fairness

-----------------------------------------------------------------------------
(* Properties *)

TypeOK ==
  /\ q \in QueueType
  /\ idle \subseteq Agent
  /\ task \in [Agent -> TaskType \cup {None}]
  /\ respawn \in [Agent -> {"no", "flying", "ok", "failed"}]
  /\ circuit \in [Agent -> Circuit]
  /\ removed \subseteq Channel
  /\ heartbeat_in_flight \in BOOLEAN
  /\ maint \in 0..MaintInterval
  /\ exited \in BOOLEAN

Turns == {a \in Busy(task) : task[a].channel_id # None}

HeldIds == UNION {Ids(q.queues[c]) \cup Ids(q.withheld_native_steer[c])
                    \cup Ids(q.cancelled_batches[c]) : c \in Channel}

TurnIds == UNION {BatchIds(task[a].batch) : a \in Busy(task)}

Steering == {task[a].steer_tx : a \in Busy(task)}
              \cup {task[a].pending_steer : a \in Busy(task)}
              \cup {k.event_id : k \in acks}

\* At most one turn runs per channel, and the channel is in flight for as long
\* as it runs: the in-flight deadline never fires under a turn that keeps to
\* max_turn_duration.
OneTurnPerChannel ==
  /\ \A a, b \in Turns : task[a].channel_id = task[b].channel_id => a = b
  /\ \A a \in Turns : task[a].channel_id \in q.in_flight_channels
  /\ \A c \in q.in_flight_channels : \E a \in Turns : task[a].channel_id = c

\* Every agent slot is in exactly one state: an idle agent, a task, a respawn
\* under way, or empty with a circuit that decides about the refill; so
\* return_agent never overwrites an agent, and record_crash never finds the
\* circuit of a running agent open.
OneAgentPerSlot ==
  /\ idle \cap Busy(task) = {}
  /\ \A a \in Agent : respawn[a] # "no" => a \notin idle \cup Busy(task)
  /\ \A a \in Agent : circuit[a].open # "closed" =>
       a \notin idle \cup Busy(task) /\ respawn[a] = "no"

\* The heartbeat flag is set exactly while a heartbeat task exists, whichever
\* way the task ends.
HeartbeatFlag ==
  heartbeat_in_flight <=> \E a \in Busy(task) : task[a].channel_id = None

\* A withheld event always has a steer under way whose answer will release it.
WithheldIsSteering ==
  \A c \in Channel : Ids(q.withheld_native_steer[c]) \subseteq Steering

\* An event given to a running turn by a steer, or settled in another way, is
\* not queued and not in a turn: nothing is delivered a second time.
SettledIsGone == settled \cap (HeldIds \cup TurnIds) = {}

\* A turn works for an event that is nowhere else.
NoDoubleDelivery ==
  /\ HeldIds \cap TurnIds = {}
  /\ \A a, b \in Turns : a # b => BatchIds(task[a].batch) \cap BatchIds(task[b].batch) = {}

Lost == (1..arrived) \ (HeldIds \cup TurnIds \cup settled)

\* An event that disappears without a named reason had been given to an agent
\* before, in a turn that was cancelled: whatever crashes, panics, times out or
\* is steered, an event that no agent has seen is never lost.
OnlyInterruptedLost == Lost \subseteq interrupted

\* Every event that arrived is queued, withheld, in a cancelled batch or in a
\* turn, or has left for a reason the code names: "This prevents event loss when
\* session creation or `session/prompt` fails transiently" (queue.rs 420-421).
NothingLost == Lost = {}

AgentFault ==
  \E a \in Agent :
    \/ RespawnDone(a, "failed")
    \/ TaskPanics(a)
    \/ \E o \in {"exited", "app_error", "auth_error", "hard_active", "hard_silent"} :
         TurnFails(a, o)
    \/ \E o \in {"drain_timeout", "exited", "app_error"} : TurnCancelled(a, o)

Pending == HeldIds \cup TurnIds

\* No event is stranded: once the agents stop failing, every event leaves the
\* queue, the side tables and the turns, even if nothing else ever arrives.
NothingStranded ==
  (<>[][~AgentFault]_vars)
    => \A i \in 1..MaxEvents : <>[](i \notin Pending \/ exited)

\* "After [`MAX_RETRIES`] attempts the batch is dead-lettered" (queue.rs 427): no
\* event is put back after a failed turn more than MaxRetries times.
RetriesBounded == \A i \in 1..MaxEvents : failures[i] <= MaxRetries
=============================================================================
