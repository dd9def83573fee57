---------------------------- MODULE ReplicaFence ----------------------------
(***************************************************************************)
(* The freshness fence that lets read replicas serve pages                 *)
(* (crates/buzz-db/src/replica_fence.rs and the routing in                 *)
(* crates/buzz-db/src/lib.rs).                                             *)
(*                                                                         *)
(* The writer is its sequence of commits.  Transactions insert rows with a *)
(* created_at of the author's choice; a deferred trigger refuses, when the *)
(* transaction commits, rows older than Floor.  Every pod probes the       *)
(* writer: it reads the clock, scans the open and the prepared             *)
(* transactions and, last, commits the next heartbeat token; the token     *)
(* then proves a wall.  A reader replays a prefix of the commits.  A page  *)
(* is served by a reader whose snapshot shows a token that proves enough.  *)
(*                                                                         *)
(* A restore starts a new timeline from a prefix of the writer's commits;  *)
(* a reader may still be on the old one.  faults holds the pods that run   *)
(* and bounds what may still happen.                                       *)
(***************************************************************************)
EXTENDS Integers, FiniteSets, FiniteSetsExt, Sequences

CONSTANTS Pods,          \* relay processes, each with a fence of its own
          Xacts,         \* transactions that insert one row each
          Floor,         \* CREATED_AT_FLOOR_SECS
          Margin,        \* FENCE_CLOCK_MARGIN_SECS
          Budget,        \* replica_read_max_age
          Staleness,     \* FENCE_STALENESS
          RingCapacity,  \* RING_CAPACITY
          CreatedAts,    \* the created_at values authors choose
          MaxClock,      \* bound on time
          FaultPlans,    \* what a behaviour may start with, see faults
          None

ASSUME FenceConstants ==
    /\ Floor \in Nat /\ Margin \in Nat \ {0} /\ Budget \in Nat
    /\ Staleness \in Nat /\ RingCapacity \in Nat \ {0}
    /\ MaxClock \in Nat /\ MaxClock >= Floor + Margin
    /\ CreatedAts \subseteq Int
    /\ IsFiniteSet(Pods)
    /\ FaultPlans \subseteq [pods : SUBSET Pods, beats : Nat, failures : Nat, restores : Nat]
    /\ None \notin Int

VARIABLES clock,    \* clock_timestamp() of the writer
          logs,     \* commits per timeline; the last one is the writer's
          xact,     \* the transactions
          probe,    \* progress of each pod's probe_once
          fence,    \* FenceInner of each pod
          session,  \* a routed read that has observed the heartbeat
          page,     \* the page served from a replica
          faults    \* pods that run; heartbeats, failures and restores left

vars == <<clock, logs, xact, probe, fence, session, page, faults>>
-----------------------------------------------------------------------------
(* The writer. *)

Start == Floor + Margin
Row(x, created) ==
    [kind |-> "row", xact |-> x, created_at |-> created, time |-> clock]
Beat(token, epoch) == [kind |-> "beat", token |-> token, epoch |-> epoch]

Timeline == Len(logs)
Log == logs[Timeline]

(* The single row of replica_heartbeat after the first n commits. *)
HeartbeatAt(log, n) ==
    LET beats == {i \in 1..n : log[i].kind = "beat"}
    IN  IF beats = {} THEN Beat(0, 0) ELSE log[Max(beats)]
Heartbeat == HeartbeatAt(Log, Len(Log))

Commit(entry) == logs' = [logs EXCEPT ![Timeline] = Append(@, entry)]

(* gen_random_uuid: an epoch no timeline has seen. *)
FreshEpoch ==
    1 + Max({0} \cup UNION {{log[i].epoch : i \in {j \in 1..Len(log) : log[j].kind = "beat"}} :
                            log \in {logs[t] : t \in 1..Timeline}})

NewXact == [at |-> "new", start |-> None, created_at |-> None, guard |-> None,
            prepared |-> None]
Finished == [NewXact EXCEPT !.at = "done"]

(* A client opens a transaction and inserts a row.  Writers other than the *)
(* ingest handler do not check created_at at all.                          *)
Begin(x) ==
    /\ xact[x].at = "new"
    /\ \E created \in CreatedAts :
          xact' = [xact EXCEPT ![x] = [@ EXCEPT !.at = "open", !.start = clock,
                                                !.created_at = created]]
    /\ UNCHANGED <<clock, logs, probe, fence, session, page, faults>>

(* The deferred trigger runs inside COMMIT or PREPARE. *)
PassesFloor(created) == created >= clock - Floor

FloorGuard(x) ==
    /\ xact[x].at = "open"
    /\ xact' = [xact EXCEPT ![x] =
                  IF PassesFloor(@.created_at)
                  THEN [@ EXCEPT !.at = "guarded", !.guard = clock]
                  ELSE Finished]
    /\ UNCHANGED <<clock, logs, probe, fence, session, page, faults>>

CommitXact(x) ==
    /\ xact[x].at \in {"guarded", "prepared"}
    /\ Commit(Row(x, xact[x].created_at))
    /\ xact' = [xact EXCEPT ![x] = Finished]
    /\ UNCHANGED <<clock, probe, fence, session, page, faults>>

(* PREPARE TRANSACTION, within the margin after its guard ran: the margin  *)
(* is there to absorb scheduling delays.                                   *)
Prepare(x) ==
    /\ xact[x].at = "guarded"
    /\ clock - xact[x].guard < Margin
    /\ xact' = [xact EXCEPT ![x] = [@ EXCEPT !.at = "prepared",
                                             !.prepared = clock]]
    /\ UNCHANGED <<clock, logs, probe, fence, session, page, faults>>

Tick ==
    /\ clock < MaxClock
    /\ clock' = clock + 1
    /\ UNCHANGED <<logs, xact, probe, fence, session, page, faults>>
-----------------------------------------------------------------------------
(* The fence of a pod. *)

ClosedFence == [epoch |-> None, ring |-> <<>>]

close(f) == [f EXCEPT !.ring = <<>>]

(* Faulty variant: a token that went backwards is recorded like any other. *)
Regressed_never(f, beat) == FALSE

Regressed(f, beat) ==
    /\ f.epoch = beat.epoch
    /\ f.ring # <<>>
    /\ beat.token <= f.ring[Len(f.ring)].token

record(f, beat, committed_at, wall) ==
    IF Regressed(f, beat)
    THEN close(f)
    ELSE LET kept == IF f.epoch = beat.epoch THEN f.ring ELSE <<>>
             room == IF Len(kept) = RingCapacity THEN Tail(kept) ELSE kept
         IN  [epoch |-> beat.epoch,
              ring  |-> Append(room, [token |-> beat.token,
                                      committed_at |-> committed_at,
                                      fence_wall |-> wall])]

(* The greatest retained entry that the observed token proves. *)
resolve(f, observed) ==
    LET proved == {i \in 1..Len(f.ring) : f.ring[i].token <= observed.token}
    IN  IF (f.epoch # None /\ f.epoch # observed.epoch) \/ proved = {}
        THEN None
        ELSE f.ring[Max(proved)]

newest(f) ==
    IF f.ring # <<>> /\ clock - f.ring[Len(f.ring)].committed_at <= Staleness
    THEN f.ring[Len(f.ring)]
    ELSE None

Earliest(times) == IF times \ {None} = {} THEN None ELSE Min(times \ {None})

(* Faulty variant: open transactions do not hold the wall back. *)
fence_wall_of_clock(s, oldest) == s - Floor - Margin

fence_wall(s, oldest) == Earliest({s, oldest}) - Floor - Margin
-----------------------------------------------------------------------------
(* probe_once of a pod; every statement is awaited separately. *)

IdleProbe == [at |-> "idle", sampled_at |-> None, oldest |-> None,
              committed_at |-> None, beat |-> None]

Probing(p, from) == p \in faults.pods /\ probe[p].at = from

SampleClock(p) ==
    /\ Probing(p, "idle")
    /\ probe' = [probe EXCEPT ![p] = [IdleProbe EXCEPT !.at = "scan",
                                                       !.sampled_at = clock]]
    /\ UNCHANGED <<clock, logs, xact, fence, session, page, faults>>

(* One SELECT reads both views, in an order the server chooses, and not at *)
(* one instant: a transaction may leave the one for the other in between.  *)
(* committed_at is taken after both, before the token's update is sent.    *)
Scanned(r, next, found) ==
    LET second == r.at # "scan"
    IN  [r EXCEPT !.at = IF second THEN "token" ELSE next,
                  !.committed_at = IF second THEN clock ELSE None,
                  !.oldest = Earliest({r.oldest} \cup found)]

(* min(xact_start) over pg_stat_activity. *)
ScanActivity(p) ==
    /\ Probing(p, "scan") \/ Probing(p, "activity")
    /\ LET open == {x \in Xacts : xact[x].at \in {"open", "guarded"}}
       IN  probe' = [probe EXCEPT ![p] =
                       Scanned(@, "prepared", {xact[x].start : x \in open})]
    /\ UNCHANGED <<clock, logs, xact, fence, session, page, faults>>

(* min(prepared) over pg_prepared_xacts. *)
ScanPrepared(p) ==
    /\ Probing(p, "scan") \/ Probing(p, "prepared")
    /\ LET prepared == {x \in Xacts : xact[x].at = "prepared"}
       IN  probe' = [probe EXCEPT ![p] =
                       Scanned(@, "activity", {xact[x].prepared : x \in prepared})]
    /\ UNCHANGED <<clock, logs, xact, fence, session, page, faults>>

CommitToken(p) ==
    /\ Probing(p, "token")
    /\ faults.beats > 0
    /\ LET beat == Beat(Heartbeat.token + 1, Heartbeat.epoch)
       IN  /\ Commit(beat)
           /\ probe' = [probe EXCEPT ![p] = [@ EXCEPT !.at = "record",
                                                      !.beat = beat]]
    /\ faults' = [faults EXCEPT !.beats = @ - 1]
    /\ UNCHANGED <<clock, xact, fence, session, page>>

(* Faulty variant: the age of an entry is counted from its recording. *)
CommittedAt_when_recorded(p) == clock

CommittedAt(p) == probe[p].committed_at

Record(p) ==
    /\ Probing(p, "record")
    /\ LET sample == probe[p]
           wall == fence_wall(sample.sampled_at, sample.oldest)
       IN  /\ fence' = [fence EXCEPT ![p] =
                          record(@, sample.beat, CommittedAt(p), wall)]
           /\ probe' = [probe EXCEPT ![p] =
                          IF Regressed(fence[p], sample.beat)
                          THEN [@ EXCEPT !.at = "rotate"] ELSE IdleProbe]
    /\ UNCHANGED <<clock, logs, xact, session, page, faults>>

(* After a regression the probe commits a token under a new epoch, with    *)
(* the wall of the same sample.                                            *)
RotateEpoch(p) ==
    /\ Probing(p, "rotate")
    /\ faults.beats > 0
    /\ LET beat == Beat(Heartbeat.token + 1, FreshEpoch)
       IN  /\ Commit(beat)
           /\ probe' = [probe EXCEPT ![p] = [@ EXCEPT !.at = "record",
                                                      !.committed_at = clock,
                                                      !.beat = beat]]
    /\ faults' = [faults EXCEPT !.beats = @ - 1]
    /\ UNCHANGED <<clock, xact, fence, session, page>>

(* run_probe closes the fence when a statement fails: the writer does not  *)
(* answer, the activity view is masked, the heartbeat row is missing.  The *)
(* answer to an update that was committed may be lost too.                 *)
ProbeFails(p) ==
    /\ p \in faults.pods /\ probe[p].at # "idle"
    /\ faults.failures > 0
    /\ faults' = [faults EXCEPT !.failures = @ - 1]
    /\ probe' = [probe EXCEPT ![p] = IdleProbe]
    /\ fence' = [fence EXCEPT ![p] = close(@)]
    /\ UNCHANGED <<clock, logs, xact, session, page>>

(* A pod starts again with an empty fence. *)
Restart(p) ==
    /\ p \in faults.pods
    /\ faults.failures > 0
    /\ faults' = [faults EXCEPT !.failures = @ - 1]
    /\ probe' = [probe EXCEPT ![p] = IdleProbe]
    /\ fence' = [fence EXCEPT ![p] = ClosedFence]
    /\ session' = IF session # None /\ session.pod = p THEN None ELSE session
    /\ UNCHANGED <<clock, logs, xact, page>>

(* The writer is restored from a backup: a prefix of its commits, the same *)
(* heartbeat epoch.  Open transactions end, prepared ones are gone, and    *)
(* statements in progress fail.                                            *)
Restore ==
    LET interrupted == {p \in faults.pods : probe[p].at \notin {"idle", "record"}}
    IN  /\ faults.restores > 0
        /\ Cardinality(interrupted) <= faults.failures
        /\ faults' = [faults EXCEPT !.restores = @ - 1,
                                    !.failures = @ - Cardinality(interrupted)]
        /\ \E n \in 0..Len(Log) : logs' = Append(logs, SubSeq(Log, 1, n))
        /\ xact' = [x \in Xacts |->
                      IF xact[x].at = "new" THEN xact[x]
                      ELSE Finished]
        /\ probe' = [p \in Pods |-> IF p \in interrupted THEN IdleProbe ELSE probe[p]]
        /\ fence' = [p \in Pods |-> IF p \in interrupted THEN close(fence[p])
                                                         ELSE fence[p]]
        /\ UNCHANGED <<clock, session, page>>
-----------------------------------------------------------------------------
(* Reads. *)

(* proved_reader: the first statement of a REPEATABLE READ transaction     *)
(* observes the heartbeat, which fixes the snapshot.  A reader may have    *)
(* replayed any prefix of any timeline.  Requests do not affect each       *)
(* other, so one of them is followed.                                      *)
Observe(p) ==
    /\ p \in faults.pods
    /\ session = None /\ page = None
    /\ newest(fence[p]) # None
    /\ \E t \in 1..Timeline : \E n \in 0..Len(logs[t]) :
          session' = [pod |-> p, snapshot |-> [timeline |-> t, pos |-> n]]
    /\ UNCHANGED <<clock, logs, xact, probe, fence, page, faults>>

Proved(s) ==
    resolve(fence[s.pod], HeartbeatAt(logs[s.snapshot.timeline], s.snapshot.pos))

(* route_read, the covered arms: the page ends at upper, a bound of the    *)
(* query or the newest row of a full page of replies.                      *)
ServeCovered(upper) ==
    /\ session # None
    /\ Proved(session) # None
    /\ upper <= Proved(session).fence_wall
    /\ page' = [snapshot |-> session.snapshot, upper |-> upper, since |-> None]
    /\ session' = None
    /\ UNCHANGED <<clock, logs, xact, probe, fence, faults>>

(* route_read, the bounded arm. *)
ServeBounded ==
    /\ session # None
    /\ Proved(session) # None
    /\ clock - Proved(session).committed_at <= Budget
    /\ page' = [snapshot |-> session.snapshot, upper |-> None,
                since |-> clock - Budget]
    /\ session' = None
    /\ UNCHANGED <<clock, logs, xact, probe, fence, faults>>

(* Everything else goes to the writer. *)
ServeFromWriter ==
    /\ session # None
    /\ session' = None
    /\ UNCHANGED <<clock, logs, xact, probe, fence, page, faults>>
-----------------------------------------------------------------------------
Init ==
    /\ clock = Start
    /\ logs = <<<<>>>>
    /\ xact = [x \in Xacts |-> NewXact]
    /\ probe = [p \in Pods |-> IdleProbe]
    /\ fence = [p \in Pods |-> ClosedFence]
    /\ session = None
    /\ page = None
    /\ faults \in FaultPlans

Database ==
    \/ Tick \/ Restore
    \/ \E x \in Xacts : Begin(x) \/ FloorGuard(x) \/ CommitXact(x) \/ Prepare(x)

Probe(p) ==
    \/ SampleClock(p) \/ ScanActivity(p) \/ ScanPrepared(p)
    \/ CommitToken(p) \/ Record(p) \/ RotateEpoch(p) \/ ProbeFails(p) \/ Restart(p)

Route ==
    \/ \E p \in Pods : Observe(p)
    \/ \E upper \in CreatedAts : ServeCovered(upper)
    \/ ServeBounded \/ ServeFromWriter

Next == Database \/ Route \/ \E p \in Pods : Probe(p)

Spec == Init /\ [][Next]_vars
-----------------------------------------------------------------------------
TimeOrNone == Nat \cup {None}

Rows == [kind : {"row"}, xact : Xacts, created_at : CreatedAts, time : Nat]
Beats == [kind : {"beat"}, token : Nat \ {0}, epoch : Nat]
XactState == [at : {"new", "open", "guarded", "prepared", "done"}, start : TimeOrNone,
              created_at : CreatedAts \cup {None}, guard : TimeOrNone, prepared : TimeOrNone]
ProbeState == [at : {"idle", "scan", "activity", "prepared", "token", "record", "rotate"},
               sampled_at : TimeOrNone, oldest : TimeOrNone, committed_at : TimeOrNone,
               beat : Beats \cup {None}]
RingEntry == [token : Nat, committed_at : Nat, fence_wall : Int]
Fence == [epoch : Nat \cup {None}, ring : Seq(RingEntry)]
Snapshot == [timeline : Nat, pos : Nat]

TypeOK ==
    /\ clock \in Start..MaxClock
    /\ logs \in Seq(Seq(Rows \cup Beats)) /\ logs # <<>>
    /\ xact \in [Xacts -> XactState]
    /\ probe \in [Pods -> ProbeState]
    /\ fence \in [Pods -> Fence]
    /\ \A p \in Pods :
         /\ Len(fence[p].ring) <= RingCapacity
         /\ \A i, j \in 1..Len(fence[p].ring) :
              i < j => fence[p].ring[i].token < fence[p].ring[j].token
    /\ session \in {None} \cup [pod : Pods, snapshot : Snapshot]
    /\ page \in {None} \cup [snapshot : Snapshot, upper : CreatedAts \cup {None},
                             since : Int \cup {None}]
    /\ faults \in [pods : SUBSET Pods, beats : Nat, failures : Nat, restores : Nat]

(* The rows of a snapshot. *)
Visible(s) == {logs[s.timeline][i].xact :
                 i \in {j \in 1..s.pos : logs[s.timeline][j].kind = "row"}}

WriterRows == {Log[i] : i \in {j \in 1..Len(Log) : Log[j].kind = "row"}}

(* No holes: a page served from a replica under the covered predicate      *)
(* contains every row of the writer up to its upper bound, the rows that   *)
(* transactions commit after the page was served included.                 *)
NoHoles ==
    page # None /\ page.upper # None =>
        \A row \in WriterRows :
            row.created_at <= page.upper => row.xact \in Visible(page.snapshot)

(* Bounded staleness: a page served under the read budget contains every   *)
(* row committed more than the budget before.                              *)
BoundedStaleness ==
    page # None /\ page.since # None =>
        \A row \in WriterRows :
            row.time < page.since => row.xact \in Visible(page.snapshot)
=============================================================================
