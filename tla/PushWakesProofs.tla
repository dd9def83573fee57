-------------------------- MODULE PushWakesProofs --------------------------
(* Invariants of PushWakes for every set of devices, events, matchers and   *)
(* workers, and every bound.                                                *)
EXTENDS PushWakes, TLAPS

-----------------------------------------------------------------------------
(* The inductive invariant *)

(* A wake has an install; the wakes and the jobs that a worker is busy with *)
(* exist.                                                                   *)
RowsExist ==
    /\ \A k \in Keys : outbox[k].state # "none" => outbox[k].install \in Installs
    /\ \A w \in Workers :
         /\ \A k \in worker[w].batch : outbox[k].state # "none"
         /\ worker[w].at \notin {"idle", "deliver"} =>
              worker[w].wake \in Keys /\ outbox[worker[w].wake].state # "none"

(* An event has neither job nor wake before its insertion has committed. *)
Fresh(e) == event[e] \in {"absent", "inserting"}

FreshIsBare ==
    \A e \in Events : Fresh(e) =>
        /\ job[e] = NoJob
        /\ \A p \in Endpoints : outbox[<<p, e>>] = NoWake
        /\ \A m \in Matchers : e \notin matcher[m].batch \cup matcher[m].done

(* A matcher has jobs to complete only once it has enqueued their wakes. *)
DoneIsEnqueued == \A m \in Matchers : matcher[m].at # "settle" => matcher[m].done = {}

(* The quota check makes endpoints unique among an author's active leases. *)
EndpointsUnique ==
    \A i \in Installs : lease[i].active =>
        /\ lease[i].endpoint \in Endpoints
        /\ \A j \in Installs : lease[j].active /\ lease[j].endpoint = lease[i].endpoint => i = j

(* The gate lock: while an event is being inserted no activation is under   *)
(* way, so the trigger has seen every lease that is in effect.              *)
GateHeld ==
    \A e \in Events : event[e] = "inserting" =>
        /\ accepting # None => ~accepting.active
        /\ \A i \in Installs : Effective(i) => gated[e]

(* Only an answer "gone" makes a worker disable a registration. *)
GoneIsInvalid ==
    \A w \in Workers : worker[w].at = "answer" /\ worker[w].response = "gone" =>
        <<outbox[worker[w].wake].install, outbox[worker[w].wake].generation>> \in invalid

(* The lease in effect is the one that was in effect at the insertion. *)
Due(i, e) == Effective(i) /\ <<i, lease[i].generation, e>> \in owed

OwedInThePast ==
    \A i \in Installs, e \in Events, g \in Nat :
        <<i, g, e>> \in owed => g <= lease[i].generation /\ ~Fresh(e)

(* The wake of a lease that is still in effect was made for it. *)
WakeIsForDue ==
    \A i \in Installs, e \in Events : Due(i, e) =>
        LET w == outbox[<<lease[i].endpoint, e>>]
        IN  w.state # "none" => w.install = i /\ w.generation = lease[i].generation

(* A matcher that is about to enqueue has seen the lease; one that is about *)
(* to settle has made the wake.                                             *)
MatcherKnows ==
    \A m \in Matchers, i \in Installs, e \in Events : Due(i, e) /\ member =>
        /\ matcher[m].at = "enqueue" /\ e \in matcher[m].batch =>
             <<i, lease[i].generation>> \in matcher[m].seen
        /\ matcher[m].at = "settle" /\ e \in matcher[m].done =>
             \/ e \in dropped \/ age[e] = "stale"
             \/ outbox[<<lease[i].endpoint, e>>].state # "none"

IInv ==
    /\ TypeOK /\ RowsExist /\ FreshIsBare /\ DoneIsEnqueued /\ EndpointsUnique /\ GateHeld
    /\ GoneIsInvalid /\ DisabledWasGone
    /\ OwedInThePast /\ WakeIsForDue /\ MatcherKnows /\ OwedIsTracked
-----------------------------------------------------------------------------
(* Rows and the updates they go through *)

LEMMA JobRows ==
    /\ NoJob \in JobRow /\ NewJob \in JobRow
    /\ \A r \in JobRow :
         /\ r.state \in {"none", "pending", "matching"} /\ r.claim \in Matchers \cup {None}
         /\ r.lapsed \in BOOLEAN /\ r.attempts \in 0..MaxMatchAttempts
         /\ r.state = "matching" <=> r.claim \in Matchers
         /\ r.state = "none" <=> r = NoJob
         /\ [r EXCEPT !.state = "pending", !.claim = None, !.lapsed = FALSE] \in JobRow
         /\ r.state = "matching" => [r EXCEPT !.lapsed = TRUE] \in JobRow
         /\ \A m \in Matchers : r.attempts < MaxMatchAttempts =>
              [state |-> "matching", claim |-> m, lapsed |-> FALSE,
               attempts |-> r.attempts + 1] \in JobRow
<1> USE PushConstants DEF JobRow, NoJob, NewJob
<1>1. NoJob \in JobRow /\ NewJob \in JobRow
  <2>1. NoJob \in JobRow
    OBVIOUS
  <2>2. \A r \in JobRow : r.attempts = 0 /\ r.claim = None =>
          [r EXCEPT !.state = "pending"] \in JobRow
    OBVIOUS
  <2>3. NoJob.attempts = 0 /\ NoJob.claim = None
    OBVIOUS
  <2> HIDE DEF NoJob, JobRow
  <2> QED
    BY <2>1, <2>2, <2>3
<1>2. ASSUME NEW r \in JobRow
      PROVE  /\ r.state \in {"none", "pending", "matching"} /\ r.claim \in Matchers \cup {None}
             /\ r.lapsed \in BOOLEAN /\ r.attempts \in 0..MaxMatchAttempts
             /\ r.state = "matching" <=> r.claim \in Matchers
             /\ r.state = "none" <=> r = NoJob
  OBVIOUS
<1>3. ASSUME NEW r \in JobRow
      PROVE  [r EXCEPT !.state = "pending", !.claim = None, !.lapsed = FALSE] \in JobRow
  OBVIOUS
<1>4. ASSUME NEW r \in JobRow, r.state = "matching"
      PROVE  [r EXCEPT !.lapsed = TRUE] \in JobRow
  BY <1>4
<1>5. ASSUME NEW r \in JobRow, NEW m \in Matchers, r.attempts < MaxMatchAttempts
      PROVE  [state |-> "matching", claim |-> m, lapsed |-> FALSE,
              attempts |-> r.attempts + 1] \in JobRow
  BY <1>5
<1> QED
  BY <1>1, <1>2, <1>3, <1>4, <1>5, ZenonT(60)

LEMMA WakeRows ==
    /\ NoWake \in WakeRow
    /\ \A r \in WakeRow :
         /\ r.state \in {"none", "pending", "sending", "delivered", "failed"}
         /\ r.install \in Installs \cup {None} /\ r.generation \in Nat
         /\ r.claim \in Workers \cup {None} /\ r.lapsed \in BOOLEAN
         /\ r.attempts \in 0..MaxAttempts
         /\ r.state = "sending" <=> r.claim \in Workers
         /\ r.state = "none" <=> r = NoWake
         /\ \A s \in {"pending", "delivered", "failed"} :
              [r EXCEPT !.state = s, !.claim = None, !.lapsed = FALSE] \in WakeRow
         /\ r.state = "sending" => [r EXCEPT !.lapsed = TRUE] \in WakeRow
         /\ \A w \in Workers :
              [r EXCEPT !.state = "sending", !.claim = w, !.lapsed = FALSE,
                        !.attempts = Capped(r.attempts + 1)] \in WakeRow
    /\ \A i \in Installs, g \in Nat :
         [NoWake EXCEPT !.state = "pending", !.install = i, !.generation = g] \in WakeRow
<1> USE PushConstants DEF WakeRow, NoWake
<1>1. NoWake \in WakeRow
  OBVIOUS
<1>2. ASSUME NEW r \in WakeRow
      PROVE  /\ r.state \in {"none", "pending", "sending", "delivered", "failed"}
             /\ r.install \in Installs \cup {None} /\ r.generation \in Nat
             /\ r.claim \in Workers \cup {None} /\ r.lapsed \in BOOLEAN
             /\ r.attempts \in 0..MaxAttempts
             /\ r.state = "sending" <=> r.claim \in Workers
             /\ r.state = "none" <=> r = NoWake
  OBVIOUS
<1>3. ASSUME NEW r \in WakeRow, NEW s \in {"pending", "delivered", "failed"}
      PROVE  [r EXCEPT !.state = s, !.claim = None, !.lapsed = FALSE] \in WakeRow
  OBVIOUS
<1>4. ASSUME NEW r \in WakeRow, r.state = "sending"
      PROVE  [r EXCEPT !.lapsed = TRUE] \in WakeRow
  BY <1>4
<1>5. ASSUME NEW r \in WakeRow, NEW w \in Workers
      PROVE  [r EXCEPT !.state = "sending", !.claim = w, !.lapsed = FALSE,
                       !.attempts = Capped(r.attempts + 1)] \in WakeRow
  <2>1. Capped(r.attempts + 1) \in 0..MaxAttempts
    BY DEF Capped
  <2> QED
    BY <2>1
<1>6. ASSUME NEW i \in Installs, NEW g \in Nat
      PROVE  [NoWake EXCEPT !.state = "pending", !.install = i, !.generation = g] \in WakeRow
  <2>1. \A r \in WakeRow : r.claim = None =>
          [r EXCEPT !.state = "pending", !.install = i, !.generation = g] \in WakeRow
    OBVIOUS
  <2>2. NoWake.claim = None
    OBVIOUS
  <2> HIDE DEF NoWake, WakeRow
  <2> QED
    BY <1>1, <2>1, <2>2
<1> HIDE DEF WakeRow, NoWake
<1> QED
  BY <1>1, <1>2, <1>3, <1>4, <1>5, <1>6
LEMMA MatcherRows ==
    /\ IdleMatcher \in MatcherState
    /\ IdleMatcher.at = "idle" /\ IdleMatcher.batch = {}
    /\ \A b \in SUBSET Events :
         LET r == [IdleMatcher EXCEPT !.at = "load", !.batch = b]
         IN  r \in MatcherState /\ r.at = "load" /\ r.batch = b
<1>1. IdleMatcher \in MatcherState
  BY DEF IdleMatcher, MatcherState
<1>2. IdleMatcher.at = "idle" /\ IdleMatcher.batch = {}
  BY DEF IdleMatcher
<1>3. \A r \in MatcherState, b \in SUBSET Events :
        LET n == [r EXCEPT !.at = "load", !.batch = b]
        IN  n \in MatcherState /\ n.at = "load" /\ n.batch = b
  BY DEF MatcherState
<1> QED
  BY <1>1, <1>2, <1>3

(* The row of a worker that goes on with the wakes in b. *)
Onward(b) == IF b = {} THEN IdleWorker ELSE [IdleWorker EXCEPT !.at = "deliver", !.batch = b]

LEMMA WorkerRows ==
    /\ IdleWorker \in WorkerState /\ IdleWorker.at = "idle" /\ IdleWorker.batch = {}
    /\ \A b \in SUBSET Keys :
         /\ Onward(b) \in WorkerState /\ Onward(b).at \in {"idle", "deliver"} /\ Onward(b).batch = b
         /\ b # {} => Onward(b).at = "deliver"
<1>1. IdleWorker \in WorkerState
  BY DEF IdleWorker, WorkerState
<1>2. IdleWorker.at = "idle" /\ IdleWorker.batch = {}
  BY DEF IdleWorker
<1>3. \A r \in WorkerState, b \in SUBSET Keys :
        LET n == [r EXCEPT !.at = "deliver", !.batch = b]
        IN  n \in WorkerState /\ n.at = "deliver" /\ n.batch = b
  BY DEF WorkerState
<1> QED
  BY <1>1, <1>2, <1>3 DEF Onward

LEMMA LeaseRows ==
    /\ NoLease \in LeaseRow
    /\ \A v \in LeaseEvents :
         [order |-> v.order, generation |-> v.generation, active |-> v.active,
          enabled |-> TRUE, endpoint |-> v.endpoint, expired |-> FALSE] \in LeaseRow
    /\ \A r \in LeaseRow : /\ [r EXCEPT !.expired = TRUE] \in LeaseRow
                           /\ [r EXCEPT !.enabled = FALSE] \in LeaseRow
  BY PushConstants DEF LeaseRow, NoLease

-----------------------------------------------------------------------------
(* Types *)

LEMMA FaultTypes == MaxFaults \in Nat /\ (faults \in 0..MaxFaults /\ Fault => faults' \in 0..MaxFaults)
  BY PushConstants DEF Fault

LEMMA TypeInit == Init => TypeOK
<1>1. NoJob \in JobRow /\ NoWake \in WakeRow /\ IdleMatcher \in MatcherState
      /\ IdleWorker \in WorkerState /\ NoLease \in LeaseRow
  BY JobRows, WakeRows, MatcherRows, WorkerRows, LeaseRows
<1>2. MaxFaults \in 0..MaxFaults
  BY PushConstants
<1> SUFFICES ASSUME Init PROVE TypeOK
  OBVIOUS
<1>3. lease \in [Installs -> LeaseRow] /\ job \in [Events -> JobRow] /\ outbox \in [Keys -> WakeRow]
  BY <1>1 DEF Init
<1>4. matcher \in [Matchers -> MatcherState] /\ worker \in [Workers -> WorkerState]
  BY <1>1 DEF Init
<1>5. /\ event \in [Events -> {"absent", "inserting", "live", "deleted"}]
      /\ age \in [Events -> {"recent", "useful", "stale"}]
  BY DEF Init
<1>6. gated \in [Events -> BOOLEAN] /\ refused \in BOOLEAN /\ member \in BOOLEAN
  BY DEF Init
<1> QED
  BY <1>2, <1>3, <1>4, <1>5, <1>6 DEF Init, TypeOK

LEMMA LeaseTypes ==
    ASSUME TypeOK,
           \/ \E v \in LeaseEvents : AcceptBegin(v)
           \/ AcceptCommit
           \/ \E i \in Installs : ExpireLease(i)
    PROVE  TypeOK'
<1>1. CASE \E v \in LeaseEvents : AcceptBegin(v)
  BY <1>1 DEF AcceptBegin, TypeOK, source, history
<1>2. CASE AcceptCommit
  <2>1. accepting \in LeaseEvents
    BY <1>2 DEF AcceptCommit, TypeOK
  <2>2. lease' \in [Installs -> LeaseRow]
    BY <1>2, <2>1, LeaseRows DEF AcceptCommit, TypeOK
  <2>3. job' \in [Events -> JobRow]
    BY <1>2, <2>1, JobRows DEF AcceptCommit, TypeOK, Backfilled
  <2>4. refused' \in BOOLEAN
    BY <1>2 DEF AcceptCommit, TypeOK, Wins, CleanupFails
  <2> QED
    BY <1>2, <2>2, <2>3, <2>4 DEF AcceptCommit, TypeOK, source, history
<1>3. CASE \E i \in Installs : ExpireLease(i)
  <2> PICK i \in Installs : ExpireLease(i)
    BY <1>3
  <2>1. lease' \in [Installs -> LeaseRow]
    BY LeaseRows DEF ExpireLease, TypeOK
  <2>2. faults' \in 0..MaxFaults
    BY FaultTypes DEF ExpireLease, TypeOK
  <2> QED
    BY <2>1, <2>2 DEF ExpireLease, TypeOK, source, history
<1> QED
  BY <1>1, <1>2, <1>3

LEMMA EventTypes ==
    ASSUME TypeOK,
           \/ \E e \in Events : InsertBegin(e) \/ InsertCommit(e) \/ Delete(e) \/ Older(e) \/ LapseJob(e)
           \/ LeaveChannel \/ Reap
    PROVE  TypeOK'
<1> USE FaultTypes DEF TypeOK, leasing, source, history
<1>1. ASSUME NEW e \in Events, InsertBegin(e) PROVE TypeOK'
  BY <1>1 DEF InsertBegin
<1>2. ASSUME NEW e \in Events, InsertCommit(e) PROVE TypeOK'
  BY <1>2, JobRows DEF InsertCommit
<1>3. ASSUME NEW e \in Events, Delete(e) PROVE TypeOK'
  BY <1>3 DEF Delete
<1>4. ASSUME NEW e \in Events, Older(e) PROVE TypeOK'
  BY <1>4 DEF Older
<1>5. ASSUME NEW e \in Events, LapseJob(e) PROVE TypeOK'
  BY <1>5, JobRows DEF LapseJob
<1>6. CASE LeaveChannel
  BY <1>6 DEF LeaveChannel
<1>7. CASE Reap
  BY <1>7, JobRows DEF Reap
<1> QED
  BY <1>1, <1>2, <1>3, <1>4, <1>5, <1>6, <1>7
LEMMA RequestsInstalls == \A m, e : Requests(m, e) \subseteq Installs
  BY DEF Requests

LEMMA MatchTypes ==
    ASSUME TypeOK, NEW m \in Matchers, Match(m) \/ MatcherCrash(m)
    PROVE  TypeOK'
<1> USE DEF leasing, source, history
<1>1. CASE ClaimJobs(m)
  <2> PICK batch \in (SUBSET DueJobs) \ {{}} :
         /\ job' = [e \in Events |->
                      IF e \in batch
                      THEN [state |-> "matching", claim |-> m, lapsed |-> FALSE,
                            attempts |-> job[e].attempts + 1]
                      ELSE job[e]]
         /\ matcher' = [matcher EXCEPT ![m] = [IdleMatcher EXCEPT !.at = "load", !.batch = batch]]
    BY <1>1 DEF ClaimJobs
  <2>1. job' \in [Events -> JobRow]
    BY JobRows DEF TypeOK, DueJobs
  <2>2. batch \in SUBSET Events
    BY DEF DueJobs
  <2>3. matcher' \in [Matchers -> MatcherState]
    BY <2>2, MatcherRows DEF TypeOK
  <2> QED
    BY <1>1, <2>1, <2>3 DEF ClaimJobs, TypeOK
<1>2. CASE LoadEvents(m)
  <2>1. job' \in [Events -> JobRow]
    BY <1>2, JobRows DEF LoadEvents, TypeOK
  <2>2. \A b \in SUBSET Events, r \in MatcherState :
          [r EXCEPT !.at = "context", !.batch = b] \in MatcherState
    BY DEF MatcherState
  <2>3. {e \in matcher[m].batch : event[e] = "live"} \in SUBSET Events
    BY DEF TypeOK, MatcherState
  <2>4. matcher' \in [Matchers -> MatcherState]
    BY <1>2, <2>2, <2>3, MatcherRows DEF LoadEvents, TypeOK
  <2> QED
    BY <1>2, <2>1, <2>4 DEF LoadEvents, TypeOK
<1>3. CASE LoadContext(m)
  <2>1. {<<i, lease[i].generation>> : i \in {j \in Installs : Effective(j) /\ member}}
          \in SUBSET (Installs \X Nat)
    BY DEF TypeOK, LeaseRow
  <2>2. matcher' \in [Matchers -> MatcherState]
    <3>1. \A r \in MatcherState, s \in SUBSET (Installs \X Nat) :
            /\ [r EXCEPT !.at = "enqueue", !.seen = s] \in MatcherState
            /\ [r EXCEPT !.at = "retry", !.again = r.batch] \in MatcherState
      BY DEF MatcherState
    <3>2. \/ \E s \in SUBSET (Installs \X Nat) :
               matcher' = [matcher EXCEPT ![m].at = "enqueue", ![m].seen = s]
          \/ matcher' = [matcher EXCEPT ![m].at = "retry", ![m].again = matcher[m].batch]
      BY <1>3, <2>1 DEF LoadContext
    <3>3. ASSUME NEW s \in SUBSET (Installs \X Nat),
                 matcher' = [matcher EXCEPT ![m].at = "enqueue", ![m].seen = s]
          PROVE  matcher' \in [Matchers -> MatcherState]
      BY <3>1, <3>3 DEF TypeOK
    <3>4. CASE matcher' = [matcher EXCEPT ![m].at = "retry", ![m].again = matcher[m].batch]
      <4>1. matcher \in [Matchers -> MatcherState] /\ matcher[m] \in MatcherState
        BY DEF TypeOK
      <4>2. matcher' = [matcher EXCEPT ![m] = [matcher[m] EXCEPT !.at = "retry", !.again = matcher[m].batch]]
        BY <3>4, <4>1
      <4>3. [matcher[m] EXCEPT !.at = "retry", !.again = matcher[m].batch] \in MatcherState
        BY <3>1, <4>1
      <4> QED
        BY <4>1, <4>2, <4>3
    <3> QED
      BY <3>2, <3>3, <3>4
  <2>3. faults' \in 0..MaxFaults
    BY <1>3, FaultTypes DEF LoadContext, TypeOK
  <2> QED
    BY <1>3, <2>2, <2>3 DEF LoadContext, TypeOK
<1>4. CASE Enqueue(m)
  <2>0. PICK bad \in SUBSET matcher[m].batch : Enqueue(m)!2!(bad)
    BY <1>4 DEF Enqueue
  <2> DEFINE good == matcher[m].batch \ bad
             last == GivenUp(m, bad)
  <2>1. faults' \in 0..MaxFaults
    BY <2>0, FaultTypes DEF TypeOK
  <2>2. matcher' \in [Matchers -> MatcherState]
    <3>1. good \cup last \in SUBSET Events /\ bad \ last \in SUBSET Events
      BY DEF TypeOK, MatcherState, GivenUp
    <3>2. matcher' = [matcher EXCEPT ![m].at = "settle", ![m].done = good \cup last,
                                     ![m].again = bad \ last]
      BY <2>0
    <3>3. \A r \in MatcherState, d \in SUBSET Events, a \in SUBSET Events :
            [r EXCEPT !.at = "settle", !.done = d, !.again = a] \in MatcherState
      BY DEF MatcherState
    <3> HIDE DEF good, last
    <3> QED
      BY <3>1, <3>2, <3>3 DEF TypeOK
  <2>3. ASSUME NEW k \in Keys, \E i \in Requests(m, k[2]) : lease[i].endpoint = k[1]
        PROVE  LET i == CHOOSE j \in Requests(m, k[2]) : lease[j].endpoint = k[1]
               IN  [NoWake EXCEPT !.state = "pending", !.install = i,
                                  !.generation = lease[i].generation] \in WakeRow
    <3> DEFINE i == CHOOSE j \in Requests(m, k[2]) : lease[j].endpoint = k[1]
    <3>1. i \in Requests(m, k[2])
      BY <2>3
    <3> HIDE DEF i
    <3>2. i \in Installs
      BY <3>1, RequestsInstalls
    <3>3. lease[i].generation \in Nat
      BY <3>2 DEF TypeOK, LeaseRow
    <3>4. [NoWake EXCEPT !.state = "pending", !.install = i,
                         !.generation = lease[i].generation] \in WakeRow
      BY <3>2, <3>3, WakeRows
    <3> QED
      BY <3>4 DEF i
  <2>4. outbox' \in [Keys -> WakeRow]
    BY <2>0, <2>3 DEF TypeOK
  <2> QED
    BY <1>4, <2>1, <2>2, <2>4 DEF Enqueue, TypeOK
<1>5. CASE CompleteJobs(m)
  <2>1. job' \in [Events -> JobRow]
    BY <1>5, JobRows DEF CompleteJobs, TypeOK
  <2>2. matcher' \in [Matchers -> MatcherState]
    <3>1. \A r \in MatcherState : [r EXCEPT !.at = "retry", !.done = {}] \in MatcherState
      BY DEF MatcherState
    <3> QED
      BY <1>5, <3>1 DEF CompleteJobs, TypeOK
  <2>3. faults' \in 0..MaxFaults
    BY <1>5, FaultTypes DEF CompleteJobs, TypeOK
  <2> QED
    BY <1>5, <2>1, <2>2, <2>3 DEF CompleteJobs, TypeOK
<1>6. CASE RetryJobs(m)
  <2>1. job' \in [Events -> JobRow]
    <3>1. \A r \in JobRow :
            [r EXCEPT !.state = "pending", !.claim = None, !.lapsed = FALSE] \in JobRow
      BY JobRows
    <3> QED
      BY <1>6, <3>1 DEF RetryJobs, TypeOK
  <2>2. matcher' \in [Matchers -> MatcherState]
    BY <1>6, MatcherRows DEF RetryJobs, TypeOK
  <2>3. faults' \in 0..MaxFaults
    BY <1>6, FaultTypes DEF RetryJobs, TypeOK
  <2> QED
    BY <1>6, <2>1, <2>2, <2>3 DEF RetryJobs, TypeOK
<1>7. CASE MatcherCrash(m)
  BY <1>7, MatcherRows, FaultTypes DEF MatcherCrash, TypeOK
<1> QED
  BY <1>1, <1>2, <1>3, <1>4, <1>5, <1>6, <1>7 DEF Match

LEMMA VerdictStates ==
    ASSUME NEW r, NEW n PROVE Verdict(r, n) \in {"pending", "delivered", "failed"}
  BY DEF Verdict

LEMMA ConcludeTypes ==
    ASSUME TypeOK, NEW w, NEW k, NEW s \in {"pending", "delivered", "failed"}, Conclude(w, k, s)
    PROVE  outbox' \in [Keys -> WakeRow]
  BY WakeRows DEF Conclude, TypeOK

LEMMA GoOnTypes ==
    ASSUME TypeOK, NEW w \in Workers, NEW b \in SUBSET Keys, GoOn(w, b)
    PROVE  worker' \in [Workers -> WorkerState] /\ worker' = [worker EXCEPT ![w] = Onward(b)]
  BY WorkerRows DEF GoOn, TypeOK, Onward

LEMMA DeliverTypes ==
    ASSUME TypeOK, NEW w \in Workers, Deliver(w) \/ LeaveToClaim(w) \/ WorkerCrash(w)
    PROVE  TypeOK'
<1> USE DEF leasing, source, history
<1>0. worker[w].batch \in SUBSET Keys
  BY DEF TypeOK, WorkerState
<1>1. CASE ClaimWakes(w)
  <2>0. PICK batch \in (SUBSET DueWakes) \ {{}} : ClaimWakes(w)!2!(batch)
    BY <1>1 DEF ClaimWakes
  <2>1. outbox' \in [Keys -> WakeRow]
    <3>1. \A r \in WakeRow :
            [r EXCEPT !.state = "sending", !.claim = w, !.lapsed = FALSE,
                      !.attempts = Capped(r.attempts + 1)] \in WakeRow
      BY WakeRows
    <3> QED
      BY <2>0, <3>1 DEF TypeOK
  <2>2. batch \in SUBSET Keys /\ batch # {}
    BY <2>0 DEF DueWakes
  <2>3. worker' = [worker EXCEPT ![w] = Onward(batch)]
    BY <2>0, <2>2 DEF Onward
  <2>4. worker' \in [Workers -> WorkerState]
    BY <2>2, <2>3, WorkerRows DEF TypeOK
  <2> QED
    BY <1>1, <2>1, <2>4 DEF ClaimWakes, TypeOK
<1>2. CASE Revalidate(w)
  <2>1. worker' \in [Workers -> WorkerState]
    BY <1>0, <1>2 DEF Revalidate, TypeOK, WorkerState
  <2> QED
    BY <1>2, <2>1 DEF Revalidate, TypeOK
<1>3. CASE Suppress(w)
  BY <1>0, <1>3, ConcludeTypes, GoOnTypes DEF Suppress, TypeOK
<1>4. CASE IsMember(w)
  <2>1. worker' \in [Workers -> WorkerState]
    <3>1. CASE Proceed(w, IF member THEN "final" ELSE "suppress")
      BY <3>1 DEF Proceed, TypeOK, WorkerState
    <3> QED
      BY <1>0, <1>4, <3>1, GoOnTypes DEF IsMember
  <2>2. outbox' \in [Keys -> WakeRow]
    BY <1>4, ConcludeTypes DEF IsMember, TypeOK
  <2>3. faults' \in 0..MaxFaults
    BY <1>4, FaultTypes DEF IsMember, TypeOK
  <2> QED
    BY <1>4, <2>1, <2>2, <2>3 DEF IsMember, TypeOK
<1>5. CASE RevalidateAgain(w)
  <2>1. worker' \in [Workers -> WorkerState]
    BY <1>5 DEF RevalidateAgain, Proceed, TypeOK, WorkerState
  <2> QED
    BY <1>5, <2>1 DEF RevalidateAgain, TypeOK
<1>6. CASE Send(w)
  <2>1. worker' \in [Workers -> WorkerState]
    <3>1. PICK r \in Responses : worker' = [worker EXCEPT ![w].at = "answer", ![w].response = r]
      BY <1>6 DEF Send
    <3> QED
      BY <3>1, ZenonT(60) DEF TypeOK, WorkerState
  <2> QED
    BY <1>6, <2>1 DEF Send, TypeOK
<1>7. CASE Answer(w)
  BY <1>0, <1>7, ConcludeTypes, GoOnTypes, VerdictStates DEF Answer, TypeOK
<1>8. CASE EndpointGone(w)
  <2>1. worker' \in [Workers -> WorkerState]
    BY <1>8 DEF EndpointGone, Proceed, TypeOK, WorkerState
  <2>2. lease' \in [Installs -> LeaseRow]
    BY <1>8, LeaseRows DEF EndpointGone, Disable, TypeOK
  <2> QED
    BY <1>8, <2>1, <2>2 DEF EndpointGone, TypeOK
<1>9. CASE LeaveToClaim(w)
  <2>1. worker' \in [Workers -> WorkerState]
    BY <1>0, <1>9, GoOnTypes DEF LeaveToClaim
  <2>2. faults' \in 0..MaxFaults
    BY <1>9, FaultTypes DEF LeaveToClaim, TypeOK
  <2> QED
    BY <1>9, <2>1, <2>2 DEF LeaveToClaim, TypeOK
<1>10. CASE WorkerCrash(w)
  BY <1>10, WorkerRows, FaultTypes DEF WorkerCrash, TypeOK
<1> QED
  BY <1>1, <1>2, <1>3, <1>4, <1>5, <1>6, <1>7, <1>8, <1>9, <1>10 DEF Deliver

LEMMA TypeStep == TypeOK /\ [Next]_vars => TypeOK'
<1> SUFFICES ASSUME TypeOK, [Next]_vars PROVE TypeOK'
  OBVIOUS
<1>1. ASSUME NEW k \in Keys, LapseWake(k) PROVE TypeOK'
  <2>1. outbox' \in [Keys -> WakeRow]
    BY <1>1, WakeRows DEF LapseWake, TypeOK
  <2>2. faults' \in 0..MaxFaults
    BY <1>1, FaultTypes DEF LapseWake, TypeOK
  <2> QED
    BY <1>1, <2>1, <2>2 DEF LapseWake, TypeOK, leasing, source, history
<1>2. CASE UNCHANGED vars
  BY <1>2 DEF vars, TypeOK
<1> QED
  BY <1>1, <1>2, LeaseTypes, EventTypes, MatchTypes, DeliverTypes DEF Next

(* The tables of the push pipeline and the state of its workers keep their  *)
(* types: a row is claimed exactly while it is worked on, attempts stay     *)
(* within their limits, and an absent row carries nothing.                  *)
THEOREM TypeCorrect == Spec => []TypeOK
  BY TypeInit, TypeStep, PTL DEF Spec
-----------------------------------------------------------------------------
(* What a step may do to each table *)

(* A worker settles, retries or fails the wake it has in hand and goes on. *)
Concludes(w, s) ==
    /\ Conclude(w, worker[w].wake, s) /\ GoOn(w, worker[w].batch)
    /\ worker[w].at \in {"suppress", "member", "answer"}

LEMMA OutboxWriters ==
    ASSUME [Next]_vars
    PROVE  \/ outbox' = outbox
           \/ \E m \in Matchers : Enqueue(m)
           \/ \E w \in Workers : ClaimWakes(w)
           \/ \E w \in Workers, s \in {"pending", "delivered", "failed"} : Concludes(w, s)
           \/ \E k \in Keys : LapseWake(k)
<1> USE DEF leasing, source, history
<1>1. ASSUME NEW w \in Workers, Deliver(w), ~ClaimWakes(w)
      PROVE  \/ outbox' = outbox
             \/ \E s \in {"pending", "delivered", "failed"} : Concludes(w, s)
  BY <1>1, VerdictStates
     DEF Concludes, Deliver, Revalidate, Suppress, IsMember, RevalidateAgain, Send, Answer, EndpointGone
<1>2. ASSUME NEW m \in Matchers, Match(m), ~Enqueue(m) PROVE outbox' = outbox
  BY <1>2 DEF Match, ClaimJobs, LoadEvents, LoadContext, CompleteJobs, RetryJobs
<1>3. ASSUME NEW e \in Events,
             InsertBegin(e) \/ InsertCommit(e) \/ Delete(e) \/ Older(e) \/ LapseJob(e)
      PROVE  outbox' = outbox
  BY <1>3 DEF InsertBegin, InsertCommit, Delete, Older, LapseJob
<1>4. ASSUME \/ \E v \in LeaseEvents : AcceptBegin(v)
             \/ AcceptCommit \/ LeaveChannel \/ Reap
             \/ \E i \in Installs : ExpireLease(i)
             \/ \E m \in Matchers : MatcherCrash(m)
             \/ \E w \in Workers : LeaveToClaim(w) \/ WorkerCrash(w)
             \/ UNCHANGED vars
      PROVE  outbox' = outbox
  BY <1>4 DEF AcceptBegin, AcceptCommit, LeaveChannel, Reap, ExpireLease, MatcherCrash,
              LeaveToClaim, WorkerCrash, vars
<1> QED
  BY <1>1, <1>2, <1>3, <1>4 DEF Next

(* A wake, once it exists, stays and keeps its install and generation; only *)
(* a matcher makes one.                                                     *)
LEMMA WakeStep ==
    ASSUME TypeOK, [Next]_vars, NEW k \in Keys
    PROVE  /\ outbox[k].state # "none" =>
                /\ outbox'[k].state # "none"
                /\ outbox'[k].install = outbox[k].install
                /\ outbox'[k].generation = outbox[k].generation
           /\ outbox[k].state = "none" =>
                outbox'[k] = outbox[k] \/ \E m \in Matchers : Enqueue(m)
<1>0. outbox \in [Keys -> WakeRow] /\ outbox[k] \in WakeRow /\ (outbox[k].state = "none" <=> outbox[k] = NoWake)
  BY WakeRows DEF TypeOK
<1>1. ASSUME NEW m \in Matchers, Enqueue(m), outbox[k].state # "none" PROVE outbox'[k] = outbox[k]
  BY <1>0, <1>1 DEF Enqueue
<1>2. ASSUME NEW w \in Workers, ClaimWakes(w)
      PROVE  \/ outbox'[k] = outbox[k]
             \/ /\ outbox[k].state # "none"
                /\ outbox'[k] = [outbox[k] EXCEPT !.state = "sending", !.claim = w, !.lapsed = FALSE,
                                                  !.attempts = Capped(outbox[k].attempts + 1)]
  <2>1. \A batch \in (SUBSET DueWakes) \ {{}} : k \in batch => outbox[k].state # "none"
    BY DEF DueWakes, Lapsed
  <2> QED
    BY <1>0, <1>2, <2>1 DEF ClaimWakes
<1>3. ASSUME NEW w \in Workers, NEW s \in {"pending", "delivered", "failed"},
             Concludes(w, s)
      PROVE  \/ outbox'[k] = outbox[k]
             \/ /\ Holding(w, k)
                /\ outbox'[k] = [outbox[k] EXCEPT !.state = s, !.claim = None, !.lapsed = FALSE]
  BY <1>0, <1>3 DEF Concludes, Conclude, Holding
<1>4. ASSUME NEW j \in Keys, LapseWake(j)
      PROVE  \/ outbox'[k] = outbox[k]
             \/ outbox[k].state # "none" /\ outbox'[k] = [outbox[k] EXCEPT !.lapsed = TRUE]
  BY <1>0, <1>4 DEF LapseWake
<1>5. CASE \E m \in Matchers : Enqueue(m)
  BY <1>1, <1>5
<1>6. CASE \E w \in Workers : ClaimWakes(w)
  <2>0. PICK w \in Workers : ClaimWakes(w)
    BY <1>6
  <2>1. CASE outbox'[k] = [outbox[k] EXCEPT !.state = "sending", !.claim = w, !.lapsed = FALSE,
                                              !.attempts = Capped(outbox[k].attempts + 1)]
    <3>1. /\ outbox'[k].state = "sending" /\ outbox'[k].install = outbox[k].install
          /\ outbox'[k].generation = outbox[k].generation
      BY <1>0, <2>1 DEF WakeRow
    <3> QED
      BY <1>0, <2>0, <2>1, <3>1, <1>2
  <2> QED
    BY <2>0, <2>1, <1>2
<1>7. CASE \E w \in Workers, s \in {"pending", "delivered", "failed"} : Concludes(w, s)
  <2>0. PICK w \in Workers, s \in {"pending", "delivered", "failed"} : Concludes(w, s)
    BY <1>7
  <2>1. CASE outbox'[k] = [outbox[k] EXCEPT !.state = s, !.claim = None, !.lapsed = FALSE]
    <3>1. /\ outbox'[k].state = s /\ outbox'[k].install = outbox[k].install
          /\ outbox'[k].generation = outbox[k].generation
      BY <1>0, <2>1 DEF WakeRow
    <3> QED
      BY <1>0, <2>0, <2>1, <3>1, <1>3 DEF Holding
  <2> QED
    BY <2>0, <2>1, <1>3
<1>8. CASE \E j \in Keys : LapseWake(j)
  <2>0. PICK j \in Keys : LapseWake(j)
    BY <1>8
  <2>1. CASE outbox'[k] = [outbox[k] EXCEPT !.lapsed = TRUE]
    <3>1. /\ outbox'[k].state = outbox[k].state /\ outbox'[k].install = outbox[k].install
          /\ outbox'[k].generation = outbox[k].generation
      BY <1>0, <2>1 DEF WakeRow
    <3> QED
      BY <1>0, <2>0, <2>1, <3>1, <1>4
  <2> QED
    BY <2>0, <2>1, <1>4
<1> QED
  BY <1>5, <1>6, <1>7, <1>8, OutboxWriters

LEMMA LeaseWriters ==
    ASSUME [Next]_vars
    PROVE  \/ lease' = lease
           \/ AcceptCommit
           \/ \E i \in Installs : ExpireLease(i)
           \/ \E w \in Workers : EndpointGone(w)
<1> USE DEF leasing, source, history
<1>1. ASSUME NEW w \in Workers, Deliver(w) \/ LeaveToClaim(w) \/ WorkerCrash(w), ~EndpointGone(w)
      PROVE  lease' = lease
  BY <1>1 DEF Deliver, ClaimWakes, Revalidate, Suppress, IsMember, RevalidateAgain, Send, Answer,
              LeaveToClaim, WorkerCrash
<1>2. ASSUME NEW m \in Matchers, Match(m) \/ MatcherCrash(m) PROVE lease' = lease
  BY <1>2 DEF Match, ClaimJobs, LoadEvents, LoadContext, Enqueue, CompleteJobs, RetryJobs,
              MatcherCrash
<1>3. ASSUME NEW e \in Events,
             InsertBegin(e) \/ InsertCommit(e) \/ Delete(e) \/ Older(e) \/ LapseJob(e)
      PROVE  lease' = lease
  BY <1>3 DEF InsertBegin, InsertCommit, Delete, Older, LapseJob
<1>4. ASSUME \/ \E v \in LeaseEvents : AcceptBegin(v)
             \/ LeaveChannel \/ Reap
             \/ \E k \in Keys : LapseWake(k)
             \/ UNCHANGED vars
      PROVE  lease' = lease
  BY <1>4 DEF AcceptBegin, LeaveChannel, Reap, LapseWake, vars
<1> QED
  BY <1>1, <1>2, <1>3, <1>4 DEF Next

(* A lease is replaced by one with a greater generation, or it can only     *)
(* stop being in effect.                                                    *)
LEMMA LeaseStep ==
    ASSUME TypeOK, [Next]_vars, NEW i \in Installs
    PROVE  \/ lease'[i].generation > lease[i].generation
           \/ /\ lease'[i].generation = lease[i].generation
              /\ lease'[i].endpoint = lease[i].endpoint
              /\ lease'[i].active = lease[i].active
              /\ Effective(i)' => Effective(i)
<1>0. lease \in [Installs -> LeaseRow] /\ lease[i] \in LeaseRow
  BY DEF TypeOK
<1>1. CASE AcceptCommit
  <2>1. lease'[i] = lease[i] \/ (accepting.install = i /\ Wins(accepting)
                                 /\ lease'[i].generation = accepting.generation)
    BY <1>0, <1>1 DEF AcceptCommit
  <2> QED
    BY <2>1 DEF Wins, Effective
<1>2. CASE \E j \in Installs : ExpireLease(j)
  <2>1. lease'[i] = lease[i] \/ lease'[i] = [lease[i] EXCEPT !.expired = TRUE]
    BY <1>0, <1>2 DEF ExpireLease
  <2>2. CASE lease'[i] = [lease[i] EXCEPT !.expired = TRUE]
    BY <1>0, <2>2 DEF LeaseRow, Effective
  <2> QED
    BY <2>1, <2>2 DEF Effective
<1>3. CASE \E w \in Workers : EndpointGone(w)
  <2>1. lease'[i] = lease[i] \/ lease'[i] = [lease[i] EXCEPT !.enabled = FALSE]
    BY <1>0, <1>3 DEF EndpointGone, Disable
  <2>2. CASE lease'[i] = [lease[i] EXCEPT !.enabled = FALSE]
    BY <1>0, <2>2 DEF LeaseRow, Effective
  <2> QED
    BY <2>1, <2>2 DEF Effective
<1>4. CASE lease' = lease
  BY <1>4 DEF Effective
<1> QED
  BY <1>1, <1>2, <1>3, <1>4, LeaseWriters

(* Who writes the remaining variables. *)
Writers ==
    /\ \/ UNCHANGED <<event, gated, age, member>>
       \/ LeaveChannel
       \/ \E e \in Events : InsertBegin(e) \/ InsertCommit(e) \/ Delete(e) \/ Older(e)
    /\ accepting' = accepting \/ AcceptCommit \/ \E v \in LeaseEvents : AcceptBegin(v)
    /\ owed' = owed \/ \E e \in Events : InsertCommit(e)
    /\ dropped \subseteq dropped' /\ invalid \subseteq invalid'
    /\ matcher' = matcher \/ \E m \in Matchers : Match(m) \/ MatcherCrash(m)
    /\ worker' = worker \/ \E w \in Workers : Deliver(w) \/ LeaveToClaim(w) \/ WorkerCrash(w)
    /\ \/ job' = job \/ AcceptCommit \/ Reap
       \/ \E e \in Events : InsertCommit(e) \/ LapseJob(e)
       \/ \E m \in Matchers : Match(m)

LEMMA StepWriters == [Next]_vars => Writers
<1> SUFFICES ASSUME [Next]_vars PROVE Writers
  OBVIOUS
<1> USE DEF leasing, source, history
<1>1. CASE \E v \in LeaseEvents : AcceptBegin(v)
  BY <1>1 DEF AcceptBegin, Writers
<1>2. CASE AcceptCommit
  BY <1>2 DEF AcceptCommit, Writers
<1>3. CASE \E i \in Installs : ExpireLease(i)
  BY <1>3 DEF ExpireLease, Writers
<1>4. ASSUME NEW e \in Events,
             InsertBegin(e) \/ InsertCommit(e) \/ Delete(e) \/ Older(e) \/ LapseJob(e)
      PROVE  Writers
  BY <1>4 DEF InsertBegin, InsertCommit, Delete, Older, LapseJob, Writers
<1>5. CASE LeaveChannel
  BY <1>5 DEF LeaveChannel, Writers
<1>6. ASSUME NEW m \in Matchers, Match(m) PROVE Writers
  <2>1. UNCHANGED <<event, gated, age, member, accepting, owed, worker, invalid>> /\ dropped \subseteq dropped'
    BY <1>6 DEF Match, ClaimJobs, LoadEvents, LoadContext, Enqueue, CompleteJobs, RetryJobs
  <2> QED
    BY <1>6, <2>1 DEF Writers
<1>7. ASSUME NEW m \in Matchers, MatcherCrash(m) PROVE Writers
  BY <1>7 DEF MatcherCrash, Writers
<1>8. CASE Reap
  BY <1>8 DEF Reap, Writers
<1>9. ASSUME NEW w \in Workers, Deliver(w) \/ LeaveToClaim(w) \/ WorkerCrash(w) PROVE Writers
  <2>1. /\ UNCHANGED <<event, gated, age, member, accepting, owed, dropped, job, matcher>>
        /\ invalid \subseteq invalid'
    BY <1>9 DEF Deliver, ClaimWakes, Revalidate, Suppress, IsMember, RevalidateAgain, Send, Answer,
                EndpointGone, LeaveToClaim, WorkerCrash
  <2> QED
    BY <1>9, <2>1 DEF Writers
<1>10. CASE \E k \in Keys : LapseWake(k)
  BY <1>10 DEF LapseWake, Writers
<1>11. CASE UNCHANGED vars
  BY <1>11 DEF vars, Writers
<1> QED
  BY <1>1, <1>2, <1>3, <1>4, <1>5, <1>6, <1>7, <1>8, <1>9, <1>10, <1>11 DEF Next

(* Events, memberships and their age only move on. *)
LEMMA EventStep ==
    ASSUME TypeOK, [Next]_vars, NEW e \in Events
    PROVE  /\ Fresh(e)' => Fresh(e)
           /\ event'[e] = "inserting" => event[e] = "inserting" \/ InsertBegin(e)
           /\ event'[e] = "live" => event[e] = "live" \/ InsertCommit(e)
           /\ (gated'[e] <=> gated[e]) \/ InsertBegin(e) \/ InsertCommit(e)
           /\ age[e] = "stale" => age'[e] = "stale"
           /\ member' => member
<1>0. /\ event \in [Events -> {"absent", "inserting", "live", "deleted"}]
      /\ gated \in [Events -> BOOLEAN] /\ age \in [Events -> {"recent", "useful", "stale"}]
  BY DEF TypeOK
<1>1. ASSUME NEW f \in Events, InsertBegin(f) \/ InsertCommit(f) \/ Delete(f)
      PROVE  /\ UNCHANGED <<age, member>>
             /\ event'[e] = event[e] \/ f = e
             /\ gated'[e] = gated[e] \/ f = e
             /\ Delete(f) => gated' = gated /\ (f = e => event[e] = "live" /\ event'[e] = "deleted")
             /\ InsertCommit(f) => (f = e => event[e] = "inserting" /\ event'[e] = "live")
             /\ InsertBegin(f) => (f = e => event[e] = "absent" /\ event'[e] = "inserting")
  BY <1>0, <1>1 DEF InsertBegin, InsertCommit, Delete, leasing, history
<1>2. CASE \E f \in Events : InsertBegin(f) \/ InsertCommit(f) \/ Delete(f)
  BY <1>1, <1>2 DEF Fresh
<1>3. CASE \E f \in Events : Older(f)
  BY <1>0, <1>3 DEF Older, Fresh
<1>4. CASE LeaveChannel \/ UNCHANGED <<event, gated, age, member>>
  BY <1>4 DEF LeaveChannel, Fresh
<1> QED
  BY <1>2, <1>3, <1>4, StepWriters DEF Writers

(* A worker works on the wakes it has claimed. *)
Hands(w) ==
    /\ worker'[w].batch \subseteq worker[w].batch \cup DueWakes
    /\ worker'[w].at \notin {"idle", "deliver"} =>
         \/ worker[w].at \notin {"idle", "deliver"} /\ worker'[w].wake = worker[w].wake
         \/ worker'[w].wake \in worker[w].batch
    /\ worker'[w].at = "answer" => worker'[w] = worker[w] \/ Send(w)

LEMMA WorkerStep ==
    ASSUME TypeOK, [Next]_vars, NEW w \in Workers
    PROVE  Hands(w)
<1>0. worker \in [Workers -> WorkerState] /\ worker[w] \in WorkerState
  BY DEF TypeOK
<1>1. ASSUME NEW b, b \subseteq worker[w].batch, GoOn(w, b) PROVE Hands(w)
  <2>1. worker'[w] = IdleWorker
        \/ worker'[w] = [at |-> "deliver", batch |-> b, wake |-> None, response |-> None]
    BY <1>0, <1>1 DEF GoOn, IdleWorker
  <2> QED
    BY <1>0, <1>1, <2>1 DEF Hands, IdleWorker
<1>2. ASSUME NEW at \in {"member", "final", "send", "suppress"}, Proceed(w, at),
             worker[w].at \notin {"idle", "deliver"}
      PROVE  Hands(w)
  <2>1. worker'[w].at = at /\ worker'[w].batch = worker[w].batch /\ worker'[w].wake = worker[w].wake
    BY <1>0, <1>2 DEF Proceed, WorkerState
  <2> QED
    BY <1>2, <2>1 DEF Hands
<1>3. CASE ClaimWakes(w)
  <2>0. PICK batch \in (SUBSET DueWakes) \ {{}} : ClaimWakes(w)!2!(batch)
    BY <1>3 DEF ClaimWakes
  <2>1. worker'[w] = [at |-> "deliver", batch |-> batch, wake |-> None, response |-> None]
    BY <1>0, <2>0 DEF IdleWorker
  <2>2. worker'[w].at = "deliver" /\ worker'[w].batch = batch
    BY <2>1
  <2>3. batch \in SUBSET DueWakes
    BY <2>0
  <2> QED
    BY <2>2, <2>3 DEF Hands
<1>4. CASE Revalidate(w)
  <2>0. PICK k \in worker[w].batch : Revalidate(w)!2!(k)
    BY <1>4 DEF Revalidate
  <2>1. /\ worker'[w].at \in {"member", "suppress"} /\ worker'[w].batch \subseteq worker[w].batch
        /\ worker'[w].wake = k
    BY <1>0, <2>0 DEF WorkerState
  <2> QED
    BY <2>0, <2>1 DEF Hands
<1>5. CASE Suppress(w) \/ Answer(w)
  BY <1>1, <1>5 DEF Suppress, Answer
<1>6. CASE IsMember(w)
  BY <1>1, <1>2, <1>6 DEF IsMember
<1>7. CASE RevalidateAgain(w)
  BY <1>2, <1>7 DEF RevalidateAgain
<1>8. CASE Send(w)
  <2>1. worker'[w].batch = worker[w].batch /\ worker'[w].wake = worker[w].wake
    BY <1>0, <1>8 DEF Send, WorkerState
  <2>2. worker[w].at = "send"
    BY <1>8 DEF Send
  <2> QED
    BY <1>8, <2>1, <2>2 DEF Hands
<1>9. CASE EndpointGone(w)
  BY <1>2, <1>9 DEF EndpointGone
<1>10. CASE LeaveToClaim(w)
  BY <1>1, <1>10 DEF LeaveToClaim
<1>11. CASE WorkerCrash(w)
  <2>1. worker'[w] = IdleWorker
    BY <1>0, <1>11 DEF WorkerCrash
  <2> QED
    BY <2>1 DEF Hands, IdleWorker
<1>12. ASSUME worker'[w] = worker[w] PROVE Hands(w)
  BY <1>12 DEF Hands
<1>13. ASSUME NEW v \in Workers, v # w, Deliver(v) \/ LeaveToClaim(v) \/ WorkerCrash(v)
       PROVE  worker'[w] = worker[w]
  BY <1>0, <1>13 DEF Deliver, ClaimWakes, Revalidate, Suppress, IsMember, RevalidateAgain, Send,
                     Answer, EndpointGone, LeaveToClaim, WorkerCrash, Proceed, GoOn
<1>14. CASE Deliver(w)
  BY <1>3, <1>4, <1>5, <1>6, <1>7, <1>8, <1>9, <1>14 DEF Deliver
<1> QED
  BY <1>10, <1>11, <1>12, <1>13, <1>14, StepWriters DEF Writers

(* Where a matcher's state comes from. *)
LEMMA MatcherStep ==
    ASSUME TypeOK, [Next]_vars, NEW m \in Matchers
    PROVE  \/ matcher'[m] = matcher[m]
           \/ ClaimJobs(m) \/ LoadEvents(m) \/ LoadContext(m) \/ Enqueue(m) \/ CompleteJobs(m)
           \/ matcher'[m] = IdleMatcher
<1>0. matcher \in [Matchers -> MatcherState]
  BY DEF TypeOK
<1>1. ASSUME NEW n \in Matchers, n # m, Match(n) \/ MatcherCrash(n) PROVE matcher'[m] = matcher[m]
  BY <1>0, <1>1 DEF Match, ClaimJobs, LoadEvents, LoadContext, Enqueue, CompleteJobs, RetryJobs,
                    MatcherCrash
<1>2. ASSUME RetryJobs(m) \/ MatcherCrash(m) PROVE matcher'[m] = IdleMatcher
  BY <1>0, <1>2 DEF RetryJobs, MatcherCrash
<1> QED
  BY <1>1, <1>2, StepWriters DEF Writers, Match

(* A job leaves the queue when its event is gone, when it is given up, or   *)
(* when its matcher completes it.                                           *)
LEMMA JobStep ==
    ASSUME TypeOK, [Next]_vars, NEW e \in Events, job[e].state # "none"
    PROVE  \/ job'[e].state # "none"
           \/ event[e] # "live"
           \/ e \in dropped'
           \/ \E m \in Matchers : matcher[m].at = "settle" /\ e \in matcher[m].done
<1>0. job \in [Events -> JobRow] /\ job[e] \in JobRow /\ job[e] # NoJob
  BY JobRows DEF TypeOK, NoJob
<1>1. CASE AcceptCommit
  BY <1>0, <1>1 DEF AcceptCommit, Backfilled
<1>2. ASSUME NEW f \in Events, InsertCommit(f) PROVE job'[e].state # "none"
  <2>1. job'[e] = job[e] \/ job'[e] = NewJob
    BY <1>0, <1>2 DEF InsertCommit
  <2>2. NewJob.state = "pending"
    BY DEF NewJob, NoJob
  <2> QED
    BY <2>1, <2>2
<1>3. ASSUME NEW f \in Events, LapseJob(f) PROVE job'[e].state # "none"
  <2>1. job'[e] = job[e] \/ job'[e] = [job[e] EXCEPT !.lapsed = TRUE]
    BY <1>0, <1>3 DEF LapseJob
  <2> QED
    BY <1>0, <2>1 DEF JobRow
<1>4. CASE Reap
  BY <1>0, <1>4 DEF Reap
<1>5. ASSUME NEW m \in Matchers, ClaimJobs(m) PROVE job'[e].state # "none"
  BY <1>5 DEF ClaimJobs
<1>6. ASSUME NEW m \in Matchers, LoadEvents(m) PROVE job'[e].state # "none" \/ event[e] # "live"
  BY <1>6 DEF LoadEvents
<1>7. ASSUME NEW m \in Matchers, RetryJobs(m) PROVE job'[e].state # "none"
  <2>1. job'[e] = job[e] \/ job'[e] = [job[e] EXCEPT !.state = "pending", !.claim = None, !.lapsed = FALSE]
    BY <1>7 DEF RetryJobs
  <2>2. CASE job'[e] = [job[e] EXCEPT !.state = "pending", !.claim = None, !.lapsed = FALSE]
    BY <1>0, <2>2 DEF JobRow
  <2> QED
    BY <2>1, <2>2
<1>8. ASSUME NEW m \in Matchers, CompleteJobs(m)
      PROVE  job'[e].state # "none" \/ (matcher[m].at = "settle" /\ e \in matcher[m].done)
  BY <1>8 DEF CompleteJobs
<1>9. ASSUME NEW m \in Matchers, LoadContext(m) \/ Enqueue(m) PROVE job' = job
  BY <1>9 DEF LoadContext, Enqueue
<1> QED
  BY <1>1, <1>2, <1>3, <1>4, <1>5, <1>6, <1>7, <1>8, <1>9, StepWriters DEF Writers, Match
-----------------------------------------------------------------------------
(* Every step keeps the invariant *)

(* What enqueue_wakes does to one row of the outbox. *)
LEMMA EnqueueRow ==
    ASSUME TypeOK, NEW m \in Matchers, Enqueue(m), NEW k \in Keys
    PROVE  \/ outbox'[k] = outbox[k]
           \/ /\ outbox[k] = NoWake /\ k[2] \in matcher[m].batch
              /\ \E i \in Requests(m, k[2]) :
                   /\ lease[i].endpoint = k[1]
                   /\ outbox'[k].state = "pending" /\ outbox'[k].install = i
                   /\ outbox'[k].generation = lease[i].generation
<1>0. PICK bad \in SUBSET matcher[m].batch : Enqueue(m)!2!(bad)
  BY DEF Enqueue
<1> DEFINE asked == /\ outbox[k] = NoWake /\ k[2] \in matcher[m].batch \ bad
                    /\ \E i \in Requests(m, k[2]) : lease[i].endpoint = k[1]
           i == CHOOSE j \in Requests(m, k[2]) : lease[j].endpoint = k[1]
<1>1. outbox'[k] = IF asked THEN [NoWake EXCEPT !.state = "pending", !.install = i,
                                                 !.generation = lease[i].generation]
                   ELSE outbox[k]
  BY <1>0
<1>2. CASE asked
  <2>1. i \in Requests(m, k[2]) /\ lease[i].endpoint = k[1]
    BY <1>2
  <2> HIDE DEF i
  <2>2. /\ outbox'[k].state = "pending" /\ outbox'[k].install = i
        /\ outbox'[k].generation = lease[i].generation
    <3>1. \A j, g : /\ [NoWake EXCEPT !.state = "pending", !.install = j, !.generation = g].state = "pending"
                    /\ [NoWake EXCEPT !.state = "pending", !.install = j, !.generation = g].install = j
                    /\ [NoWake EXCEPT !.state = "pending", !.install = j, !.generation = g].generation = g
      BY DEF NoWake
    <3>2. outbox'[k] = [NoWake EXCEPT !.state = "pending", !.install = i, !.generation = lease[i].generation]
      BY <1>1, <1>2
    <3> QED
      BY <3>1, <3>2
  <2> QED
    BY <1>2, <2>1, <2>2
<1>3. CASE ~asked
  BY <1>1, <1>3
<1> QED
  BY <1>2, <1>3

LEMMA RowsExistStep == IInv /\ [Next]_vars => RowsExist'
<1> SUFFICES ASSUME IInv, [Next]_vars PROVE RowsExist'
  OBVIOUS
<1>0. TypeOK /\ RowsExist
  BY DEF IInv
<1>a. \A w \in Workers : worker[w].batch \in SUBSET Keys
  BY <1>0 DEF TypeOK, WorkerState
<1>1. ASSUME NEW k \in Keys, outbox'[k].state # "none" PROVE outbox'[k].install \in Installs
  <2>1. CASE outbox[k].state # "none"
    BY <1>0, <1>1, <2>1, WakeStep DEF RowsExist
  <2>2. CASE outbox[k].state = "none" /\ outbox'[k] # outbox[k]
    <3>1. PICK m \in Matchers : Enqueue(m)
      BY <1>0, <2>2, WakeStep
    <3> QED
      BY <1>0, <2>2, <3>1, EnqueueRow, RequestsInstalls
  <2> QED
    BY <1>1, <2>1, <2>2
<1>2. ASSUME NEW w \in Workers, NEW k \in worker'[w].batch PROVE outbox'[k].state # "none"
  <2>1. k \in worker[w].batch \cup DueWakes
    BY <1>0, WorkerStep DEF Hands
  <2>2. k \in Keys /\ outbox[k].state # "none"
    BY <1>0, <1>a, <2>1 DEF RowsExist, DueWakes, Lapsed
  <2> QED
    BY <1>0, <2>2, WakeStep
<1>3. ASSUME NEW w \in Workers, worker'[w].at \notin {"idle", "deliver"}
      PROVE  worker'[w].wake \in Keys /\ outbox'[worker'[w].wake].state # "none"
  <2>1. worker'[w].wake \in Keys /\ outbox[worker'[w].wake].state # "none"
    BY <1>0, <1>a, <1>3, WorkerStep DEF Hands, RowsExist
  <2> QED
    BY <1>0, <2>1, WakeStep
<1> QED
  BY <1>1, <1>2, <1>3 DEF RowsExist

LEMMA FreshIsBareStep == IInv /\ [Next]_vars => FreshIsBare'
<1> SUFFICES ASSUME IInv, [Next]_vars, NEW e \in Events, Fresh(e)'
             PROVE  /\ job'[e] = NoJob
                    /\ \A p \in Endpoints : outbox'[<<p, e>>] = NoWake
                    /\ \A m \in Matchers : e \notin matcher'[m].batch \cup matcher'[m].done
  BY DEF FreshIsBare
<1>0. TypeOK
  BY DEF IInv
<1>1. /\ Fresh(e) /\ job[e] = NoJob /\ \A p \in Endpoints : outbox[<<p, e>>] = NoWake
      /\ \A m \in Matchers : e \notin matcher[m].batch /\ e \notin matcher[m].done
  BY <1>0, EventStep DEF IInv, FreshIsBare
<1>a. e \notin DueJobs /\ ~\E m : Claimed(m, e)
  BY <1>1 DEF DueJobs, Lapsed, Claimed, NoJob
<1>2. job'[e] = NoJob
  <2>1. CASE AcceptCommit
    BY <1>0, <1>1, <2>1 DEF AcceptCommit, Backfilled, Fresh
  <2>2. ASSUME NEW f \in Events, InsertCommit(f) PROVE f # e /\ job'[e] = job[e]
    <3>1. event'[f] = "live" /\ (f # e => job'[e] = job[e])
      BY <1>0, <2>2 DEF InsertCommit, TypeOK
    <3> QED
      BY <3>1 DEF Fresh
  <2>3. ASSUME NEW f \in Events, LapseJob(f) PROVE f # e /\ job'[e] = job[e]
    <3>1. f # e
      BY <1>1, <2>3 DEF LapseJob, NoJob
    <3> QED
      BY <1>0, <2>3, <3>1 DEF LapseJob, TypeOK
  <2>4. CASE Reap
    BY <1>0, <1>1, <2>4 DEF Reap
  <2>5. ASSUME NEW m \in Matchers, ClaimJobs(m) PROVE job'[e] = job[e]
    BY <1>a, <2>5 DEF ClaimJobs
  <2>6. ASSUME NEW m \in Matchers, LoadEvents(m) PROVE job'[e] = job[e]
    BY <1>a, <2>6 DEF LoadEvents
  <2>7. ASSUME NEW m \in Matchers, CompleteJobs(m) \/ RetryJobs(m) PROVE job'[e] = job[e]
    BY <1>a, <2>7 DEF CompleteJobs, RetryJobs
  <2>8. ASSUME NEW m \in Matchers, LoadContext(m) \/ Enqueue(m) PROVE job' = job
    BY <2>8 DEF LoadContext, Enqueue
  <2> QED
    BY <1>1, <2>1, <2>2, <2>3, <2>4, <2>5, <2>6, <2>7, <2>8, StepWriters DEF Writers, Match
<1>3. ASSUME NEW p \in Endpoints PROVE outbox'[<<p, e>>] = NoWake
  <2>1. <<p, e>> \in Keys /\ <<p, e>>[2] = e
    BY DEF Keys
  <2>2. outbox[<<p, e>>].state = "none"
    BY <1>1 DEF NoWake
  <2>3. ASSUME NEW m \in Matchers, Enqueue(m) PROVE outbox'[<<p, e>>] = outbox[<<p, e>>]
    BY <1>0, <1>1, <2>1, <2>3, EnqueueRow
  <2> QED
    BY <1>0, <1>1, <2>1, <2>2, <2>3, WakeStep
<1>4. ASSUME NEW m \in Matchers
      PROVE  e \notin matcher'[m].batch \cup matcher'[m].done
  <2>0. matcher \in [Matchers -> MatcherState] /\ matcher[m] \in MatcherState
    BY <1>0 DEF TypeOK
  <2>1. CASE ClaimJobs(m)
    <3>0. PICK batch \in (SUBSET DueJobs) \ {{}} : ClaimJobs(m)!2!(batch)
      BY <2>1 DEF ClaimJobs
    <3>1. matcher'[m].batch = batch /\ matcher'[m].done = {}
      BY <2>0, <3>0 DEF IdleMatcher
    <3>2. batch \in SUBSET DueJobs
      BY <3>0
    <3> QED
      BY <1>a, <3>1, <3>2
  <2>2. CASE LoadEvents(m)
    <3>1. matcher'[m].batch \subseteq matcher[m].batch /\ (matcher'[m].done = matcher[m].done \/ matcher'[m].done = {})
      <4>1. IdleMatcher.batch = {} /\ IdleMatcher.done = {}
        BY DEF IdleMatcher
      <4>2. PICK live \in SUBSET matcher[m].batch :
              matcher'[m] = IF live = {} THEN IdleMatcher
                            ELSE [matcher[m] EXCEPT !.at = "context", !.batch = live]
        BY <2>0, <2>2 DEF LoadEvents
      <4> QED
        BY <2>0, <4>1, <4>2 DEF MatcherState
    <3> QED
      BY <1>1, <3>1
  <2>3. CASE LoadContext(m)
    <3>1. matcher'[m].batch = matcher[m].batch /\ matcher'[m].done = matcher[m].done
      BY <2>0, <2>3 DEF LoadContext, MatcherState
    <3> QED
      BY <1>1, <3>1
  <2>4. CASE Enqueue(m)
    <3>1. matcher'[m].batch = matcher[m].batch /\ matcher'[m].done \subseteq matcher[m].batch
      <4>0. PICK bad \in SUBSET matcher[m].batch : Enqueue(m)!2!(bad)
        BY <2>4 DEF Enqueue
      <4>1. PICK done \in SUBSET matcher[m].batch, again \in SUBSET matcher[m].batch :
              matcher'[m] = [matcher[m] EXCEPT !.at = "settle", !.done = done, !.again = again]
        BY <2>0, <4>0 DEF GivenUp
      <4> QED
        BY <2>0, <4>1 DEF MatcherState
    <3> QED
      BY <1>1, <3>1
  <2>5. CASE matcher'[m] = IdleMatcher
    BY <2>5 DEF IdleMatcher
  <2>6. CASE CompleteJobs(m)
    <3>1. matcher'[m].batch = matcher[m].batch /\ matcher'[m].done = {}
      BY <2>0, <2>6 DEF CompleteJobs, MatcherState
    <3> QED
      BY <1>1, <3>1
  <2> QED
    BY <1>0, <1>1, <2>1, <2>2, <2>3, <2>4, <2>5, <2>6, MatcherStep
<1> QED
  BY <1>2, <1>3, <1>4

LEMMA DoneIsEnqueuedStep == IInv /\ [Next]_vars => DoneIsEnqueued'
<1> SUFFICES ASSUME IInv, [Next]_vars, NEW m \in Matchers, matcher'[m].at # "settle"
             PROVE  matcher'[m].done = {}
  BY DEF DoneIsEnqueued
<1>0. /\ TypeOK /\ matcher \in [Matchers -> MatcherState] /\ matcher[m] \in MatcherState
      /\ matcher[m].at # "settle" => matcher[m].done = {}
  BY DEF IInv, TypeOK, DoneIsEnqueued
<1>1. CASE ClaimJobs(m)
  BY <1>0, <1>1 DEF ClaimJobs, IdleMatcher
<1>2. CASE LoadEvents(m)
  <2>1. PICK live : matcher'[m] = IF live = {} THEN IdleMatcher
                                  ELSE [matcher[m] EXCEPT !.at = "context", !.batch = live]
    BY <1>0, <1>2 DEF LoadEvents
  <2>2. matcher'[m].done = matcher[m].done \/ matcher'[m].done = {}
    BY <1>0, <2>1 DEF IdleMatcher, MatcherState
  <2>3. matcher[m].at = "load"
    BY <1>2 DEF LoadEvents
  <2> QED
    BY <1>0, <2>2, <2>3
<1>3. CASE LoadContext(m)
  <2>1. matcher'[m].done = matcher[m].done /\ matcher[m].at = "context"
    BY <1>0, <1>3 DEF LoadContext, MatcherState
  <2> QED
    BY <1>0, <2>1
<1>4. CASE Enqueue(m)
  <2>0. PICK bad \in SUBSET matcher[m].batch : Enqueue(m)!2!(bad)
    BY <1>4 DEF Enqueue
  <2>1. PICK done, again :
          matcher'[m] = [matcher[m] EXCEPT !.at = "settle", !.done = done, !.again = again]
    BY <1>0, <2>0
  <2>2. matcher'[m].at = "settle"
    BY <1>0, <2>1 DEF MatcherState
  <2> QED
    BY <2>2
<1>5. CASE matcher'[m] = IdleMatcher
  BY <1>5 DEF IdleMatcher
<1>6. CASE CompleteJobs(m)
  BY <1>0, <1>6 DEF CompleteJobs, MatcherState
<1> QED
  BY <1>0, <1>1, <1>2, <1>3, <1>4, <1>5, <1>6, MatcherStep

LEMMA EndpointsUniqueStep == IInv /\ [Next]_vars => EndpointsUnique'
<1> SUFFICES ASSUME IInv, [Next]_vars PROVE EndpointsUnique'
  OBVIOUS
<1>0. TypeOK /\ EndpointsUnique /\ lease \in [Installs -> LeaseRow]
  BY DEF IInv, TypeOK
<1>1. CASE AcceptCommit
  <2> DEFINE v == accepting
  <2>1. v \in LeaseEvents /\ v.install \in Installs /\ (v.active => v.endpoint \in Endpoints)
    BY <1>0, <1>1, PushConstants DEF AcceptCommit, TypeOK
  <2>2. CASE lease' = lease
    BY <1>0, <2>2 DEF EndpointsUnique
  <2>3. CASE lease' # lease
    <3>1. /\ Admissible(v)
          /\ lease' = [lease EXCEPT ![v.install] =
                         [order |-> v.order, generation |-> v.generation, active |-> v.active,
                          enabled |-> TRUE, endpoint |-> v.endpoint, expired |-> FALSE]]
      BY <1>1, <2>3 DEF AcceptCommit
    <3>2. /\ lease'[v.install].active = v.active /\ lease'[v.install].endpoint = v.endpoint
          /\ \A j \in Installs : j # v.install => lease'[j] = lease[j]
      BY <1>0, <2>1, <3>1
    <3>3. v.active => \A j \in Installs : j # v.install /\ lease[j].active => lease[j].endpoint # v.endpoint
      BY <3>1 DEF Admissible, Others
    <3> QED
      BY <1>0, <2>1, <3>2, <3>3 DEF EndpointsUnique
  <2> QED
    BY <2>2, <2>3
<1>2. ASSUME \A i \in Installs : lease'[i].endpoint = lease[i].endpoint /\ (lease'[i].active <=> lease[i].active)
      PROVE  EndpointsUnique'
  BY <1>0, <1>2 DEF EndpointsUnique
<1>3. CASE \E i \in Installs : ExpireLease(i)
  <2>1. \A j \in Installs : lease'[j].endpoint = lease[j].endpoint /\ (lease'[j].active <=> lease[j].active)
    <3>1. \A j \in Installs : lease'[j] \in {lease[j], [lease[j] EXCEPT !.expired = TRUE]}
      BY <1>0, <1>3 DEF ExpireLease
    <3> QED
      BY <1>0, <3>1 DEF LeaseRow
  <2> QED
    BY <1>2, <2>1
<1>4. CASE \E w \in Workers : EndpointGone(w)
  <2>1. \A j \in Installs : lease'[j].endpoint = lease[j].endpoint /\ (lease'[j].active <=> lease[j].active)
    <3>1. \A j \in Installs : lease'[j] \in {lease[j], [lease[j] EXCEPT !.enabled = FALSE]}
      BY <1>0, <1>4 DEF EndpointGone, Disable
    <3> QED
      BY <1>0, <3>1 DEF LeaseRow
  <2> QED
    BY <1>2, <2>1
<1> QED
  BY <1>1, <1>2, <1>3, <1>4, LeaseWriters

LEMMA GateHeldStep == IInv /\ [Next]_vars => GateHeld'
<1> SUFFICES ASSUME IInv, [Next]_vars, NEW e \in Events, event'[e] = "inserting"
             PROVE  /\ accepting' # None => ~accepting'.active
                    /\ \A i \in Installs : Effective(i)' => gated'[e]
  BY DEF GateHeld
<1>0. TypeOK /\ GateHeld /\ lease \in [Installs -> LeaseRow]
  BY DEF IInv, TypeOK
<1>1. CASE InsertBegin(e)
  BY <1>0, <1>1 DEF InsertBegin, leasing, Effective, TypeOK
<1>2. CASE event[e] = "inserting" /\ ~InsertBegin(e)
  <2>1. gated'[e] <=> gated[e]
    <3>1. ~InsertCommit(e)
      BY <1>0 DEF InsertCommit, TypeOK
    <3> QED
      BY <1>0, <1>2, <3>1, EventStep
  <2>2. accepting' # None => ~accepting'.active
    <3>1. ASSUME AcceptCommit PROVE accepting' = None
      BY <3>1 DEF AcceptCommit
    <3>2. ASSUME NEW v \in LeaseEvents, AcceptBegin(v) PROVE ~accepting'.active
      BY <1>2, <3>2 DEF AcceptBegin
    <3> QED
      BY <1>0, <1>2, <3>1, <3>2, StepWriters DEF Writers, GateHeld
  <2>3. ASSUME NEW i \in Installs, Effective(i)' PROVE Effective(i)
    <3>1. CASE AcceptCommit
      <4>1. accepting # None /\ ~accepting.active
        BY <1>0, <1>2, <3>1 DEF AcceptCommit, GateHeld
      <4>2. lease'[i] = lease[i] \/ lease'[i].active = accepting.active
        BY <1>0, <3>1 DEF AcceptCommit
      <4> QED
        BY <2>3, <4>1, <4>2 DEF Effective
    <3>2. CASE ~AcceptCommit
      <4>1. lease' = lease \/ (\E j \in Installs : ExpireLease(j)) \/ \E w \in Workers : EndpointGone(w)
        BY <3>2, LeaseWriters
      <4>2. lease'[i] \in {lease[i], [lease[i] EXCEPT !.expired = TRUE], [lease[i] EXCEPT !.enabled = FALSE]}
        BY <1>0, <4>1 DEF ExpireLease, EndpointGone, Disable
      <4> QED
        BY <1>0, <2>3, <4>2 DEF Effective, LeaseRow
    <3> QED
      BY <3>1, <3>2
  <2> QED
    BY <1>0, <1>2, <2>1, <2>2, <2>3 DEF GateHeld
<1> QED
  BY <1>0, <1>1, <1>2, EventStep

LEMMA GoneIsInvalidStep == IInv /\ [Next]_vars => GoneIsInvalid'
<1> SUFFICES ASSUME IInv, [Next]_vars, NEW w \in Workers,
                    worker'[w].at = "answer", worker'[w].response = "gone"
             PROVE  <<outbox'[worker'[w].wake].install, outbox'[worker'[w].wake].generation>> \in invalid'
  BY DEF GoneIsInvalid
<1>0. TypeOK /\ RowsExist /\ GoneIsInvalid /\ worker \in [Workers -> WorkerState]
  BY DEF IInv, TypeOK
<1>1. CASE worker'[w] = worker[w]
  <2> DEFINE k == worker[w].wake
  <2>1. k \in Keys /\ outbox[k].state # "none"
    BY <1>0, <1>1 DEF RowsExist
  <2>2. outbox'[k].install = outbox[k].install /\ outbox'[k].generation = outbox[k].generation
    BY <1>0, <2>1, WakeStep
  <2>3. <<outbox[k].install, outbox[k].generation>> \in invalid
    BY <1>0, <1>1 DEF GoneIsInvalid
  <2> QED
    BY <1>1, <2>2, <2>3, StepWriters DEF Writers
<1>2. CASE Send(w)
  <2>0. PICK r \in Responses : Send(w)!2!(r)
    BY <1>2 DEF Send
  <2>1. worker'[w].response = r /\ worker'[w].wake = worker[w].wake
    BY <1>0, <2>0 DEF WorkerState
  <2>2. outbox' = outbox
    BY <1>2 DEF Send
  <2> QED
    BY <2>0, <2>1, <2>2
<1> QED
  BY <1>0, <1>1, <1>2, WorkerStep DEF Hands

LEMMA DisabledWasGoneStep == IInv /\ [Next]_vars => DisabledWasGone'
<1> SUFFICES ASSUME IInv, [Next]_vars, NEW i \in Installs, lease'[i].active, ~lease'[i].enabled
             PROVE  <<i, lease'[i].generation>> \in invalid'
  BY DEF DisabledWasGone
<1>0. /\ TypeOK /\ lease \in [Installs -> LeaseRow] /\ GoneIsInvalid /\ invalid \subseteq invalid'
      /\ lease[i].active /\ ~lease[i].enabled => <<i, lease[i].generation>> \in invalid
  BY StepWriters DEF IInv, TypeOK, DisabledWasGone, Writers
<1>1. ASSUME lease'[i].generation = lease[i].generation, lease'[i].active <=> lease[i].active,
             lease'[i].enabled <=> lease[i].enabled
      PROVE  <<i, lease'[i].generation>> \in invalid'
  BY <1>0, <1>1
<1>2. CASE AcceptCommit
  <2>1. lease'[i] = lease[i] \/ lease'[i].enabled = TRUE
    BY <1>0, <1>2 DEF AcceptCommit
  <2> QED
    BY <1>1, <2>1
<1>3. CASE \E j \in Installs : ExpireLease(j)
  <2>1. lease'[i] \in {lease[i], [lease[i] EXCEPT !.expired = TRUE]}
    BY <1>0, <1>3 DEF ExpireLease
  <2>2. /\ lease'[i].generation = lease[i].generation /\ (lease'[i].active <=> lease[i].active)
        /\ lease'[i].enabled <=> lease[i].enabled
    BY <1>0, <2>1 DEF LeaseRow
  <2> QED
    BY <1>1, <2>2
<1>4. CASE \E w \in Workers : EndpointGone(w)
  <2>0. PICK w \in Workers : EndpointGone(w)
    BY <1>4
  <2> DEFINE k == worker[w].wake
  <2>1. <<outbox[k].install, outbox[k].generation>> \in invalid
    BY <1>0, <2>0 DEF EndpointGone, GoneIsInvalid
  <2>2. CASE lease' = lease
    BY <1>1, <2>2
  <2>3. CASE lease' # lease
    <3>1. lease[outbox[k].install].generation = outbox[k].generation
          /\ lease' = [lease EXCEPT ![outbox[k].install].enabled = FALSE]
      BY <2>0, <2>3 DEF EndpointGone, Disable
    <3>2. CASE outbox[k].install = i
      <4>1. lease'[i] = [lease[i] EXCEPT !.enabled = FALSE]
        BY <1>0, <3>1, <3>2
      <4>2. lease'[i].generation = lease[i].generation
        BY <1>0, <4>1 DEF LeaseRow
      <4> QED
        BY <1>0, <2>1, <3>1, <3>2, <4>2
    <3>3. CASE outbox[k].install # i
      <4>1. lease'[i] = lease[i]
        BY <1>0, <3>1, <3>3
      <4> QED
        BY <1>1, <4>1
    <3> QED
      BY <3>2, <3>3
  <2> QED
    BY <2>2, <2>3
<1> QED
  BY <1>1, <1>2, <1>3, <1>4, LeaseWriters

(* The wakes that become owed when an insertion commits. *)
LEMMA OwedStep ==
    ASSUME TypeOK, [Next]_vars, NEW i, NEW g, NEW e, <<i, g, e>> \in owed'
    PROVE  \/ <<i, g, e>> \in owed
           \/ InsertCommit(e) /\ lease' = lease /\ i \in Installs /\ Effective(i) /\ g = lease[i].generation
<1>1. ASSUME NEW f \in Events, InsertCommit(f), <<i, g, e>> \notin owed
      PROVE  InsertCommit(e) /\ lease' = lease /\ i \in Installs /\ Effective(i) /\ g = lease[i].generation
  <2>1. /\ lease' = lease
        /\ owed' = owed \cup {<<j, lease[j].generation, f>> : j \in {j \in Installs : Effective(j)}}
    BY <1>1 DEF InsertCommit, leasing
  <2>2. PICK j \in {j \in Installs : Effective(j)} : <<i, g, e>> = <<j, lease[j].generation, f>>
    BY <1>1, <2>1
  <2>3. i = j /\ g = lease[j].generation /\ e = f
    BY <2>2
  <2> QED
    BY <1>1, <2>1, <2>2, <2>3
<1> QED
  BY <1>1, StepWriters DEF Writers

LEMMA OwedInThePastStep == IInv /\ [Next]_vars => OwedInThePast'
<1> SUFFICES ASSUME IInv, [Next]_vars, NEW i \in Installs, NEW e \in Events, NEW g \in Nat,
                    <<i, g, e>> \in owed'
             PROVE  g <= lease'[i].generation /\ ~Fresh(e)'
  BY DEF OwedInThePast
<1>0. TypeOK /\ OwedInThePast /\ TypeOK'
  BY TypeStep DEF IInv
<1>1. lease[i].generation \in Nat /\ lease'[i].generation \in Nat
  BY <1>0 DEF TypeOK, LeaseRow
<1>2. CASE <<i, g, e>> \in owed
  <2>1. g <= lease[i].generation /\ ~Fresh(e)
    BY <1>0, <1>2 DEF OwedInThePast
  <2> QED
    BY <1>0, <1>1, <2>1, LeaseStep, EventStep
<1>3. CASE InsertCommit(e) /\ lease' = lease /\ g = lease[i].generation
  <2>1. event'[e] = "live"
    BY <1>0, <1>3 DEF InsertCommit, TypeOK
  <2> QED
    BY <1>1, <1>3, <2>1 DEF Fresh
<1> QED
  BY <1>0, <1>2, <1>3, OwedStep

(* The generation ties a lease in effect to the one an event was inserted   *)
(* under: a replacement has a greater one, to which nothing is owed yet.    *)
LEMMA DueStep ==
    ASSUME IInv, [Next]_vars, NEW i \in Installs, NEW e \in Events, Due(i, e)'
    PROVE  /\ lease'[i].generation = lease[i].generation /\ lease'[i].endpoint = lease[i].endpoint
           /\ lease[i].endpoint \in Endpoints /\ Effective(i)
           /\ Due(i, e) \/ InsertCommit(e)
<1>0. TypeOK /\ OwedInThePast /\ EndpointsUnique /\ TypeOK'
  BY TypeStep DEF IInv
<1>1. lease[i].generation \in Nat /\ lease'[i].generation \in Nat
  BY <1>0 DEF TypeOK, LeaseRow
<1>2. Effective(i)' /\ <<i, lease'[i].generation, e>> \in owed'
  BY DEF Due
<1>3. CASE <<i, lease'[i].generation, e>> \in owed
  <2>1. lease'[i].generation <= lease[i].generation
    BY <1>0, <1>1, <1>3 DEF OwedInThePast
  <2>2. /\ lease'[i].generation = lease[i].generation /\ lease'[i].endpoint = lease[i].endpoint
        /\ Effective(i)
    BY <1>0, <1>1, <1>2, <2>1, LeaseStep
  <2> QED
    BY <1>0, <1>3, <2>2 DEF Due, EndpointsUnique, Effective
<1>4. CASE InsertCommit(e) /\ lease' = lease /\ Effective(i)
  BY <1>0, <1>4 DEF EndpointsUnique, Effective
<1> QED
  BY <1>0, <1>2, <1>3, <1>4, OwedStep

LEMMA WakeIsForDueStep == IInv /\ [Next]_vars => WakeIsForDue'
<1> SUFFICES ASSUME IInv, [Next]_vars, NEW i \in Installs, NEW e \in Events, Due(i, e)',
                    outbox'[<<lease'[i].endpoint, e>>].state # "none"
             PROVE  /\ outbox'[<<lease'[i].endpoint, e>>].install = i
                    /\ outbox'[<<lease'[i].endpoint, e>>].generation = lease'[i].generation
  BY DEF WakeIsForDue
<1>0. TypeOK /\ WakeIsForDue /\ FreshIsBare /\ EndpointsUnique
  BY DEF IInv
<1> DEFINE k == <<lease[i].endpoint, e>>
<1>1. /\ lease'[i].generation = lease[i].generation /\ lease'[i].endpoint = lease[i].endpoint
      /\ lease[i].endpoint \in Endpoints /\ Effective(i)
      /\ Due(i, e) \/ InsertCommit(e)
  BY DueStep
<1>2. k \in Keys /\ k[1] = lease[i].endpoint /\ k[2] = e
  BY <1>1 DEF Keys
<1>3. CASE outbox[k].state # "none"
  <2>1. ~InsertCommit(e)
    <3>1. ASSUME InsertCommit(e) PROVE outbox[k] = NoWake
      BY <1>0, <1>1, <3>1 DEF InsertCommit, FreshIsBare, Fresh
    <3> QED
      BY <1>3, <3>1 DEF NoWake
  <2>2. outbox[k].install = i /\ outbox[k].generation = lease[i].generation
    BY <1>0, <1>1, <1>3, <2>1 DEF WakeIsForDue
  <2> QED
    BY <1>0, <1>1, <1>2, <1>3, <2>2, WakeStep
<1>4. CASE outbox[k].state = "none"
  <2>0. PICK m \in Matchers : Enqueue(m)
    BY <1>0, <1>1, <1>2, <1>4, WakeStep
  <2>1. PICK j \in Requests(m, k[2]) :
          /\ lease[j].endpoint = k[1]
          /\ outbox'[k].install = j /\ outbox'[k].generation = lease[j].generation
    BY <1>0, <1>1, <1>2, <1>4, <2>0, EnqueueRow
  <2>2. j \in Installs /\ lease[j].active
    BY <2>1 DEF Requests, Effective
  <2>3. j = i
    BY <1>0, <1>1, <1>2, <2>1, <2>2 DEF EndpointsUnique, Effective
  <2> QED
    BY <1>1, <2>1, <2>3
<1> QED
  BY <1>3, <1>4

LEMMA MatcherKnowsStep == IInv /\ [Next]_vars => MatcherKnows'
<1> SUFFICES ASSUME IInv, [Next]_vars, NEW m \in Matchers, NEW i \in Installs, NEW e \in Events,
                    Due(i, e)', member'
             PROVE  /\ matcher'[m].at = "enqueue" /\ e \in matcher'[m].batch =>
                          <<i, lease'[i].generation>> \in matcher'[m].seen
                    /\ matcher'[m].at = "settle" /\ e \in matcher'[m].done =>
                          \/ e \in dropped' \/ age'[e] = "stale"
                          \/ outbox'[<<lease'[i].endpoint, e>>].state # "none"
  BY DEF MatcherKnows
<1>0. /\ TypeOK /\ FreshIsBare /\ MatcherKnows /\ DoneIsEnqueued
      /\ matcher \in [Matchers -> MatcherState] /\ matcher[m] \in MatcherState
  BY DEF IInv, TypeOK
<1> DEFINE k == <<lease[i].endpoint, e>>
<1>1. /\ lease'[i].generation = lease[i].generation /\ lease'[i].endpoint = lease[i].endpoint
      /\ lease[i].endpoint \in Endpoints /\ Effective(i)
      /\ Due(i, e) \/ InsertCommit(e)
  BY DueStep
<1>2. k \in Keys /\ k[1] = lease[i].endpoint /\ k[2] = e
  BY <1>1 DEF Keys
<1>3. member /\ (age[e] = "stale" => age'[e] = "stale") /\ dropped \subseteq dropped'
  BY <1>0, EventStep, StepWriters DEF Writers
<1>4. CASE InsertCommit(e)
  <2>1. matcher' = matcher /\ e \notin matcher[m].batch /\ e \notin matcher[m].done
    BY <1>0, <1>4 DEF InsertCommit, FreshIsBare, Fresh
  <2> QED
    BY <2>1
<1>5. CASE Due(i, e) /\ matcher'[m] = matcher[m]
  <2>1. CASE matcher[m].at = "settle" /\ e \in matcher[m].done
    BY <1>0, <1>1, <1>2, <1>3, <1>5, <2>1, WakeStep DEF MatcherKnows
  <2> QED
    BY <1>0, <1>1, <1>3, <1>5, <2>1 DEF MatcherKnows
<1>6. CASE ClaimJobs(m)
  <2>1. PICK batch : matcher'[m] = [IdleMatcher EXCEPT !.at = "load", !.batch = batch]
    BY <1>0, <1>6 DEF ClaimJobs
  <2>2. matcher'[m].at = "load"
    BY <2>1 DEF IdleMatcher
  <2> QED
    BY <2>2
<1>7. CASE LoadEvents(m)
  <2>1. PICK live : matcher'[m] = IF live = {} THEN IdleMatcher
                                  ELSE [matcher[m] EXCEPT !.at = "context", !.batch = live]
    BY <1>0, <1>7 DEF LoadEvents
  <2>2. matcher'[m].at \in {"idle", "context"}
    BY <1>0, <2>1 DEF IdleMatcher, MatcherState
  <2> QED
    BY <2>2
<1>8. CASE LoadContext(m)
  <2>1. matcher[m].at = "context" /\ matcher'[m].done = matcher[m].done
    BY <1>0, <1>8 DEF LoadContext, MatcherState
  <2>2. CASE matcher'[m].at = "enqueue"
    <3>1. matcher'[m].seen = {<<j, lease[j].generation>> : j \in {j \in Installs : Effective(j) /\ member}}
      BY <1>0, <1>8, <2>2 DEF LoadContext, MatcherState
    <3> QED
      BY <1>1, <1>3, <2>2, <3>1
  <2> QED
    BY <1>0, <2>1, <2>2 DEF DoneIsEnqueued
<1>9. CASE Enqueue(m) /\ Due(i, e)
  <2>0. PICK bad \in SUBSET matcher[m].batch : Enqueue(m)!2!(bad)
    BY <1>9 DEF Enqueue
  <2> DEFINE last == GivenUp(m, bad)
  <2>1. /\ dropped' = dropped \cup last
        /\ matcher'[m] = [matcher[m] EXCEPT !.at = "settle", !.done = (matcher[m].batch \ bad) \cup last,
                                            !.again = bad \ last]
    BY <1>0, <2>0
  <2>2. matcher'[m].at = "settle" /\ matcher'[m].done = (matcher[m].batch \ bad) \cup last
    BY <1>0, <2>1 DEF MatcherState
  <2>3. CASE e \in matcher[m].batch \ bad /\ age[e] # "stale"
    <3>1. matcher[m].at = "enqueue"
      BY <1>9 DEF Enqueue
    <3>2. i \in Requests(m, e)
      BY <1>0, <1>1, <1>3, <1>9, <2>3, <3>1 DEF MatcherKnows, Requests
    <3>3. outbox[k].state # "none" \/ outbox[k] = NoWake
      BY <1>0, <1>2, WakeRows DEF TypeOK
    <3>4. CASE outbox[k] = NoWake
      <4>1. PICK j, g : outbox'[k] = [NoWake EXCEPT !.state = "pending", !.install = j, !.generation = g]
        BY <1>2, <2>0, <2>3, <3>2, <3>4
      <4>2. outbox'[k].state = "pending"
        BY <4>1 DEF NoWake
      <4> QED
        BY <1>1, <2>2, <4>2
    <3>5. CASE outbox[k].state # "none"
      BY <1>0, <1>1, <1>2, <2>2, <3>5, WakeStep
    <3> QED
      BY <3>3, <3>4, <3>5
  <2> QED
    BY <1>3, <2>1, <2>2, <2>3
<1>10. CASE matcher'[m] = IdleMatcher
  BY <1>10 DEF IdleMatcher
<1>11. CASE CompleteJobs(m)
  <2>1. matcher'[m].at = "retry"
    BY <1>0, <1>11 DEF CompleteJobs, MatcherState
  <2> QED
    BY <2>1
<1> QED
  BY <1>0, <1>1, <1>4, <1>5, <1>6, <1>7, <1>8, <1>9, <1>10, <1>11, MatcherStep

LEMMA OwedIsTrackedStep == IInv /\ [Next]_vars => OwedIsTracked'
<1> SUFFICES ASSUME IInv, [Next]_vars, NEW i \in Installs, NEW e \in Events,
                    Due(i, e)', e \notin dropped', member', event'[e] = "live", age'[e] # "stale"
             PROVE  \/ job'[e].state # "none"
                    \/ /\ outbox'[<<lease'[i].endpoint, e>>].state # "none"
                       /\ outbox'[<<lease'[i].endpoint, e>>].install = i
                       /\ outbox'[<<lease'[i].endpoint, e>>].generation = lease'[i].generation
  BY DEF OwedIsTracked, Due
<1>0. TypeOK /\ GateHeld /\ MatcherKnows /\ WakeIsForDue /\ OwedIsTracked
  BY DEF IInv
<1> DEFINE k == <<lease[i].endpoint, e>>
<1>1. /\ lease'[i].generation = lease[i].generation /\ lease'[i].endpoint = lease[i].endpoint
      /\ lease[i].endpoint \in Endpoints /\ Effective(i)
      /\ Due(i, e) \/ InsertCommit(e)
  BY DueStep
<1>2. k \in Keys
  BY <1>1 DEF Keys
<1>3. member /\ age[e] # "stale" /\ e \notin dropped /\ (event[e] = "live" \/ InsertCommit(e))
  BY <1>0, EventStep, StepWriters DEF Writers
<1>4. CASE InsertCommit(e)
  <2>1. gated[e]
    BY <1>0, <1>1, <1>4 DEF InsertCommit, GateHeld
  <2>2. job'[e] = NewJob
    BY <1>0, <1>4, <2>1 DEF InsertCommit, TypeOK
  <2>3. NewJob.state = "pending"
    BY DEF NewJob, NoJob
  <2> QED
    BY <2>2, <2>3
<1>5. ASSUME outbox[k].state # "none", Due(i, e)
      PROVE  /\ outbox'[k].state # "none" /\ outbox'[k].install = i
             /\ outbox'[k].generation = lease[i].generation
  <2>1. outbox[k].install = i /\ outbox[k].generation = lease[i].generation
    BY <1>0, <1>5 DEF WakeIsForDue
  <2> QED
    BY <1>0, <1>2, <1>5, <2>1, WakeStep
<1>6. CASE ~InsertCommit(e) /\ Due(i, e)
  <2>1. job[e].state # "none" \/ outbox[k].state # "none"
    BY <1>0, <1>3, <1>6 DEF OwedIsTracked, Due
  <2>2. CASE job[e].state # "none" /\ job'[e].state = "none"
    <3>1. PICK m \in Matchers : matcher[m].at = "settle" /\ e \in matcher[m].done
      BY <1>0, <1>3, <1>6, <2>2, JobStep
    <3>2. outbox[k].state # "none"
      BY <1>0, <1>3, <1>6, <3>1 DEF MatcherKnows
    <3> QED
      BY <1>1, <1>5, <1>6, <3>2
  <2> QED
    BY <1>1, <1>5, <1>6, <2>1, <2>2
<1> QED
  BY <1>1, <1>4, <1>6

LEMMA IInvInit == Init => IInv
<1> SUFFICES ASSUME Init PROVE IInv
  OBVIOUS
<1>1. TypeOK
  BY TypeInit
<1>2. /\ \A i \in Installs : lease[i] = NoLease /\ ~lease[i].active
      /\ \A e \in Events : event[e] = "absent" /\ job[e] = NoJob
      /\ \A k \in Keys : outbox[k] = NoWake /\ outbox[k].state = "none"
      /\ \A m \in Matchers : matcher[m].at = "idle" /\ matcher[m].batch = {} /\ matcher[m].done = {}
      /\ \A w \in Workers : worker[w].at = "idle" /\ worker[w].batch = {}
      /\ owed = {}
  <2>1. /\ NoLease.active = FALSE /\ NoWake.state = "none"
        /\ IdleMatcher.at = "idle" /\ IdleMatcher.batch = {} /\ IdleMatcher.done = {}
        /\ IdleWorker.at = "idle" /\ IdleWorker.batch = {}
    BY DEF NoLease, NoWake, IdleMatcher, IdleWorker
  <2> QED
    BY <2>1 DEF Init
<1>3. \A i \in Installs, e \in Events : ~Due(i, e)
  BY <1>2 DEF Due
<1>4. RowsExist /\ DoneIsEnqueued
  BY <1>2 DEF RowsExist, DoneIsEnqueued
<1>5. FreshIsBare
  BY <1>2 DEF FreshIsBare, Keys
<1>6. EndpointsUnique /\ GateHeld /\ GoneIsInvalid /\ DisabledWasGone
  BY <1>2 DEF EndpointsUnique, GateHeld, GoneIsInvalid, DisabledWasGone
<1>7. OwedInThePast /\ WakeIsForDue /\ MatcherKnows
  BY <1>2, <1>3 DEF OwedInThePast, WakeIsForDue, MatcherKnows
<1>8. OwedIsTracked
  BY <1>2 DEF OwedIsTracked
<1> QED
  BY <1>1, <1>4, <1>5, <1>6, <1>7, <1>8 DEF IInv

LEMMA Inductive == Spec => []IInv
<1>1. IInv /\ [Next]_vars => IInv'
  BY TypeStep, RowsExistStep, FreshIsBareStep, DoneIsEnqueuedStep, EndpointsUniqueStep, GateHeldStep,
     GoneIsInvalidStep, DisabledWasGoneStep, OwedInThePastStep, WakeIsForDueStep, MatcherKnowsStep,
     OwedIsTrackedStep DEF IInv
<1> QED
  BY <1>1, IInvInit, PTL DEF Spec

(* No wake is lost at the gate: the advisory lock that inserts share and    *)
(* activations take exclusively, the claims of the matchers and the         *)
(* generation of the lease together keep every wake that is owed in the     *)
(* match queue or in the outbox, whatever crashes or lapses.                *)
THEOREM NoWakeLost == Spec => []OwedIsTracked
<1>1. IInv => OwedIsTracked
  BY DEF IInv
<1> QED
  BY <1>1, Inductive, PTL

(* disable_endpoint_generation never disables a lease that replaced the one *)
(* the gateway called gone, however late the worker applies the answer.     *)
THEOREM OnlyGoneDisabled == Spec => []DisabledWasGone
<1>1. IInv => DisabledWasGone
  BY DEF IInv
<1> QED
  BY <1>1, Inductive, PTL
-----------------------------------------------------------------------------
(* Claims *)

LEMMA WakeClaims ==
    ASSUME TypeOK, [Next]_vars, NEW k \in Keys, NEW w \in Workers,
           Holding(w, k), ~outbox[k].lapsed, worker'[w] = worker[w]
    PROVE  outbox'[k] \in {outbox[k], [outbox[k] EXCEPT !.lapsed = TRUE]}
<1>0. outbox \in [Keys -> WakeRow] /\ worker \in [Workers -> WorkerState] /\ outbox[k].state = "sending"
  BY DEF TypeOK, Holding
<1>1. ASSUME NEW m \in Matchers, Enqueue(m) PROVE outbox'[k] = outbox[k]
  <2>1. outbox[k] # NoWake
    BY <1>0 DEF NoWake
  <2> QED
    BY <1>1, <2>1, EnqueueRow
<1>2. ASSUME NEW v \in Workers, ClaimWakes(v) PROVE outbox'[k] = outbox[k]
  <2>1. k \notin DueWakes
    BY <1>0 DEF DueWakes, Lapsed
  <2> QED
    BY <1>2, <2>1 DEF ClaimWakes
<1>3. ASSUME NEW v \in Workers, NEW s \in {"pending", "delivered", "failed"}, Concludes(v, s)
      PROVE  outbox'[k] = outbox[k]
  <2>1. CASE v = w
    <3>1. worker'[w].at \in {"idle", "deliver"}
      BY <1>0, <1>3, <2>1 DEF Concludes, GoOn, IdleWorker
    <3>2. worker[w].at \notin {"idle", "deliver"}
      BY <1>3, <2>1 DEF Concludes
    <3> QED
      BY <3>1, <3>2
  <2>2. CASE v # w
    <3>1. ~Holding(v, k)
      BY <2>2 DEF Holding
    <3> QED
      BY <1>0, <1>3, <3>1 DEF Concludes, Conclude
  <2> QED
    BY <2>1, <2>2
<1>4. ASSUME NEW j \in Keys, LapseWake(j)
      PROVE  outbox'[k] \in {outbox[k], [outbox[k] EXCEPT !.lapsed = TRUE]}
  BY <1>0, <1>4 DEF LapseWake
<1> QED
  BY <1>1, <1>2, <1>3, <1>4, OutboxWriters

LEMMA JobClaims ==
    ASSUME TypeOK, FreshIsBare, [Next]_vars, NEW e \in Events, NEW m \in Matchers,
           Claimed(m, e), ~job[e].lapsed, matcher'[m] = matcher[m]
    PROVE  job'[e] \in {job[e], [job[e] EXCEPT !.lapsed = TRUE]}
<1>0. /\ job \in [Events -> JobRow] /\ matcher \in [Matchers -> MatcherState]
      /\ job[e].state = "matching" /\ job[e] # NoJob
  BY DEF TypeOK, Claimed, NoJob
<1>1. CASE AcceptCommit
  BY <1>0, <1>1 DEF AcceptCommit, Backfilled
<1>2. ASSUME NEW f \in Events, InsertCommit(f) PROVE job'[e] = job[e]
  <2>1. f # e
    BY <1>0, <1>2 DEF InsertCommit, FreshIsBare, Fresh
  <2> QED
    BY <1>0, <1>2, <2>1 DEF InsertCommit
<1>3. ASSUME NEW f \in Events, LapseJob(f)
      PROVE  job'[e] \in {job[e], [job[e] EXCEPT !.lapsed = TRUE]}
  BY <1>0, <1>3 DEF LapseJob
<1>4. CASE Reap
  BY <1>0, <1>4 DEF Reap, Exhausted, Lapsed
<1>5. ASSUME NEW n \in Matchers, ClaimJobs(n) PROVE job'[e] = job[e]
  <2>1. e \notin DueJobs
    BY <1>0 DEF DueJobs, Lapsed
  <2> QED
    BY <1>5, <2>1 DEF ClaimJobs
<1>6. ASSUME NEW n \in Matchers, LoadEvents(n) PROVE job'[e] = job[e]
  <2>1. n # m
    <3>1. ASSUME n = m PROVE FALSE
      <4>1. PICK live : matcher'[m] = IF live = {} THEN IdleMatcher
                                      ELSE [matcher[m] EXCEPT !.at = "context", !.batch = live]
        BY <1>0, <1>6, <3>1 DEF LoadEvents
      <4>2. matcher'[m].at # "load"
        BY <1>0, <4>1 DEF IdleMatcher, MatcherState
      <4> QED
        BY <1>6, <3>1, <4>2 DEF LoadEvents
    <3> QED
      BY <3>1
  <2>2. ~Claimed(n, e)
    BY <2>1 DEF Claimed
  <2> QED
    BY <1>6, <2>2 DEF LoadEvents
<1>7. ASSUME NEW n \in Matchers, CompleteJobs(n) \/ RetryJobs(n) PROVE job'[e] = job[e]
  <2>1. n # m
    <3>1. ASSUME n = m PROVE FALSE
      <4>1. CASE CompleteJobs(n)
        <5>1. matcher'[m].at = "retry" /\ matcher[m].at = "settle"
          BY <1>0, <3>1, <4>1 DEF CompleteJobs, MatcherState
        <5> QED
          BY <5>1
      <4>2. CASE RetryJobs(n)
        <5>1. matcher'[m] = IdleMatcher /\ matcher[m].at = "retry"
          BY <1>0, <3>1, <4>2 DEF RetryJobs
        <5> QED
          BY <5>1 DEF IdleMatcher
      <4> QED
        BY <1>7, <4>1, <4>2
    <3> QED
      BY <3>1
  <2>2. ~Claimed(n, e)
    BY <2>1 DEF Claimed
  <2> QED
    BY <1>7, <2>2 DEF CompleteJobs, RetryJobs
<1>8. ASSUME NEW n \in Matchers, LoadContext(n) \/ Enqueue(n) PROVE job' = job
  BY <1>8 DEF LoadContext, Enqueue
<1> QED
  BY <1>1, <1>2, <1>3, <1>4, <1>5, <1>6, <1>7, <1>8, StepWriters DEF Writers, Match

(* A row under a claim that has not lapsed is changed by its claimant only, *)
(* so that a late answer, completion or retry of an earlier claim does not  *)
(* touch it.                                                                *)
THEOREM ClaimsExclude == Spec => ClaimIsExclusive
<1>1. IInv /\ [Next]_vars =>
        [/\ \A k \in Keys, w \in Workers :
              Holding(w, k) /\ ~outbox[k].lapsed /\ worker'[w] = worker[w]
                  => outbox'[k] \in {outbox[k], [outbox[k] EXCEPT !.lapsed = TRUE]}
         /\ \A e \in Events, m \in Matchers :
              Claimed(m, e) /\ ~job[e].lapsed /\ matcher'[m] = matcher[m]
                  => job'[e] \in {job[e], [job[e] EXCEPT !.lapsed = TRUE]}]_vars
  BY WakeClaims, JobClaims DEF IInv
<1> QED
  BY <1>1, Inductive, PTL DEF Spec, ClaimIsExclusive
=============================================================================
