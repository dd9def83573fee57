----------------------------- MODULE PushWakes -----------------------------
(***************************************************************************)
(* Push leases, the matcher queue and the wake outbox of one community and *)
(* one author (buzz-db/src/push.rs, the trigger of migration 0023), with   *)
(* the workers that run on them (buzz-relay/src/push_runtime.rs).          *)
(*                                                                         *)
(* A step is one SQL statement or one transaction, except that accepting a *)
(* lease and inserting an event have two: the point where the advisory     *)
(* gate lock is granted, and the commit.  Claim ids are represented by the *)
(* worker, which never works on two claims at once.  Time is represented   *)
(* by what it makes true: a claim lapses, a lease expires, an event leaves *)
(* the backfill window and later stops being useful.                       *)
(***************************************************************************)
EXTENDS Integers, FiniteSets

CONSTANTS Installs, Endpoints, Events,
          Matchers, Workers,
          LeaseEvents,       \* the kind:30350 events the author publishes
          MaxActive,         \* MAX_ACTIVE_LEASES
          MaxMatchAttempts,  \* MAX_MATCH_ATTEMPTS
          MaxAttempts,       \* MAX_ATTEMPTS
          MaxFaults,         \* bound: crashes, failed calls, claims outlived by their
                             \*   work, and leases, events and members that go away
          None

ASSUME PushConstants ==
    /\ LeaseEvents \subseteq [install : Installs, order : Nat \ {0}, generation : Nat \ {0},
                               active : BOOLEAN, endpoint : Endpoints \cup {None}]
    /\ \A v \in LeaseEvents : v.active = (v.endpoint # None)
    /\ None \notin LeaseEvents \cup Installs \cup Endpoints \cup Matchers \cup Workers
    /\ None \notin Endpoints \X Events
    /\ MaxActive \in Nat /\ MaxFaults \in Nat
    /\ MaxMatchAttempts \in Nat \ {0} /\ MaxAttempts \in Nat \ {0, 1}

Keys == Endpoints \X Events       \* the outbox's unique key
Responses == {"accepted", "gone", "busy", "notfound", "other"}

VARIABLES lease,      \* push_leases
          accepting,  \* the lease event whose transaction holds the locks
          refused,    \* the table's CHECK constraint has rejected a lease event
          event,      \* events: "absent", "inserting", "live" or "deleted"
          gated,      \* what the trigger of an insert under way decided
          age,        \* "recent", "useful" or "stale"
          member,     \* the author is a member of the events' channel
          job,        \* push_match_queue
          outbox,     \* push_wake_outbox
          matcher, worker,
          faults,
          owed, dropped, invalid  \* history: wakes owed, given up, grants invalid

leasing == <<lease, accepting, refused>>
source == <<event, gated, age, member>>
history == <<owed, dropped, invalid>>
vars == <<lease, accepting, refused, event, gated, age, member, job, outbox, matcher,
          worker, faults, owed, dropped, invalid>>

NoLease == [order |-> 0, generation |-> 0, active |-> FALSE, enabled |-> FALSE,
            endpoint |-> None, expired |-> FALSE]
NoJob == [state |-> "none", claim |-> None, lapsed |-> FALSE, attempts |-> 0]
NewJob == [NoJob EXCEPT !.state = "pending"]
NoWake == [state |-> "none", install |-> None, generation |-> 0, claim |-> None,
           lapsed |-> FALSE, attempts |-> 0]

Effective(i) == lease[i].active /\ lease[i].enabled /\ ~lease[i].expired

Fault == faults > 0 /\ faults' = faults - 1
-----------------------------------------------------------------------------
(* accept_lease_event *)

(* Faulty variant: an activation does not wait for inserts under way. *)
AcceptBegin_ungated(v) ==
    /\ accepting = None
    /\ accepting' = v
    /\ UNCHANGED <<lease, refused, source, job, outbox, matcher, worker, faults, history>>

(* The address and author locks admit one transaction of the author; an    *)
(* activation also needs the gate lock, which inserts hold shared.         *)
AcceptBegin(v) ==
    /\ accepting = None
    /\ v.active => \A e \in Events : event[e] # "inserting"
    /\ accepting' = v
    /\ UNCHANGED <<lease, refused, source, job, outbox, matcher, worker, faults, history>>

Wins(v) == /\ v.order > lease[v.install].order
           /\ v.generation > lease[v.install].generation

(* The clean-up of the author's expired leases clears active and leaves    *)
(* the endpoint columns, which the table's CHECK constraint forbids.       *)
CleanupFails == \E j \in Installs : lease[j].active /\ lease[j].expired

Others(v) == {j \in Installs \ {v.install} : lease[j].active}

Admissible(v) ==
    v.active => /\ Cardinality(Others(v)) < MaxActive
                /\ \A j \in Others(v) : lease[j].endpoint # v.endpoint

(* backfill_push_match_jobs, in the activation's own transaction. *)
Backfilled ==
    [e \in Events |-> IF event[e] = "live" /\ age[e] = "recent" /\ job[e] = NoJob
                      THEN NewJob ELSE job[e]]

AcceptCommit ==
    /\ accepting # None
    /\ LET v == accepting
           accepted == Wins(v) /\ ~CleanupFails /\ Admissible(v)
       IN  /\ lease' = IF accepted
                       THEN [lease EXCEPT ![v.install] =
                                [order |-> v.order, generation |-> v.generation,
                                 active |-> v.active, enabled |-> TRUE,
                                 endpoint |-> v.endpoint, expired |-> FALSE]]
                       ELSE lease
           /\ job' = IF accepted /\ v.active THEN Backfilled ELSE job
           /\ refused' = (refused \/ (Wins(v) /\ CleanupFails))
    /\ accepting' = None
    /\ UNCHANGED <<source, outbox, matcher, worker, faults, history>>

ExpireLease(i) ==
    /\ lease[i].active /\ ~lease[i].expired /\ Fault
    /\ lease' = [lease EXCEPT ![i].expired = TRUE]
    /\ UNCHANGED <<accepting, refused, source, job, outbox, matcher, worker, history>>
-----------------------------------------------------------------------------
(* Events *)

(* The trigger takes the gate lock shared and looks for an effective lease. *)
InsertBegin(e) ==
    /\ event[e] = "absent"
    /\ accepting # None => ~accepting.active
    /\ event' = [event EXCEPT ![e] = "inserting"]
    /\ gated' = [gated EXCEPT ![e] = \E i \in Installs : Effective(i)]
    /\ UNCHANGED <<leasing, age, member, job, outbox, matcher, worker, faults, history>>

InsertCommit(e) ==
    /\ event[e] = "inserting"
    /\ event' = [event EXCEPT ![e] = "live"]
    /\ job' = [job EXCEPT ![e] = IF gated[e] THEN NewJob ELSE @]
    /\ gated' = [gated EXCEPT ![e] = FALSE]
    /\ owed' = owed \cup {<<i, lease[i].generation, e>> : i \in {j \in Installs : Effective(j)}}
    /\ UNCHANGED <<leasing, age, member, outbox, matcher, worker, faults, dropped, invalid>>

Delete(e) ==
    /\ event[e] = "live" /\ Fault
    /\ event' = [event EXCEPT ![e] = "deleted"]
    /\ UNCHANGED <<leasing, gated, age, member, job, outbox, matcher, worker, history>>

Older(e) ==
    /\ event[e] = "live" /\ age[e] # "stale" /\ Fault
    /\ age' = [age EXCEPT ![e] = IF @ = "recent" THEN "useful" ELSE "stale"]
    /\ UNCHANGED <<leasing, event, gated, member, job, outbox, matcher, worker, history>>

LeaveChannel ==
    /\ member /\ Fault
    /\ member' = FALSE
    /\ UNCHANGED <<leasing, event, gated, age, job, outbox, matcher, worker, history>>
-----------------------------------------------------------------------------
(* The matcher: run_matcher and process_match_batch *)

IdleMatcher == [at |-> "idle", batch |-> {}, seen |-> {}, done |-> {}, again |-> {}]

Lapsed(row, busy) == row.state = busy /\ row.lapsed

(* Faulty variant: a job is claimed however often it was attempted. *)
DueJobs_unbounded ==
    {e \in Events : job[e].state = "pending" \/ Lapsed(job[e], "matching")}

DueJobs == {e \in Events : /\ job[e].attempts < MaxMatchAttempts
                           /\ job[e].state = "pending" \/ Lapsed(job[e], "matching")}

(* claim_due_match_batch: locked rows are skipped, so any due ones. *)
ClaimJobs(m) ==
    /\ matcher[m].at = "idle"
    /\ \E batch \in (SUBSET DueJobs) \ {{}} :
         /\ job' = [e \in Events |->
                      IF e \in batch
                      THEN [state |-> "matching", claim |-> m, lapsed |-> FALSE,
                            attempts |-> job[e].attempts + 1]
                      ELSE job[e]]
         /\ matcher' = [matcher EXCEPT ![m] = [IdleMatcher EXCEPT !.at = "load", !.batch = batch]]
    /\ UNCHANGED <<leasing, source, outbox, worker, faults, history>>

Claimed(m, e) == job[e].state = "matching" /\ job[e].claim = m

(* Jobs whose event is gone are deleted under the claim. *)
LoadEvents(m) ==
    /\ matcher[m].at = "load"
    /\ LET live == {e \in matcher[m].batch : event[e] = "live"}
       IN  /\ job' = [e \in Events |-> IF e \in matcher[m].batch \ live /\ Claimed(m, e)
                                       THEN NoJob ELSE job[e]]
           /\ matcher' = [matcher EXCEPT ![m] =
                IF live = {} THEN IdleMatcher ELSE [@ EXCEPT !.at = "context", !.batch = live]]
    /\ UNCHANGED <<leasing, source, outbox, worker, faults, history>>

(* load_match_context: the active leases and the author's membership. *)
LoadContext(m) ==
    /\ matcher[m].at = "context"
    /\ \/ /\ matcher' = [matcher EXCEPT ![m].at = "enqueue",
                ![m].seen = {<<i, lease[i].generation>> :
                               i \in {j \in Installs : Effective(j) /\ member}}]
          /\ UNCHANGED faults
       \/ /\ Fault
          /\ matcher' = [matcher EXCEPT ![m].at = "retry", ![m].again = matcher[m].batch]
    /\ UNCHANGED <<leasing, source, job, outbox, worker, history>>

(* The wakes that matching e against the loaded leases asks for; an        *)
(* install whose lease has changed since is left out.                      *)
Requests(m, e) ==
    IF age[e] = "stale" THEN {}
    ELSE {i \in Installs : Effective(i) /\ <<i, lease[i].generation>> \in matcher[m].seen}

(* The failed jobs that are completed rather than retried. *)
GivenUp(m, bad) == {e \in bad : Claimed(m, e) /\ job[e].attempts >= MaxMatchAttempts}

(* match_job and enqueue_wakes.  Matching may fail for one job, and the    *)
(* transaction for all; such jobs are retried, but not for ever.           *)
Enqueue(m) ==
    /\ matcher[m].at = "enqueue"
    /\ \E bad \in SUBSET matcher[m].batch :
         /\ IF bad = {} THEN UNCHANGED faults ELSE Fault
         /\ LET good == matcher[m].batch \ bad
                last == GivenUp(m, bad)
            IN  /\ outbox' = [k \in Keys |->
                      IF /\ outbox[k] = NoWake /\ k[2] \in good
                         /\ \E i \in Requests(m, k[2]) : lease[i].endpoint = k[1]
                      THEN LET i == CHOOSE j \in Requests(m, k[2]) : lease[j].endpoint = k[1]
                           IN  [NoWake EXCEPT !.state = "pending", !.install = i,
                                              !.generation = lease[i].generation]
                      ELSE outbox[k]]
                /\ matcher' = [matcher EXCEPT ![m].at = "settle", ![m].done = good \cup last,
                                              ![m].again = bad \ last]
                /\ dropped' = dropped \cup last
    /\ UNCHANGED <<leasing, source, job, worker, owed, invalid>>

(* complete_match_batch and retry_match_batch, two statements under the    *)
(* claim.  One that fails leaves its rows to the claim.                    *)
CompleteJobs(m) ==
    /\ matcher[m].at = "settle"
    /\ \/ /\ job' = [e \in Events |->
                      IF e \in matcher[m].done /\ Claimed(m, e) THEN NoJob ELSE job[e]]
          /\ UNCHANGED faults
       \/ matcher[m].done # {} /\ Fault /\ UNCHANGED job
    /\ matcher' = [matcher EXCEPT ![m].at = "retry", ![m].done = {}]
    /\ UNCHANGED <<leasing, source, outbox, worker, history>>

RetryJobs(m) ==
    /\ matcher[m].at = "retry"
    /\ \/ /\ job' = [e \in Events |->
                      IF e \in matcher[m].again /\ Claimed(m, e)
                      THEN [job[e] EXCEPT !.state = "pending", !.claim = None, !.lapsed = FALSE]
                      ELSE job[e]]
          /\ UNCHANGED faults
       \/ matcher[m].again # {} /\ Fault /\ UNCHANGED job
    /\ matcher' = [matcher EXCEPT ![m] = IdleMatcher]
    /\ UNCHANGED <<leasing, source, outbox, worker, history>>

MatcherCrash(m) ==
    /\ matcher[m].at # "idle" /\ Fault
    /\ matcher' = [matcher EXCEPT ![m] = IdleMatcher]
    /\ UNCHANGED <<leasing, source, job, outbox, worker, history>>

(* CLAIM_SECS pass, while the matcher is at work or after it has left. *)
LapseJob(e) ==
    /\ job[e].state = "matching" /\ ~job[e].lapsed
    /\ IF e \in matcher[job[e].claim].batch THEN Fault ELSE UNCHANGED faults
    /\ job' = [job EXCEPT ![e].lapsed = TRUE]
    /\ UNCHANGED <<leasing, source, outbox, matcher, worker, history>>

(* Faulty variant: a claimed job is left to its matcher. *)
Exhausted_pending == {e \in Events : /\ job[e].attempts >= MaxMatchAttempts
                                     /\ job[e].state = "pending"}

Exhausted == {e \in Events : /\ job[e].attempts >= MaxMatchAttempts
                             /\ job[e].state = "pending" \/ Lapsed(job[e], "matching")}

(* reap_exhausted_matches *)
Reap ==
    /\ Exhausted # {}
    /\ job' = [e \in Events |-> IF e \in Exhausted THEN NoJob ELSE job[e]]
    /\ dropped' = dropped \cup Exhausted
    /\ UNCHANGED <<leasing, source, outbox, matcher, worker, faults, owed, invalid>>
-----------------------------------------------------------------------------
(* Delivery: run_delivery_worker and deliver_one *)

IdleWorker == [at |-> "idle", batch |-> {}, wake |-> None, response |-> None]

(* The join of a wake with its lease and its event. *)
Deliverable(k) ==
    LET w == outbox[k]
    IN  /\ w.install # None /\ Effective(w.install)
        /\ lease[w.install].generation = w.generation
        /\ lease[w.install].endpoint = k[1]
        /\ event[k[2]] = "live" /\ age[k[2]] # "stale"

DueWakes == {k \in Keys : /\ Deliverable(k)
                          /\ outbox[k].state = "pending" \/ Lapsed(outbox[k], "sending")}

Capped(n) == IF n > MaxAttempts THEN MaxAttempts ELSE n

(* claim_due_wakes *)
ClaimWakes(w) ==
    /\ worker[w].at = "idle"
    /\ \E batch \in (SUBSET DueWakes) \ {{}} :
         /\ outbox' = [k \in Keys |->
                         IF k \in batch
                         THEN [outbox[k] EXCEPT !.state = "sending", !.claim = w, !.lapsed = FALSE,
                                                !.attempts = Capped(@ + 1)]
                         ELSE outbox[k]]
         /\ worker' = [worker EXCEPT ![w] = [IdleWorker EXCEPT !.at = "deliver", !.batch = batch]]
    /\ UNCHANGED <<leasing, source, job, matcher, faults, history>>

Holding(w, k) == outbox[k].state = "sending" /\ outbox[k].claim = w

(* revalidate_wake_for_send *)
Revalidated(w, k) == Holding(w, k) /\ ~outbox[k].lapsed /\ Deliverable(k)

(* Faulty variant: the claim is not part of the condition. *)
Conclude_unfenced(w, k, state) ==
    outbox' = [outbox EXCEPT ![k] =
                 IF outbox[k].state = "sending"
                 THEN [@ EXCEPT !.state = state, !.claim = None, !.lapsed = FALSE] ELSE @]

(* complete_wake, retry_wake and fail_wake: all under the claim. *)
Conclude(w, k, state) ==
    outbox' = [outbox EXCEPT ![k] =
                 IF Holding(w, k)
                 THEN [@ EXCEPT !.state = state, !.claim = None, !.lapsed = FALSE] ELSE @]

Proceed(w, to) == worker' = [worker EXCEPT ![w].at = to]

GoOn(w, batch) ==
    worker' = [worker EXCEPT ![w] =
                 IF batch = {} THEN IdleWorker
                 ELSE [IdleWorker EXCEPT !.at = "deliver", !.batch = batch]]

(* The first check of the next wake of the batch. *)
Revalidate(w) ==
    /\ worker[w].at = "deliver"
    /\ \E k \in worker[w].batch :
         worker' = [worker EXCEPT ![w].batch = @ \ {k}, ![w].wake = k,
                       ![w].at = IF Revalidated(w, k) THEN "member" ELSE "suppress"]
    /\ UNCHANGED <<leasing, source, job, outbox, matcher, faults, history>>

(* fail_wake: suppressed, no longer authorized, or the endpoint is gone. *)
Suppress(w) ==
    /\ worker[w].at = "suppress"
    /\ Conclude(w, worker[w].wake, "failed")
    /\ GoOn(w, worker[w].batch)
    /\ UNCHANGED <<leasing, source, job, matcher, faults, history>>

IsMember(w) ==
    /\ worker[w].at = "member"
    /\ \/ /\ Proceed(w, IF member THEN "final" ELSE "suppress")
          /\ UNCHANGED <<outbox, faults>>
       \/ /\ Fault
          /\ Conclude(w, worker[w].wake, "pending")
          /\ GoOn(w, worker[w].batch)
    /\ UNCHANGED <<leasing, source, job, matcher, history>>

(* The check after the last wait before the request is sent. *)
RevalidateAgain(w) ==
    /\ worker[w].at = "final"
    /\ Proceed(w, IF Revalidated(w, worker[w].wake) THEN "send" ELSE "suppress")
    /\ UNCHANGED <<leasing, source, job, outbox, matcher, faults, history>>

(* A query, or the signing of the request, fails: the wake is left to its  *)
(* claim.                                                                  *)
LeaveToClaim(w) ==
    /\ Fault
    /\ \/ /\ worker[w].at = "deliver"
          /\ \E k \in worker[w].batch : GoOn(w, worker[w].batch \ {k})
       \/ /\ worker[w].at \in {"final", "send", "answer", "suppress"}
          /\ GoOn(w, worker[w].batch)
    /\ UNCHANGED <<leasing, source, job, outbox, matcher, history>>

(* The gateway may answer anything; a time-out counts as busy. *)
Send(w) ==
    /\ worker[w].at = "send"
    /\ \E r \in Responses :
         /\ worker' = [worker EXCEPT ![w].at = "answer", ![w].response = r]
         /\ invalid' = IF r = "gone"
                       THEN invalid \cup {<<outbox[worker[w].wake].install,
                                            outbox[worker[w].wake].generation>>}
                       ELSE invalid
    /\ UNCHANGED <<leasing, source, job, outbox, matcher, faults, owed, dropped>>

(* Faulty variant: whatever generation the lease has by now is disabled. *)
Disable_current(i, g) ==
    lease' = IF Effective(i) THEN [lease EXCEPT ![i].enabled = FALSE] ELSE lease

(* disable_endpoint_generation *)
Disable(i, g) ==
    lease' = IF lease[i].generation = g /\ lease[i].active
             THEN [lease EXCEPT ![i].enabled = FALSE] ELSE lease

(* Faulty variant: a busy gateway is asked again for ever. *)
Verdict_patient(response, attempts) ==
    CASE response = "accepted" -> "delivered"
      [] response = "busy"     -> "pending"
      [] OTHER                 -> "failed"

(* What becomes of a wake, by the gateway's response. *)
Verdict(response, attempts) ==
    CASE response = "accepted" -> "delivered"
      [] response = "busy"     -> IF attempts >= MaxAttempts THEN "failed" ELSE "pending"
      [] response = "notfound" -> IF attempts > 1 THEN "delivered" ELSE "failed"
      [] OTHER                 -> "failed"

Answer(w) ==
    /\ worker[w].at = "answer" /\ worker[w].response # "gone"
    /\ LET k == worker[w].wake
       IN  Conclude(w, k, Verdict(worker[w].response, outbox[k].attempts))
    /\ GoOn(w, worker[w].batch)
    /\ UNCHANGED <<leasing, source, job, matcher, faults, history>>

EndpointGone(w) ==
    /\ worker[w].at = "answer" /\ worker[w].response = "gone"
    /\ Disable(outbox[worker[w].wake].install, outbox[worker[w].wake].generation)
    /\ Proceed(w, "suppress")
    /\ UNCHANGED <<accepting, refused, source, job, outbox, matcher, faults, history>>

WorkerCrash(w) ==
    /\ worker[w].at # "idle" /\ Fault
    /\ worker' = [worker EXCEPT ![w] = IdleWorker]
    /\ UNCHANGED <<leasing, source, job, outbox, matcher, history>>

LapseWake(k) ==
    /\ outbox[k].state = "sending" /\ ~outbox[k].lapsed
    /\ LET w == worker[outbox[k].claim]
       IN  IF k \in w.batch \cup {w.wake} THEN Fault ELSE UNCHANGED faults
    /\ outbox' = [outbox EXCEPT ![k].lapsed = TRUE]
    /\ UNCHANGED <<leasing, source, job, matcher, worker, history>>
-----------------------------------------------------------------------------
Init ==
    /\ lease = [i \in Installs |-> NoLease] /\ accepting = None /\ refused = FALSE
    /\ event = [e \in Events |-> "absent"] /\ gated = [e \in Events |-> FALSE]
    /\ age = [e \in Events |-> "recent"] /\ member = TRUE
    /\ job = [e \in Events |-> NoJob] /\ outbox = [k \in Keys |-> NoWake]
    /\ matcher = [m \in Matchers |-> IdleMatcher] /\ worker = [w \in Workers |-> IdleWorker]
    /\ faults = MaxFaults
    /\ owed = {} /\ dropped = {} /\ invalid = {}

Match(m) == \/ ClaimJobs(m) \/ LoadEvents(m) \/ LoadContext(m) \/ Enqueue(m)
            \/ CompleteJobs(m) \/ RetryJobs(m)

Deliver(w) == \/ ClaimWakes(w) \/ Revalidate(w) \/ Suppress(w)
              \/ IsMember(w) \/ RevalidateAgain(w) \/ Send(w) \/ Answer(w) \/ EndpointGone(w)

Next ==
    \/ \E v \in LeaseEvents : AcceptBegin(v)
    \/ AcceptCommit
    \/ \E i \in Installs : ExpireLease(i)
    \/ \E e \in Events : InsertBegin(e) \/ InsertCommit(e) \/ Delete(e) \/ Older(e) \/ LapseJob(e)
    \/ LeaveChannel
    \/ \E m \in Matchers : Match(m) \/ MatcherCrash(m)
    \/ Reap
    \/ \E w \in Workers : Deliver(w) \/ LeaveToClaim(w) \/ WorkerCrash(w)
    \/ \E k \in Keys : LapseWake(k)

Spec == Init /\ [][Next]_vars

(* Matchers and workers poll for ever, matchers sweep every REAP_INTERVAL, *)
(* and a claim that is not settled in CLAIM_SECS lapses.                   *)
FairSpec ==
    /\ Spec
    /\ \A m \in Matchers : WF_vars(Match(m))
    /\ \A e \in Events : WF_vars(LapseJob(e))
    /\ WF_vars(Reap)
    /\ \A w \in Workers : WF_vars(Deliver(w))
    /\ \A k \in Keys : WF_vars(LapseWake(k))
-----------------------------------------------------------------------------
(* Properties *)

LeaseRow == [order : Nat, generation : Nat, active : BOOLEAN, enabled : BOOLEAN,
             endpoint : Endpoints \cup {None}, expired : BOOLEAN]
JobRow == {r \in [state : {"none", "pending", "matching"}, claim : Matchers \cup {None},
                  lapsed : BOOLEAN, attempts : 0..MaxMatchAttempts] :
             /\ r.state = "matching" <=> r.claim \in Matchers
             /\ r.state = "none" => r = NoJob}
WakeRow == {r \in [state : {"none", "pending", "sending", "delivered", "failed"},
                   install : Installs \cup {None}, generation : Nat,
                   claim : Workers \cup {None}, lapsed : BOOLEAN, attempts : 0..MaxAttempts] :
              /\ r.state = "sending" <=> r.claim \in Workers
              /\ r.state = "none" => r = NoWake}
MatcherState == [at : {"idle", "load", "context", "enqueue", "settle", "retry"},
                 batch : SUBSET Events, seen : SUBSET (Installs \X Nat),
                 done : SUBSET Events, again : SUBSET Events]
WorkerState == [at : {"idle", "deliver", "suppress", "member", "final", "send", "answer"},
                batch : SUBSET Keys, wake : Keys \cup {None},
                response : Responses \cup {None}]

TypeOK ==
    /\ lease \in [Installs -> LeaseRow]
    /\ accepting \in LeaseEvents \cup {None} /\ refused \in BOOLEAN
    /\ event \in [Events -> {"absent", "inserting", "live", "deleted"}]
    /\ gated \in [Events -> BOOLEAN] /\ age \in [Events -> {"recent", "useful", "stale"}]
    /\ member \in BOOLEAN
    /\ job \in [Events -> JobRow] /\ outbox \in [Keys -> WakeRow]
    /\ matcher \in [Matchers -> MatcherState] /\ worker \in [Workers -> WorkerState]
    /\ faults \in 0..MaxFaults

(* No wake is lost at the gate: for an event that was committed while a    *)
(* lease was in effect, and as long as both stand, there is a matcher job, *)
(* or a wake for exactly that lease, unless matching was given up after    *)
(* its attempts.  (The "total order" of migration 0023.)                   *)
OwedIsTracked ==
    \A i \in Installs, e \in Events :
        LET g == lease[i].generation
        IN  /\ Effective(i) /\ <<i, g, e>> \in owed /\ e \notin dropped /\ member
            /\ event[e] = "live" /\ age[e] # "stale"
            => \/ job[e].state # "none"
               \/ LET w == outbox[<<lease[i].endpoint, e>>]
                  IN  w.state # "none" /\ w.install = i /\ w.generation = g

(* While a claim has not lapsed, only its worker changes the row: a late   *)
(* answer of an earlier claim is without effect.                           *)
ClaimIsExclusive ==
    [][/\ \A k \in Keys, w \in Workers :
            Holding(w, k) /\ ~outbox[k].lapsed /\ worker'[w] = worker[w]
                => outbox'[k] \in {outbox[k], [outbox[k] EXCEPT !.lapsed = TRUE]}
       /\ \A e \in Events, m \in Matchers :
            Claimed(m, e) /\ ~job[e].lapsed /\ matcher'[m] = matcher[m]
                => job'[e] \in {job[e], [job[e] EXCEPT !.lapsed = TRUE]}]_vars

(* A permanent failure disables only the endpoint generation it was about: *)
(* a lease that was replaced meanwhile stays enabled.                      *)
DisabledWasGone ==
    \A i \in Installs :
        lease[i].active /\ ~lease[i].enabled => <<i, lease[i].generation>> \in invalid

(* No job stays in the queue for ever, not even one whose matcher crashed  *)
(* on the last attempt.                                                    *)
JobsSettle == \A e \in Events : job[e].state # "none" ~> job[e].state = "none"

(* Every wake is settled in the end, unless its lease, its event or its    *)
(* usefulness ends first: crashes, lapses and a busy gateway are outlived. *)
WakesSettle ==
    \A k \in Keys : outbox[k].state \in {"pending", "sending"}
                      ~> outbox[k].state \in {"delivered", "failed"} \/ ~Deliverable(k)

(* Claiming is "recovering expired worker leases" (push.rs 1019): a wake   *)
(* that could still be delivered is failed only on an answer.              *)
LapsedClaimIsRecovered ==
    [][\A k \in Keys :
         /\ outbox[k].state = "sending" /\ outbox'[k].state = "failed"
         /\ Deliverable(k) /\ member
         => \E w \in Workers : worker[w].wake = k /\ worker[w].response # None]_vars

(* "Expired leases are ineffective and must not consume quota or endpoint  *)
(* uniqueness forever" (push.rs 287): no lease event that wins both        *)
(* orderings is refused because of one.                                    *)
ExpiredLeaseIsHarmless == ~refused
=============================================================================
