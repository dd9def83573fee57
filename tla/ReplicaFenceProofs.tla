------------------------- MODULE ReplicaFenceProofs -------------------------
(***************************************************************************)
(* Pages from replicas are complete, for any number of pods, transactions  *)
(* and probes and any settings, as long as the writer is not restored from *)
(* a backup.                                                               *)
(***************************************************************************)
EXTENDS ReplicaFence, SequenceTheorems, FiniteSetTheorems, WellFoundedInduction, TLAPS

-----------------------------------------------------------------------------
(* The inductive invariant: what holds on every timeline *)

Entries == Rows \cup Beats
Faults == [pods : SUBSET Pods, beats : Nat, failures : Nat, restores : Nat]

\* A transaction starts, passes its guard and is prepared, in this order.
InOrder(r, now) ==
  /\ r.at \in {"open", "guarded", "prepared"} =>
       r.start \in Nat /\ r.start <= now /\ r.created_at \in CreatedAts
  /\ r.at \in {"guarded", "prepared"} =>
       /\ r.guard \in Nat /\ r.start <= r.guard /\ r.guard <= now
       /\ r.created_at >= r.guard - Floor
  /\ r.at = "prepared" =>
       r.prepared \in Nat /\ r.guard <= r.prepared /\ r.prepared <= now /\ r.prepared - r.guard < Margin

XactsInOrder == \A x \in Xacts : InOrder(xact[x], clock)

\* What a probe has read so far.
Sampled(r, now) ==
  /\ r.at # "idle" => r.sampled_at \in Nat /\ r.sampled_at <= now
  /\ r.at \in {"token", "record", "rotate"} => r.committed_at \in Nat /\ r.committed_at <= now
  /\ r.at = "record" => r.beat \in Beats

ProbesSampled == \A p \in Pods : Sampled(probe[p], clock)

\* There is a greatest epoch.
EpochsBounded ==
  \E b \in Nat : \A t \in 1..Len(logs) : \A i \in 1..Len(logs[t]) :
    logs[t][i].kind = "beat" => logs[t][i].epoch <= b

Taken(s) == s.timeline \in 1..Len(logs) /\ s.pos \in 0..Len(logs[s.timeline])

SnapshotsTaken ==
  /\ session # None => Taken(session.snapshot)
  /\ page # None => Taken(page.snapshot)

Sane == TypeOK /\ XactsInOrder /\ ProbesSampled /\ EpochsBounded /\ SnapshotsTaken

-----------------------------------------------------------------------------
(* The inductive invariant: what holds until the writer is restored *)

Unrestored == Len(logs) = 1

TokensGrow ==
  \A i, j \in 1..Len(Log) : i < j /\ Log[i].kind = "beat" /\ Log[j].kind = "beat" => Log[i].token < Log[j].token

\* No open transaction is older than m.
Begun(m) == m <= clock /\ \A x \in Xacts : xact[x].at \in {"open", "guarded"} => xact[x].start >= m

\* No prepared transaction is older than m.
Held(m) == m <= clock /\ \A x \in Xacts : xact[x].at = "prepared" => xact[x].prepared >= m

\* Nothing at or below the wall is committed from now on, and nothing was after
\* the first k commits.
Sealed(wall, k) ==
  /\ Begun(wall + Floor + Margin)
  /\ \A x \in Xacts : xact[x].at = "prepared" => xact[x].prepared >= wall + Floor + Margin
  /\ \A j \in 1..Len(Log) : j > k /\ Log[j].kind = "row" => Log[j].created_at > wall

\* Everything after the first k commits is as young as since.
Dated(since, k) ==
  /\ since <= clock
  /\ \A j \in 1..Len(Log) : j > k /\ Log[j].kind = "row" => Log[j].time >= since

Oldest(r) == Earliest({r.sampled_at, r.oldest})
Wall(r) == fence_wall(r.sampled_at, r.oldest)

ProbeSealed(r) ==
  /\ r.at = "prepared" => Begun(Oldest(r))
  /\ r.at = "activity" => Held(Oldest(r))
  /\ r.at \in {"token", "rotate"} => Sealed(Wall(r), Len(Log)) /\ Dated(r.committed_at, Len(Log))
  /\ r.at = "record" =>
       \E k \in 1..Len(Log) : Log[k] = r.beat /\ Sealed(Wall(r), k) /\ Dated(r.committed_at, k)

\* The beat of an entry is in the log, and the entry is right about it.
EntrySealed(e) ==
  \E k \in 1..Len(Log) : /\ Log[k].kind = "beat" /\ Log[k].token = e.token
                         /\ Sealed(e.fence_wall, k) /\ Dated(e.committed_at, k)

RingSealed(f) == \A i \in 1..Len(f.ring) : EntrySealed(f.ring[i])

PageSealed(pg) ==
  pg # None => /\ pg.upper # None => Sealed(pg.upper, pg.snapshot.pos)
               /\ pg.since # None => Dated(pg.since, pg.snapshot.pos)

Proven ==
  /\ TokensGrow
  /\ \A p \in Pods : ProbeSealed(probe[p]) /\ RingSealed(fence[p])
  /\ PageSealed(page)

IInv == Sane /\ (Unrestored => Proven)

-----------------------------------------------------------------------------
(* Least and greatest *)

LEMMA LeastNatural ==
  ASSUME NEW S, S \subseteq Nat, S # {}
  PROVE  \E n \in S : \A m \in S : n <= m
<1>1. PICK n \in S : \A m \in S : ~(<<m, n>> \in OpToRel(<, Nat))
  BY NatLessThanWellFounded, WFMin
<1>2. ASSUME NEW m \in S PROVE ~(m < n)
  <2>1. <<m, n>> \in Nat \X Nat
    OBVIOUS
  <2>2. m < n => <<m, n>> \in OpToRel(<, Nat)
    BY <2>1 DEF OpToRel
  <2>3. QED
    BY <1>1, <2>2
<1>3. \A m \in S : n <= m
  BY <1>2
<1>4. QED
  BY <1>3

LEMMA GreatestNatural ==
  ASSUME NEW b \in Nat, NEW S, S \subseteq 0..b, S # {}
  PROVE  \E n \in S : \A m \in S : n >= m
<1> DEFINE T == {b - n : n \in S}
<1>1. T \subseteq Nat /\ T # {}
  <2>1. ASSUME NEW t \in T PROVE t \in Nat
    <3>1. PICK n \in S : t = b - n
      OBVIOUS
    <3>2. n \in 0..b
      OBVIOUS
    <3>3. QED
      BY <3>1, <3>2
  <2>2. QED
    BY <2>1
<1>2. PICK t \in T : \A u \in T : t <= u
  BY <1>1, LeastNatural
<1>3. PICK n \in S : t = b - n
  BY <1>2
<1>4. \A m \in S : b - n <= b - m
  BY <1>2, <1>3
<1>5. \A m \in S : n >= m
  BY <1>4
<1>6. QED
  BY <1>5

LEMMA MinIs ==
  ASSUME NEW S, S \subseteq Nat, S # {}
  PROVE  Min(S) \in S /\ \A m \in S : Min(S) <= m
BY LeastNatural DEF Min

LEMMA MaxIs ==
  ASSUME NEW b \in Nat, NEW S, S \subseteq 0..b, S # {}
  PROVE  Max(S) \in S /\ \A m \in S : Max(S) >= m
BY GreatestNatural DEF Max

LEMMA EarliestIs ==
  ASSUME NEW T, T \subseteq TimeOrNone
  PROVE  /\ Earliest(T) \in TimeOrNone
         /\ Earliest(T) # None => Earliest(T) \in T /\ Earliest(T) \in Nat
         /\ \A t \in T : t # None => Earliest(T) \in Nat /\ Earliest(T) <= t
<1>1. T \ {None} \subseteq Nat
  BY DEF TimeOrNone
<1>2. CASE T \ {None} = {}
  BY <1>2 DEF Earliest, TimeOrNone
<1>3. CASE T \ {None} # {}
  <2>1. Earliest(T) = Min(T \ {None})
    BY <1>3 DEF Earliest
  <2>2. Earliest(T) \in T \ {None} /\ \A m \in T \ {None} : Earliest(T) <= m
    BY <1>1, <1>3, <2>1, MinIs
  <2>3. QED
    BY <1>1, <2>2 DEF TimeOrNone
<1>4. QED
  BY <1>2, <1>3

-----------------------------------------------------------------------------
(* Logs *)

LEMMA EntryKinds ==
  ASSUME NEW e \in Entries
  PROVE  /\ e.kind = "beat" => e \in Beats /\ e.token \in Nat /\ e.token > 0 /\ e.epoch \in Nat
         /\ e.kind = "row" => e \in Rows /\ e.created_at \in Int /\ e.time \in Nat /\ e.xact \in Xacts
<1>1. CASE e \in Rows
  BY <1>1, FenceConstants DEF Rows
<1>2. CASE e \in Beats
  BY <1>2 DEF Beats
<1>3. QED
  BY <1>1, <1>2 DEF Entries

LEMMA LogsAre ==
  ASSUME TypeOK
  PROVE  /\ Len(logs) \in Nat /\ Len(logs) >= 1 /\ Log \in Seq(Entries) /\ Len(Log) \in Nat
         /\ \A t \in 1..Len(logs) : /\ logs[t] \in Seq(Entries) /\ Len(logs[t]) \in Nat
                                    /\ \A i \in 1..Len(logs[t]) : logs[t][i] \in Entries
         /\ \A i \in 1..Len(Log) : Log[i] \in Entries
<1>1. logs \in Seq(Seq(Entries)) /\ logs # <<>>
  BY DEF TypeOK, Entries
<1>2. Len(logs) \in Nat /\ Len(logs) >= 1
  BY <1>1
<1>3. \A t \in 1..Len(logs) : logs[t] \in Seq(Entries)
  BY <1>1, ElementOfSeq
<1>4. \A t \in 1..Len(logs) : Len(logs[t]) \in Nat /\ \A i \in 1..Len(logs[t]) : logs[t][i] \in Entries
  BY <1>3, ElementOfSeq
<1>5. QED
  BY <1>2, <1>3, <1>4 DEF Log, Timeline

LEMMA HeartbeatIs ==
  ASSUME NEW log \in Seq(Entries), NEW n \in 0..Len(log)
  PROVE  LET h == HeartbeatAt(log, n)
         IN  /\ h.token \in Nat /\ h.epoch \in Nat
             /\ \A i \in 1..n : log[i].kind = "beat" => \E j \in i..n : log[j].kind = "beat" /\ h = log[j]
             /\ h.token # 0 => \E i \in 1..n : log[i].kind = "beat" /\ h = log[i]
<1> DEFINE beats == {i \in 1..n : log[i].kind = "beat"}
<1>1. n \in Nat /\ Len(log) \in Nat
  OBVIOUS
<1>2. CASE beats = {}
  <2>1. HeartbeatAt(log, n) = Beat(0, 0)
    BY <1>2 DEF HeartbeatAt
  <2>2. QED
    BY <1>2, <2>1 DEF Beat
<1>3. CASE beats # {}
  <2>1. HeartbeatAt(log, n) = log[Max(beats)]
    BY <1>3 DEF HeartbeatAt
  <2>2. beats \subseteq 0..n
    BY <1>1
  <2>3. Max(beats) \in beats /\ \A m \in beats : Max(beats) >= m
    BY <1>1, <1>3, <2>2, MaxIs
  <2> DEFINE j == Max(beats)
  <2> HIDE DEF j
  <2>4. j \in 1..n /\ log[j].kind = "beat" /\ \A m \in 1..n : log[m].kind = "beat" => j >= m
    BY <2>3 DEF j
  <2>5. log[j] \in Entries
    BY <1>1, <2>4, ElementOfSeq
  <2>6. HeartbeatAt(log, n) = log[j]
    BY <2>1 DEF j
  <2>7. log[j].token \in Nat /\ log[j].epoch \in Nat
    BY <2>4, <2>5, EntryKinds
  <2>8. QED
    BY <1>1, <2>4, <2>6, <2>7
<1>4. QED
  BY <1>2, <1>3

LEMMA CommitIs ==
  ASSUME TypeOK, NEW e \in Entries, Commit(e)
  PROVE  /\ logs' \in Seq(Seq(Rows \cup Beats)) /\ logs' # <<>> /\ Len(logs') = Len(logs)
         /\ Log' = Append(Log, e) /\ Len(Log') = Len(Log) + 1 /\ Log'[Len(Log) + 1] = e
         /\ \A i \in 1..Len(Log) : Log'[i] = Log[i]
         /\ \A t \in 1..Len(logs) : t # Len(logs) => logs'[t] = logs[t]
<1>1. logs \in Seq(Seq(Entries)) /\ Len(logs) \in 1..Len(logs)
  BY LogsAre DEF TypeOK, Entries
<1>2. Append(Log, e) \in Seq(Entries)
  BY LogsAre
<1>3. logs' = [logs EXCEPT ![Len(logs)] = Append(Log, e)]
  BY DEF Commit, Timeline, Log
<1>4. logs' \in Seq(Seq(Entries)) /\ Len(logs') = Len(logs)
  BY <1>1, <1>2, <1>3, ExceptSeq
<1>5. logs'[Len(logs)] = Append(Log, e) /\ \A t \in 1..Len(logs) : t # Len(logs) => logs'[t] = logs[t]
  BY <1>1, <1>3
<1>6. Log' = Append(Log, e)
  BY <1>4, <1>5 DEF Log, Timeline
<1>7. Len(Log') = Len(Log) + 1 /\ Log'[Len(Log) + 1] = e /\ \A i \in 1..Len(Log) : Log'[i] = Log[i]
  BY <1>6, LogsAre, AppendProperties
<1>8. logs' # <<>>
  BY <1>1, <1>4
<1>9. QED
  BY <1>4, <1>5, <1>6, <1>7, <1>8 DEF Entries

\* A snapshot stays what it was while the logs grow.
LEMMA CommitSane ==
  ASSUME TypeOK, EpochsBounded, NEW e \in Entries, Commit(e)
  PROVE  EpochsBounded' /\ \A s : Taken(s) => Taken(s)'
<1> USE CommitIs, LogsAre
<1>1. logs'[Len(logs)] = Log' /\ Log = logs[Len(logs)]
  BY DEF Log, Timeline
<1>2. ASSUME NEW s, Taken(s) PROVE Taken(s)'
  <2>1. CASE s.timeline = Len(logs)
    BY <1>1, <1>2, <2>1 DEF Taken
  <2>2. CASE s.timeline # Len(logs)
    BY <1>2, <2>2 DEF Taken
  <2>3. QED
    BY <2>1, <2>2
<1>3. EpochsBounded'
  <2>1. PICK b \in Nat : \A t \in 1..Len(logs) : \A i \in 1..Len(logs[t]) :
          logs[t][i].kind = "beat" => logs[t][i].epoch <= b
    BY DEF EpochsBounded
  <2>2. PICK c \in Nat : c >= b /\ (e.kind = "beat" => e.epoch <= c)
    <3>1. CASE e.kind = "beat"
      <4>1. e.epoch \in Nat
        BY <3>1, EntryKinds
      <4>2. b + e.epoch \in Nat /\ b + e.epoch >= b /\ e.epoch <= b + e.epoch
        BY <4>1
      <4>3. QED
        BY <4>2
    <3>2. CASE e.kind # "beat"
      <4>1. b >= b
        OBVIOUS
      <4>2. QED
        BY <3>2, <4>1, Zenon
    <3>3. QED
      BY <3>1, <3>2
  <2>3. ASSUME NEW t \in 1..Len(logs'), NEW i \in 1..Len(logs'[t]), logs'[t][i].kind = "beat"
        PROVE  logs'[t][i].epoch <= c
    <3>1. CASE t # Len(logs)
      <4>1. logs[t][i].epoch <= b /\ logs[t][i] \in Entries /\ logs[t][i].kind = "beat" /\ logs'[t] = logs[t]
        BY <2>1, <2>3, <3>1
      <4>2. logs[t][i].epoch \in Nat
        BY <4>1, EntryKinds
      <4>3. QED
        BY <4>1, <4>2, <2>2
    <3>2. CASE t = Len(logs) /\ i \in 1..Len(Log)
      <4>1. logs'[t][i] = Log[i] /\ Log[i] = logs[t][i] /\ Log[i] \in Entries
        BY <1>1, <3>2
      <4>2. Log[i].epoch \in Nat /\ Log[i].epoch <= b
        BY <1>1, <2>1, <2>3, <3>2, <4>1, EntryKinds
      <4>3. QED
        BY <4>1, <4>2, <2>2
    <3>3. CASE t = Len(logs) /\ i = Len(Log) + 1
      BY <1>1, <2>2, <2>3, <3>3
    <3>4. QED
      BY <1>1, <3>1, <3>2, <3>3
  <2>4. QED
    BY <2>2, <2>3 DEF EpochsBounded
<1>4. QED
  BY <1>2, <1>3

LEMMA LogsStaySane ==
  ASSUME EpochsBounded, logs' = logs
  PROVE  EpochsBounded' /\ \A s : Taken(s) => Taken(s)'
BY DEF EpochsBounded, Taken

-----------------------------------------------------------------------------
(* Every step leaves the state sane *)

LEMMA Times ==
  ASSUME TypeOK
  PROVE  /\ clock \in Nat /\ Floor \in Nat /\ Margin \in Nat /\ Margin > 0 /\ MaxClock \in Nat
         /\ clock <= MaxClock /\ Start \in Nat /\ Start <= clock /\ None \notin Int
<1>1. Start \in Nat /\ MaxClock \in Nat /\ Floor \in Nat /\ Margin \in Nat /\ Margin > 0
  BY FenceConstants DEF Start
<1>2. QED
  BY <1>1, FenceConstants DEF TypeOK

LEMMA SaneFrom ==
  ASSUME Sane, TypeOK', clock' >= clock, EpochsBounded', \A s : Taken(s) => Taken(s)',
         \A x \in Xacts : xact'[x] = xact[x] \/ InOrder(xact'[x], clock'),
         \A p \in Pods : probe'[p] = probe[p] \/ Sampled(probe'[p], clock'),
         session' \in {session, None} \/ Taken(session.snapshot)',
         page' = page \/ Taken(page.snapshot)'
  PROVE  Sane'
<1>1. clock \in Int /\ clock' \in Int
  BY Times DEF Sane, TypeOK, Start
<1>2. ASSUME NEW x \in Xacts PROVE InOrder(xact'[x], clock')
  <2>1. InOrder(xact[x], clock)
    BY DEF Sane, XactsInOrder
  <2>2. InOrder(xact[x], clock')
    BY <1>1, <2>1 DEF InOrder
  <2>3. QED
    BY <2>2
<1>3. ASSUME NEW p \in Pods PROVE Sampled(probe'[p], clock')
  <2>1. Sampled(probe[p], clock)
    BY DEF Sane, ProbesSampled
  <2>2. Sampled(probe[p], clock')
    BY <1>1, <2>1 DEF Sampled
  <2>3. QED
    BY <2>2
<1>4. SnapshotsTaken'
  BY DEF Sane, SnapshotsTaken
<1>5. QED
  BY <1>2, <1>3, <1>4 DEF Sane, XactsInOrder, ProbesSampled

\* Only one transaction moves, or none does.
LEMMA XactMoves ==
  ASSUME Sane, NEW x \in Xacts, NEW r \in XactState, xact' = [xact EXCEPT ![x] = r],
         UNCHANGED <<clock, probe, fence, session, page, faults>>,
         \/ logs' = logs
         \/ \E e \in Entries : Commit(e),
         InOrder(r, clock)
  PROVE  Sane'
<1>1. xact' \in [Xacts -> XactState] /\ xact'[x] = r /\ \A y \in Xacts : y # x => xact'[y] = xact[y]
  BY DEF Sane, TypeOK
<1>2. /\ logs' \in Seq(Seq(Rows \cup Beats)) /\ logs' # <<>>
      /\ EpochsBounded' /\ \A s : Taken(s) => Taken(s)'
  <2>1. CASE logs' = logs
    BY <2>1, LogsStaySane DEF Sane, TypeOK
  <2>2. CASE \E e \in Entries : Commit(e)
    <3>1. TypeOK /\ EpochsBounded
      BY DEF Sane
    <3>2. QED
      BY <2>2, <3>1, CommitIs, CommitSane
  <2>3. QED
    BY <2>1, <2>2
<1>3. TypeOK'
  BY <1>1, <1>2 DEF Sane, TypeOK, Start
<1>4. clock' >= clock
  BY Times DEF Sane
<1>5. QED
  BY <1>1, <1>2, <1>3, <1>4, SaneFrom

LEMMA XactRows ==
  /\ NewXact \in XactState /\ NewXact.at = "new"
  /\ Finished \in XactState /\ Finished.at = "done"
<1>1. NewXact \in XactState /\ NewXact.at = "new"
  BY DEF NewXact, XactState, TimeOrNone
<1>2. ASSUME NEW row \in XactState
      PROVE  [row EXCEPT !.at = "done"] \in XactState /\ [row EXCEPT !.at = "done"].at = "done"
  BY DEF XactState
<1>3. QED
  BY <1>1, <1>2 DEF Finished

LEMMA BeginSane == ASSUME Sane, NEW x \in Xacts, Begin(x) PROVE Sane'
<1>1. PICK created \in CreatedAts :
        xact' = [xact EXCEPT ![x] = [xact[x] EXCEPT !.at = "open", !.start = clock, !.created_at = created]]
  BY DEF Begin
<1> DEFINE r == [xact[x] EXCEPT !.at = "open", !.start = clock, !.created_at = created]
<1>2. xact[x] \in XactState /\ clock \in Nat
  BY Times DEF Sane, TypeOK
<1>3. r \in XactState /\ r.at = "open" /\ r.start = clock /\ r.created_at = created
  BY <1>2 DEF XactState, TimeOrNone
<1> HIDE DEF r
<1>4. InOrder(r, clock)
  BY <1>2, <1>3 DEF InOrder
<1>5. xact' = [xact EXCEPT ![x] = r]
  BY <1>1 DEF r
<1>6. QED
  BY <1>3, <1>4, <1>5, XactMoves DEF Begin

LEMMA FloorGuardSane == ASSUME Sane, NEW x \in Xacts, FloorGuard(x) PROVE Sane'
<1>1. UNCHANGED <<clock, logs, probe, fence, session, page, faults>> /\ xact[x].at = "open"
  BY DEF FloorGuard
<1>2. xact[x] \in XactState /\ clock \in Nat /\ InOrder(xact[x], clock)
  BY Times DEF Sane, TypeOK, XactsInOrder
<1>3. CASE PassesFloor(xact[x].created_at)
  <2> DEFINE r == [xact[x] EXCEPT !.at = "guarded", !.guard = clock]
  <2>1. xact' = [xact EXCEPT ![x] = r]
    BY <1>3 DEF FloorGuard
  <2>2. /\ r \in XactState /\ r.at = "guarded" /\ r.guard = clock /\ r.start = xact[x].start
        /\ r.created_at = xact[x].created_at
    BY <1>2 DEF XactState, TimeOrNone
  <2> HIDE DEF r
  <2>3. InOrder(r, clock)
    BY <1>1, <1>2, <1>3, <2>2 DEF InOrder, PassesFloor
  <2>4. QED
    BY <1>1, <2>1, <2>2, <2>3, XactMoves
<1>4. CASE ~PassesFloor(xact[x].created_at)
  <2>1. xact' = [xact EXCEPT ![x] = Finished] /\ InOrder(Finished, clock)
    BY <1>4, XactRows DEF FloorGuard, InOrder
  <2>2. QED
    BY <1>1, <2>1, XactRows, XactMoves
<1>5. QED
  BY <1>3, <1>4

LEMMA RowIs ==
  ASSUME Sane, NEW x \in Xacts, xact[x].at \in {"guarded", "prepared"}
  PROVE  LET e == Row(x, xact[x].created_at)
         IN  /\ e \in Entries /\ e.kind = "row" /\ e.xact = x /\ e.time = clock
             /\ e.created_at = xact[x].created_at
<1>1. clock \in Nat /\ xact[x].created_at \in CreatedAts
  BY Times DEF Sane, XactsInOrder, InOrder
<1>2. QED
  BY <1>1 DEF Row, Entries, Rows

LEMMA CommitXactSane == ASSUME Sane, NEW x \in Xacts, CommitXact(x) PROVE Sane'
<1>1. /\ UNCHANGED <<clock, probe, fence, session, page, faults>> /\ xact[x].at \in {"guarded", "prepared"}
      /\ Commit(Row(x, xact[x].created_at)) /\ xact' = [xact EXCEPT ![x] = Finished]
  BY DEF CommitXact
<1>2. Row(x, xact[x].created_at) \in Entries
  BY <1>1, RowIs
<1>3. InOrder(Finished, clock)
  BY XactRows DEF InOrder
<1>4. QED
  BY <1>1, <1>2, <1>3, XactRows, XactMoves

LEMMA PrepareSane == ASSUME Sane, NEW x \in Xacts, Prepare(x) PROVE Sane'
<1> DEFINE r == [xact[x] EXCEPT !.at = "prepared", !.prepared = clock]
<1>1. /\ UNCHANGED <<clock, logs, probe, fence, session, page, faults>> /\ xact[x].at = "guarded"
      /\ xact' = [xact EXCEPT ![x] = r] /\ clock - xact[x].guard < Margin
  BY DEF Prepare
<1>2. xact[x] \in XactState /\ clock \in Nat /\ InOrder(xact[x], clock)
  BY Times DEF Sane, TypeOK, XactsInOrder
<1>3. /\ r \in XactState /\ r.at = "prepared" /\ r.guard = xact[x].guard /\ r.start = xact[x].start
      /\ r.created_at = xact[x].created_at /\ r.prepared = clock
  BY <1>2 DEF XactState, TimeOrNone
<1> HIDE DEF r
<1>4. InOrder(r, clock)
  BY <1>1, <1>2, <1>3 DEF InOrder
<1>5. QED
  BY <1>1, <1>3, <1>4, XactMoves

LEMMA TickSane == ASSUME Sane, Tick PROVE Sane'
<1>1. UNCHANGED <<logs, xact, probe, fence, session, page, faults>> /\ clock' = clock + 1 /\ clock < MaxClock
  BY DEF Tick
<1>2. clock' \in Start..MaxClock /\ clock' >= clock
  BY <1>1, Times DEF Sane
<1>3. TypeOK'
  BY <1>1, <1>2 DEF Sane, TypeOK, Start
<1>4. EpochsBounded' /\ \A s : Taken(s) => Taken(s)'
  BY <1>1, LogsStaySane DEF Sane
<1>5. QED
  BY <1>1, <1>2, <1>3, <1>4, SaneFrom

-----------------------------------------------------------------------------
(* Rings *)

FenceOK(f) ==
  /\ f \in Fence /\ Len(f.ring) <= RingCapacity
  /\ \A i, j \in 1..Len(f.ring) : i < j => f.ring[i].token < f.ring[j].token

LEMMA FencesOK == ASSUME TypeOK PROVE \A p \in Pods : FenceOK(fence[p])
BY DEF TypeOK, FenceOK

LEMMA EmptyRing ==
  ASSUME NEW f, f.ring = <<>>
  PROVE  Len(f.ring) = 0 /\ Len(f.ring) <= RingCapacity
         /\ \A i, j \in 1..Len(f.ring) : i < j => f.ring[i].token < f.ring[j].token
BY FenceConstants

LEMMA CloseIs ==
  ASSUME NEW f \in Fence
  PROVE  FenceOK(close(f)) /\ Len(close(f).ring) = 0
<1>1. <<>> \in Seq(RingEntry)
  OBVIOUS
<1>2. ASSUME NEW q \in Seq(RingEntry) PROVE [f EXCEPT !.ring = q] \in Fence /\ [f EXCEPT !.ring = q].ring = q
  BY DEF Fence
<1>3. close(f) \in Fence /\ close(f).ring = <<>>
  BY <1>1, <1>2 DEF close
<1>4. QED
  BY <1>3, EmptyRing DEF FenceOK

LEMMA ClosedIs == FenceOK(ClosedFence) /\ Len(ClosedFence.ring) = 0
<1>1. ClosedFence \in Fence /\ ClosedFence.ring = <<>>
  BY DEF ClosedFence, Fence
<1>2. QED
  BY <1>1, EmptyRing DEF FenceOK

\* A recorded ring has the new entry at its end, after entries it had before.
LEMMA RecordIs ==
  ASSUME NEW f, FenceOK(f), NEW beat \in Beats, NEW at \in Nat, NEW wall \in Int
  PROVE  LET new == record(f, beat, at, wall)
             entry == [token |-> beat.token, committed_at |-> at, fence_wall |-> wall]
         IN  /\ FenceOK(new)
             /\ \A i \in 1..Len(new.ring) : new.ring[i] = entry \/ \E j \in 1..Len(f.ring) : new.ring[i] = f.ring[j]
<1> DEFINE entry == [token |-> beat.token, committed_at |-> at, fence_wall |-> wall]
           kept == IF f.epoch = beat.epoch THEN f.ring ELSE <<>>
           room == IF Len(kept) = RingCapacity THEN Tail(kept) ELSE kept
           new == record(f, beat, at, wall)
<1>1. CASE Regressed(f, beat)
  <2>1. new = close(f)
    BY <1>1 DEF record
  <2>2. QED
    BY <2>1, CloseIs DEF FenceOK
<1>2. CASE ~Regressed(f, beat)
  <2>1. new = [epoch |-> beat.epoch, ring |-> Append(room, entry)]
    BY <1>2 DEF record
  <2>2. entry \in RingEntry /\ entry.token = beat.token /\ beat.epoch \in Nat /\ beat.token \in Nat
    BY DEF RingEntry, Beats
  <2>3. f.ring \in Seq(RingEntry) /\ RingCapacity \in Nat /\ RingCapacity > 0
    BY FenceConstants DEF FenceOK, Fence
  <2> HIDE DEF entry
  <2>4. /\ kept \in Seq(RingEntry) /\ Len(kept) <= RingCapacity
        /\ \A i, j \in 1..Len(kept) : i < j => kept[i].token < kept[j].token
        /\ kept = f.ring \/ kept = <<>>
        /\ kept # <<>> => kept[Len(kept)].token < beat.token
    <3>1. CASE f.epoch = beat.epoch
      <4>1. kept = f.ring
        BY <3>1
      <4>2. kept # <<>> => ~(beat.token <= kept[Len(kept)].token)
        BY <1>2, <3>1, <4>1 DEF Regressed
      <4>3. kept # <<>> => kept[Len(kept)] \in RingEntry
        BY <2>3, <4>1, ElementOfSeq
      <4>4. kept # <<>> => kept[Len(kept)].token < beat.token
        BY <2>2, <4>2, <4>3 DEF RingEntry
      <4>5. QED
        BY <2>3, <4>1, <4>4 DEF FenceOK
    <3>2. CASE f.epoch # beat.epoch
      BY <2>3, <3>2
    <3>3. QED
      BY <3>1, <3>2
  <2> HIDE DEF kept
  <2>5. PICK d \in {0, 1} : /\ room \in Seq(RingEntry) /\ Len(room) = Len(kept) - d /\ Len(room) < RingCapacity
                            /\ Len(room) \in Nat
                            /\ \A i \in 1..Len(room) : i + d \in 1..Len(kept) /\ room[i] = kept[i + d]
    <3>1. CASE Len(kept) = RingCapacity
      <4>1. kept # <<>> /\ room = Tail(kept)
        BY <2>3, <2>4, <3>1
      <4>2. /\ Tail(kept) \in Seq(RingEntry) /\ Len(Tail(kept)) = Len(kept) - 1
            /\ \A i \in 1..Len(Tail(kept)) : Tail(kept)[i] = kept[i + 1]
        BY <2>4, <4>1, HeadTailProperties
      <4>3. QED
        BY <2>3, <2>4, <3>1, <4>1, <4>2
    <3>2. CASE Len(kept) # RingCapacity
      <4>1. room = kept
        BY <3>2
      <4>2. QED
        BY <2>3, <2>4, <3>2, <4>1
    <3>3. QED
      BY <3>1, <3>2
  <2> HIDE DEF room
  <2>6. /\ Append(room, entry) \in Seq(RingEntry) /\ Len(Append(room, entry)) = Len(room) + 1
        /\ Append(room, entry)[Len(room) + 1] = entry
        /\ \A i \in 1..Len(room) : Append(room, entry)[i] = room[i]
    BY <2>2, <2>5, AppendProperties
  <2>7. new.ring = Append(room, entry) /\ new \in Fence
    BY <2>1, <2>2, <2>6 DEF Fence
  <2> HIDE DEF new
  <2>8. \A i, j \in 1..Len(new.ring) : i < j => new.ring[i].token < new.ring[j].token
    <3> SUFFICES ASSUME NEW i \in 1..Len(room) + 1, NEW j \in 1..Len(room) + 1, i < j
                 PROVE  new.ring[i].token < new.ring[j].token
      BY <2>6, <2>7
    <3>1. i \in 1..Len(room)
      BY <2>5
    <3>2. i \in 1..Len(room) /\ i + d \in 1..Len(kept) /\ new.ring[i] = kept[i + d]
      BY <2>5, <2>6, <2>7, <3>1
    <3>3. Len(kept) \in Nat /\ \A m \in 1..Len(kept) : kept[m] \in RingEntry
      BY <2>4, ElementOfSeq
    <3>4. CASE j \in 1..Len(room)
      BY <2>4, <2>5, <2>6, <2>7, <3>2, <3>4
    <3>5. CASE j = Len(room) + 1
      <4>1. new.ring[j].token = beat.token
        BY <2>2, <2>6, <2>7, <3>5
      <4>2. kept # <<>> /\ kept[Len(kept)].token < beat.token
        BY <2>4, <3>2
      <4>3. i + d = Len(kept) \/ kept[i + d].token < kept[Len(kept)].token
        BY <2>4, <3>2, <3>3
      <4>4. kept[i + d].token \in Nat /\ kept[Len(kept)].token \in Nat
        BY <3>2, <3>3 DEF RingEntry
      <4>5. QED
        BY <2>2, <3>2, <4>1, <4>2, <4>3, <4>4
    <3>6. QED
      BY <2>5, <3>4, <3>5
  <2>9. \A i \in 1..Len(new.ring) : new.ring[i] = entry \/ \E j \in 1..Len(f.ring) : new.ring[i] = f.ring[j]
    <3> SUFFICES ASSUME NEW i \in 1..Len(room) + 1
                 PROVE  new.ring[i] = entry \/ \E j \in 1..Len(f.ring) : new.ring[i] = f.ring[j]
      BY <2>6, <2>7
    <3>1. CASE i = Len(room) + 1
      BY <2>6, <2>7, <3>1
    <3>2. CASE i \in 1..Len(room)
      <4>1. i + d \in 1..Len(kept) /\ new.ring[i] = kept[i + d]
        BY <2>5, <2>6, <2>7, <3>2
      <4>2. kept = f.ring
        BY <2>4, <4>1
      <4>3. QED
        BY <4>1, <4>2
    <3>3. QED
      BY <2>5, <3>1, <3>2
  <2>10. Len(new.ring) <= RingCapacity
    BY <2>3, <2>5, <2>6, <2>7
  <2>11. QED
    BY <2>7, <2>8, <2>9, <2>10 DEF FenceOK, entry, new
<1>3. QED
  BY <1>1, <1>2

-----------------------------------------------------------------------------
(* Every step of a probe leaves the state sane *)

\* Only one pod moves.
LEMMA PodMoves ==
  ASSUME Sane, NEW p \in Pods, NEW r \in ProbeState, probe' = [probe EXCEPT ![p] = r], Sampled(r, clock),
         NEW f, FenceOK(f), fence' = [fence EXCEPT ![p] = f],
         UNCHANGED <<clock, xact, page>>, session' \in {session, None}, faults' \in Faults,
         \/ logs' = logs
         \/ \E e \in Entries : Commit(e)
  PROVE  Sane'
<1>1. probe' \in [Pods -> ProbeState] /\ probe'[p] = r /\ \A q \in Pods : q # p => probe'[q] = probe[q]
  BY DEF Sane, TypeOK
<1>2. fence' \in [Pods -> Fence] /\ fence'[p] = f /\ \A q \in Pods : q # p => fence'[q] = fence[q]
  BY DEF Sane, TypeOK, FenceOK
<1>3. \A q \in Pods : FenceOK(fence'[q])
  BY <1>2, FencesOK DEF Sane
<1>4. /\ logs' \in Seq(Seq(Rows \cup Beats)) /\ logs' # <<>>
      /\ EpochsBounded' /\ \A s : Taken(s) => Taken(s)'
  <2>1. CASE logs' = logs
    BY <2>1, LogsStaySane DEF Sane, TypeOK
  <2>2. CASE \E e \in Entries : Commit(e)
    <3>1. TypeOK /\ EpochsBounded
      BY DEF Sane
    <3>2. QED
      BY <2>2, <3>1, CommitIs, CommitSane
  <2>3. QED
    BY <2>1, <2>2
<1>5. session' \in {None} \cup [pod : Pods, snapshot : Snapshot]
  BY DEF Sane, TypeOK
<1>6. TypeOK'
  BY <1>1, <1>2, <1>3, <1>4, <1>5 DEF Sane, TypeOK, Start, FenceOK, Faults
<1>7. clock' >= clock
  BY Times DEF Sane
<1>8. QED
  BY <1>1, <1>4, <1>6, <1>7, SaneFrom

LEMMA PodMovesAlone ==
  ASSUME Sane, NEW p \in Pods, NEW r \in ProbeState, probe' = [probe EXCEPT ![p] = r], Sampled(r, clock),
         UNCHANGED <<clock, xact, fence, session, page>>, faults' \in Faults,
         \/ logs' = logs
         \/ \E e \in Entries : Commit(e)
  PROVE  Sane'
<1>1. fence \in [Pods -> Fence] /\ FenceOK(fence[p])
  BY FencesOK DEF Sane, TypeOK
<1>2. fence' = [fence EXCEPT ![p] = fence[p]]
  BY <1>1
<1>3. QED
  BY <1>1, <1>2, PodMoves

LEMMA ProbeRows ==
  /\ IdleProbe \in ProbeState /\ IdleProbe.at = "idle" /\ \A now : Sampled(IdleProbe, now)
  /\ \A s \in Nat : LET r == [IdleProbe EXCEPT !.at = "scan", !.sampled_at = s]
                     IN  r \in ProbeState /\ r.at = "scan" /\ r.sampled_at = s
<1>1. IdleProbe \in ProbeState /\ IdleProbe.at = "idle"
  BY DEF IdleProbe, ProbeState, TimeOrNone
<1>2. ASSUME NEW row \in ProbeState, NEW s \in Nat
      PROVE  LET r == [row EXCEPT !.at = "scan", !.sampled_at = s]
             IN  r \in ProbeState /\ r.at = "scan" /\ r.sampled_at = s
  BY DEF ProbeState, TimeOrNone
<1>3. QED
  BY <1>1, <1>2 DEF Sampled

\* What every step of a probe finds.
LEMMA ProbeFinds ==
  ASSUME Sane, NEW p \in Pods
  PROVE  /\ probe[p] \in ProbeState /\ Sampled(probe[p], clock) /\ FenceOK(fence[p]) /\ fence[p] \in Fence
         /\ clock \in Nat /\ faults \in Faults
         /\ \A x \in Xacts : xact[x] \in XactState /\ InOrder(xact[x], clock)
BY Times, FencesOK DEF Sane, TypeOK, ProbesSampled, XactsInOrder, Faults

LEMMA SampleClockSane == ASSUME Sane, NEW p \in Pods, SampleClock(p) PROVE Sane'
<1> DEFINE r == [IdleProbe EXCEPT !.at = "scan", !.sampled_at = clock]
<1>1. UNCHANGED <<clock, logs, xact, fence, session, page, faults>> /\ probe' = [probe EXCEPT ![p] = r]
  BY DEF SampleClock
<1>2. r \in ProbeState /\ r.at = "scan" /\ r.sampled_at = clock
  BY ProbeFinds, ProbeRows
<1> HIDE DEF r
<1>3. Sampled(r, clock)
  BY <1>2, ProbeFinds DEF Sampled
<1>4. QED
  BY <1>1, <1>2, <1>3, ProbeFinds, PodMovesAlone

\* What a scan has found, be it the first of the two or the second.
LEMMA ScannedIs ==
  ASSUME Sane, NEW p \in Pods, NEW next \in {"activity", "prepared"}, NEW T, T \subseteq TimeOrNone,
         probe[p].at \in {"scan", "activity", "prepared"}
  PROVE  LET r == Scanned(probe[p], next, T)
         IN  /\ r \in ProbeState /\ r.sampled_at = probe[p].sampled_at /\ Sampled(r, clock)
             /\ r.at = IF probe[p].at = "scan" THEN next ELSE "token"
             /\ r.at = "token" => r.committed_at = clock
             /\ \A t \in {probe[p].oldest} \cup T : t # None => r.oldest \in Nat /\ r.oldest <= t
<1> DEFINE U == {probe[p].oldest} \cup T
           o == Earliest(U)
           at == IF probe[p].at = "scan" THEN next ELSE "token"
           since == IF probe[p].at = "scan" THEN None ELSE clock
           r == Scanned(probe[p], next, T)
<1>1. U \subseteq TimeOrNone /\ probe[p].sampled_at \in Nat /\ probe[p].sampled_at <= clock
  BY ProbeFinds DEF ProbeState, Sampled
<1>2. o \in TimeOrNone /\ \A t \in U : t # None => o \in Nat /\ o <= t
  BY <1>1, EarliestIs
<1>3. r = [probe[p] EXCEPT !.at = at, !.committed_at = since, !.oldest = o]
  BY DEF Scanned
<1>4. at \in {"activity", "prepared", "token"} /\ since \in TimeOrNone
  BY ProbeFinds DEF TimeOrNone
<1>5. at = "token" => since = clock
  OBVIOUS
<1> HIDE DEF o, r, at, since
<1>6. /\ r \in ProbeState /\ r.sampled_at = probe[p].sampled_at /\ r.at = at /\ r.committed_at = since
      /\ r.oldest = o
  BY <1>2, <1>3, <1>4, ProbeFinds DEF ProbeState
<1>7. Sampled(r, clock)
  BY <1>1, <1>4, <1>5, <1>6, ProbeFinds DEF Sampled
<1>8. QED
  BY <1>2, <1>5, <1>6, <1>7 DEF r, at

\* The times the two scans read.
Starts == {xact[x].start : x \in {y \in Xacts : xact[y].at \in {"open", "guarded"}}}
Prepares == {xact[x].prepared : x \in {y \in Xacts : xact[y].at = "prepared"}}

LEMMA ScanTimes == ASSUME Sane PROVE Starts \subseteq TimeOrNone /\ Prepares \subseteq TimeOrNone
<1>1. xact \in [Xacts -> XactState]
  BY DEF Sane, TypeOK
<1>2. QED
  BY <1>1 DEF Starts, Prepares, XactState

LEMMA ScanActivityIs ==
  ASSUME NEW p \in Pods, ScanActivity(p)
  PROVE  /\ UNCHANGED <<clock, logs, xact, fence, session, page, faults>>
         /\ probe[p].at \in {"scan", "activity"}
         /\ probe' = [probe EXCEPT ![p] = Scanned(probe[p], "prepared", Starts)]
BY DEF ScanActivity, Probing, Starts

LEMMA ScanPreparedIs ==
  ASSUME NEW p \in Pods, ScanPrepared(p)
  PROVE  /\ UNCHANGED <<clock, logs, xact, fence, session, page, faults>>
         /\ probe[p].at \in {"scan", "prepared"}
         /\ probe' = [probe EXCEPT ![p] = Scanned(probe[p], "activity", Prepares)]
BY DEF ScanPrepared, Probing, Prepares

LEMMA ScanActivitySane == ASSUME Sane, NEW p \in Pods, ScanActivity(p) PROVE Sane'
BY ScanActivityIs, ScanTimes, ScannedIs, ProbeFinds, PodMovesAlone

LEMMA ScanPreparedSane == ASSUME Sane, NEW p \in Pods, ScanPrepared(p) PROVE Sane'
BY ScanPreparedIs, ScanTimes, ScannedIs, ProbeFinds, PodMovesAlone

\* The writer's heartbeat gives the next token.
LEMMA HeartbeatToken ==
  ASSUME TypeOK
  PROVE  Heartbeat.token \in Nat /\ Heartbeat.epoch \in Nat
<1>1. Log \in Seq(Entries) /\ Len(Log) \in 0..Len(Log)
  BY LogsAre
<1>2. QED
  BY <1>1, HeartbeatIs DEF Heartbeat

LEMMA BeatIs ==
  ASSUME NEW t \in Nat, t > 0, NEW e \in Nat
  PROVE  /\ Beat(t, e) \in Beats /\ Beat(t, e) \in Entries
         /\ Beat(t, e).kind = "beat" /\ Beat(t, e).token = t
BY DEF Beat, Beats, Entries

\* There is an epoch that no timeline has seen.
LEMMA FreshEpochIs ==
  ASSUME TypeOK, EpochsBounded
  PROVE  FreshEpoch \in Nat
<1> DEFINE E == UNION {{log[i].epoch : i \in {j \in 1..Len(log) : log[j].kind = "beat"}} :
                       log \in {logs[t] : t \in 1..Timeline}}
<1>1. PICK b \in Nat : \A t \in 1..Len(logs) : \A i \in 1..Len(logs[t]) :
        logs[t][i].kind = "beat" => logs[t][i].epoch <= b
  BY DEF EpochsBounded
<1>2. ASSUME NEW e \in E PROVE e \in 0..b
  <2>1. PICK t \in 1..Len(logs) : \E i \in 1..Len(logs[t]) : logs[t][i].kind = "beat" /\ e = logs[t][i].epoch
    BY DEF Timeline
  <2>2. PICK i \in 1..Len(logs[t]) : logs[t][i].kind = "beat" /\ e = logs[t][i].epoch
    BY <2>1
  <2>3. logs[t][i] \in Entries
    BY LogsAre
  <2>4. e \in Nat
    BY <2>2, <2>3, EntryKinds
  <2>5. QED
    BY <1>1, <2>2, <2>4
<1> HIDE DEF E
<1>3. {0} \cup E \subseteq 0..b /\ {0} \cup E # {}
  BY <1>2
<1>4. Max({0} \cup E) \in 0..b
  BY <1>1, <1>3, MaxIs
<1>5. FreshEpoch = 1 + Max({0} \cup E)
  BY DEF FreshEpoch, E
<1>6. QED
  BY <1>1, <1>4, <1>5

LEMMA CommittedBeat ==
  ASSUME Sane, NEW p \in Pods, probe[p].at \in {"token", "rotate"}, NEW beat \in Beats,
         NEW r, \/ r = [probe[p] EXCEPT !.at = "record", !.beat = beat]
                \/ r = [probe[p] EXCEPT !.at = "record", !.committed_at = clock, !.beat = beat]
  PROVE  /\ r \in ProbeState /\ Sampled(r, clock)
         /\ r.at = "record" /\ r.beat = beat /\ r.sampled_at = probe[p].sampled_at /\ r.oldest = probe[p].oldest
         /\ r.committed_at \in {probe[p].committed_at, clock}
<1>1. /\ r \in ProbeState
      /\ r.at = "record" /\ r.beat = beat /\ r.sampled_at = probe[p].sampled_at /\ r.oldest = probe[p].oldest
      /\ r.committed_at \in {probe[p].committed_at, clock}
  <2>1. CASE r = [probe[p] EXCEPT !.at = "record", !.beat = beat]
    BY <2>1, ProbeFinds DEF ProbeState
  <2>2. CASE r = [probe[p] EXCEPT !.at = "record", !.committed_at = clock, !.beat = beat]
    BY <2>2, ProbeFinds DEF ProbeState, TimeOrNone
  <2>3. QED
    BY <2>1, <2>2
<1>2. Sampled(r, clock)
  BY <1>1, ProbeFinds DEF Sampled
<1>3. QED
  BY <1>1, <1>2

LEMMA FaultsAre ==
  ASSUME TypeOK
  PROVE  /\ faults.beats > 0 => [faults EXCEPT !.beats = @ - 1] \in Faults
         /\ faults.failures > 0 => [faults EXCEPT !.failures = @ - 1] \in Faults
<1>1. faults \in Faults
  BY DEF TypeOK, Faults
<1>2. faults.beats \in Nat /\ faults.failures \in Nat
  BY <1>1 DEF Faults
<1>3. ASSUME NEW f \in Faults, NEW n \in Nat
      PROVE  [f EXCEPT !.beats = n] \in Faults /\ [f EXCEPT !.failures = n] \in Faults
  BY DEF Faults
<1>4. (faults.beats > 0 => faults.beats - 1 \in Nat) /\ (faults.failures > 0 => faults.failures - 1 \in Nat)
  BY <1>2
<1>5. QED
  BY <1>1, <1>3, <1>4

LEMMA CommitTokenSane == ASSUME Sane, NEW p \in Pods, CommitToken(p) PROVE Sane'
<1> DEFINE beat == Beat(Heartbeat.token + 1, Heartbeat.epoch)
           r == [probe[p] EXCEPT !.at = "record", !.beat = beat]
<1>1. /\ UNCHANGED <<clock, xact, fence, session, page>> /\ probe[p].at = "token" /\ Commit(beat)
      /\ probe' = [probe EXCEPT ![p] = r]
  BY DEF CommitToken, Probing
<1>2. faults' \in Faults
  BY FaultsAre DEF CommitToken, Sane
<1>3. Heartbeat.token + 1 \in Nat /\ Heartbeat.token + 1 > 0 /\ Heartbeat.epoch \in Nat
  BY HeartbeatToken DEF Sane
<1>4. beat \in Beats /\ beat \in Entries
  BY <1>3, BeatIs
<1>5. r \in ProbeState /\ Sampled(r, clock)
  BY <1>1, <1>4, CommittedBeat
<1> HIDE DEF r, beat
<1>6. QED
  BY <1>1, <1>2, <1>4, <1>5, PodMovesAlone

LEMMA RotateEpochSane == ASSUME Sane, NEW p \in Pods, RotateEpoch(p) PROVE Sane'
<1> DEFINE beat == Beat(Heartbeat.token + 1, FreshEpoch)
           r == [probe[p] EXCEPT !.at = "record", !.committed_at = clock, !.beat = beat]
<1>1. /\ UNCHANGED <<clock, xact, fence, session, page>> /\ probe[p].at = "rotate" /\ Commit(beat)
      /\ probe' = [probe EXCEPT ![p] = r]
  BY DEF RotateEpoch, Probing
<1>2. faults' \in Faults
  BY FaultsAre DEF RotateEpoch, Sane
<1>3. Heartbeat.token + 1 \in Nat /\ Heartbeat.token + 1 > 0 /\ FreshEpoch \in Nat
  BY HeartbeatToken, FreshEpochIs DEF Sane
<1>4. beat \in Beats /\ beat \in Entries
  BY <1>3, BeatIs
<1>5. r \in ProbeState /\ Sampled(r, clock)
  BY <1>1, <1>4, CommittedBeat
<1> HIDE DEF r, beat
<1>6. QED
  BY <1>1, <1>2, <1>4, <1>5, PodMovesAlone

LEMMA WallIs ==
  ASSUME NEW r \in ProbeState, r.sampled_at \in Nat
  PROVE  /\ Oldest(r) \in Nat /\ Oldest(r) <= r.sampled_at /\ (r.oldest # None => Oldest(r) <= r.oldest)
         /\ Oldest(r) \in {r.sampled_at, r.oldest}
         /\ Wall(r) \in Int /\ Wall(r) + Floor + Margin = Oldest(r)
<1>1. {r.sampled_at, r.oldest} \subseteq TimeOrNone /\ r.sampled_at # None
  BY FenceConstants DEF ProbeState, TimeOrNone
<1>2. /\ Oldest(r) \in Nat /\ Oldest(r) <= r.sampled_at /\ (r.oldest # None => Oldest(r) <= r.oldest)
      /\ Oldest(r) \in {r.sampled_at, r.oldest}
  <2> DEFINE T == {r.sampled_at, r.oldest}
  <2>1. /\ Earliest(T) # None => Earliest(T) \in T /\ Earliest(T) \in Nat
        /\ \A t \in T : t # None => Earliest(T) \in Nat /\ Earliest(T) <= t
    BY <1>1, EarliestIs
  <2>2. QED
    BY <1>1, <2>1, FenceConstants DEF Oldest
<1>3. Wall(r) = Oldest(r) - Floor - Margin
  BY DEF Wall, fence_wall, Oldest
<1>4. QED
  BY <1>2, <1>3, FenceConstants

\* What Record does to its pod.
RecordedProbe(p) == IF Regressed(fence[p], probe[p].beat) THEN [probe[p] EXCEPT !.at = "rotate"] ELSE IdleProbe

LEMMA RecordedProbeIs ==
  ASSUME Sane, NEW p \in Pods, probe[p].at = "record"
  PROVE  /\ RecordedProbe(p) \in ProbeState /\ Sampled(RecordedProbe(p), clock)
         /\ \/ RecordedProbe(p).at = "idle"
            \/ /\ RecordedProbe(p).at = "rotate"
               /\ RecordedProbe(p).sampled_at = probe[p].sampled_at
               /\ RecordedProbe(p).oldest = probe[p].oldest
               /\ RecordedProbe(p).committed_at = probe[p].committed_at
<1>1. ASSUME NEW r, r = [probe[p] EXCEPT !.at = "rotate"]
      PROVE  /\ r \in ProbeState /\ Sampled(r, clock) /\ r.at = "rotate" /\ r.sampled_at = probe[p].sampled_at
             /\ r.oldest = probe[p].oldest /\ r.committed_at = probe[p].committed_at
  <2>1. /\ r \in ProbeState /\ r.at = "rotate" /\ r.sampled_at = probe[p].sampled_at
        /\ r.oldest = probe[p].oldest /\ r.committed_at = probe[p].committed_at
    BY <1>1, ProbeFinds DEF ProbeState
  <2>2. Sampled(r, clock)
    BY <2>1, ProbeFinds DEF Sampled
  <2>3. QED
    BY <2>1, <2>2
<1>2. QED
  BY <1>1, ProbeRows DEF RecordedProbe

\* The entry that Record appends.
NewEntry(r) == [token |-> r.beat.token, committed_at |-> r.committed_at, fence_wall |-> Wall(r)]

LEMMA RecordedFenceIs ==
  ASSUME Sane, NEW p \in Pods, probe[p].at = "record"
  PROVE  LET new == record(fence[p], probe[p].beat, probe[p].committed_at, Wall(probe[p]))
         IN  /\ FenceOK(new)
             /\ \A i \in 1..Len(new.ring) : \/ new.ring[i] = NewEntry(probe[p])
                                            \/ \E j \in 1..Len(fence[p].ring) : new.ring[i] = fence[p].ring[j]
<1>1. /\ probe[p] \in ProbeState /\ FenceOK(fence[p]) /\ probe[p].beat \in Beats /\ probe[p].committed_at \in Nat
      /\ probe[p].sampled_at \in Nat
  BY ProbeFinds DEF Sampled
<1>2. Wall(probe[p]) \in Int
  BY <1>1, WallIs
<1>3. QED
  BY <1>1, <1>2, RecordIs, SMTT(40) DEF NewEntry

LEMMA RecordMoves ==
  ASSUME Sane, NEW p \in Pods, Record(p)
  PROVE  /\ UNCHANGED <<clock, logs, xact, session, page, faults>> /\ probe[p].at = "record"
         /\ fence' = [fence EXCEPT ![p] =
                        record(fence[p], probe[p].beat, probe[p].committed_at, Wall(probe[p]))]
         /\ probe' = [probe EXCEPT ![p] = RecordedProbe(p)]
BY DEF Record, Probing, RecordedProbe, CommittedAt, Wall

LEMMA RecordSane == ASSUME Sane, NEW p \in Pods, Record(p) PROVE Sane'
<1> DEFINE f == record(fence[p], probe[p].beat, probe[p].committed_at, Wall(probe[p]))
           r == RecordedProbe(p)
<1>1. UNCHANGED <<clock, logs, xact, session, page, faults>> /\ probe[p].at = "record"
  BY RecordMoves
<1>2. fence' = [fence EXCEPT ![p] = f] /\ probe' = [probe EXCEPT ![p] = r]
  BY RecordMoves
<1>3. FenceOK(f) /\ r \in ProbeState /\ Sampled(r, clock)
  BY <1>1, RecordedFenceIs, RecordedProbeIs
<1>4. faults' \in Faults
  BY <1>1, ProbeFinds
<1> HIDE DEF f, r
<1>5. QED
  BY <1>1, <1>2, <1>3, <1>4, PodMoves

LEMMA ProbeFailsSane == ASSUME Sane, NEW p \in Pods, ProbeFails(p) PROVE Sane'
<1>1. /\ UNCHANGED <<clock, logs, xact, session, page>> /\ probe' = [probe EXCEPT ![p] = IdleProbe]
      /\ fence' = [fence EXCEPT ![p] = close(fence[p])]
  BY DEF ProbeFails
<1>2. faults' \in Faults
  BY FaultsAre DEF ProbeFails, Sane
<1>3. FenceOK(close(fence[p]))
  BY ProbeFinds, CloseIs
<1>4. QED
  BY <1>1, <1>2, <1>3, ProbeRows, PodMoves

LEMMA RestartSane == ASSUME Sane, NEW p \in Pods, Restart(p) PROVE Sane'
<1>1. /\ UNCHANGED <<clock, logs, xact, page>> /\ probe' = [probe EXCEPT ![p] = IdleProbe]
      /\ fence' = [fence EXCEPT ![p] = ClosedFence] /\ session' \in {session, None}
  BY DEF Restart
<1>2. faults' \in Faults
  BY FaultsAre DEF Restart, Sane
<1>3. QED
  BY <1>1, <1>2, ClosedIs, ProbeRows, PodMoves

-----------------------------------------------------------------------------
(* A restore and the reads leave the state sane *)

Interrupted == {p \in faults.pods : probe[p].at \notin {"idle", "record"}}

\* A restore begins a timeline with a prefix of the writer's.
LEMMA RestoredLogs ==
  ASSUME Sane, NEW n \in 0..Len(Log), logs' = Append(logs, SubSeq(Log, 1, n))
  PROVE  /\ logs' \in Seq(Seq(Rows \cup Beats)) /\ logs' # <<>> /\ Len(logs') = Len(logs) + 1
         /\ EpochsBounded' /\ \A s : Taken(s) => Taken(s)'
<1> DEFINE old == SubSeq(Log, 1, n)
<1> USE LogsAre
<1>0. TypeOK
  BY DEF Sane
<1>1. Len(Log) \in Nat /\ n \in Nat /\ n <= Len(Log) /\ \A i \in 1..n : Log[i] \in Entries
  BY <1>0
<1>2. old \in Seq(Entries) /\ Len(old) = n /\ \A i \in 1..n : old[i] = Log[i]
  <2>1. /\ SubSeq(Log, 1, n) \in Seq(Entries) /\ Len(SubSeq(Log, 1, n)) = IF 1 <= n THEN n - 1 + 1 ELSE 0
        /\ \A i \in 1..n - 1 + 1 : SubSeq(Log, 1, n)[i] = Log[1 + i - 1]
    BY <1>1, SubSeqProperties
  <2>2. n - 1 + 1 = n /\ \A i \in 1..n : 1 + i - 1 = i
    BY <1>1
  <2>3. QED
    BY <1>1, <2>1, <2>2
<1> HIDE DEF old
<1>3. logs \in Seq(Seq(Entries))
  BY <1>0 DEF TypeOK, Entries
<1>4. /\ logs' \in Seq(Seq(Entries)) /\ logs' # <<>> /\ Len(logs') = Len(logs) + 1 /\ logs'[Len(logs) + 1] = old
      /\ \A t \in 1..Len(logs) : logs'[t] = logs[t]
  BY <1>2, <1>3, AppendProperties DEF old
<1>5. \A s : Taken(s) => Taken(s)'
  BY <1>0, <1>4 DEF Taken
<1>6. EpochsBounded'
  <2>1. PICK b \in Nat : \A t \in 1..Len(logs) : \A i \in 1..Len(logs[t]) :
          logs[t][i].kind = "beat" => logs[t][i].epoch <= b
    BY DEF EpochsBounded, Sane
  <2>2. ASSUME NEW t \in 1..Len(logs'), NEW i \in 1..Len(logs'[t]), logs'[t][i].kind = "beat"
        PROVE  logs'[t][i].epoch <= b
    <3>1. CASE t \in 1..Len(logs)
      BY <1>4, <2>1, <2>2, <3>1
    <3>2. CASE t = Len(logs) + 1
      <4>1. i \in 1..Len(Log) /\ logs'[t][i] = Log[i] /\ Log = logs[Len(logs)]
        BY <1>1, <1>2, <1>4, <3>2 DEF Log, Timeline
      <4>2. Len(logs) \in 1..Len(logs)
        BY <1>0
      <4>3. QED
        BY <2>1, <2>2, <4>1, <4>2
    <3>3. QED
      BY <1>0, <1>4, <3>1, <3>2
  <2>3. QED
    BY <2>1, <2>2 DEF EpochsBounded
<1>7. QED
  BY <1>4, <1>5, <1>6 DEF Entries

LEMMA RestoreSane == ASSUME Sane, Restore PROVE Sane' /\ Len(logs') = Len(logs) + 1
<1>1. /\ UNCHANGED <<clock, session, page>>
      /\ faults' = [faults EXCEPT !.restores = @ - 1, !.failures = @ - Cardinality(Interrupted)]
      /\ faults.restores > 0 /\ Cardinality(Interrupted) <= faults.failures
      /\ \E n \in 0..Len(Log) : logs' = Append(logs, SubSeq(Log, 1, n))
      /\ xact' = [x \in Xacts |-> IF xact[x].at = "new" THEN xact[x] ELSE Finished]
      /\ probe' = [p \in Pods |-> IF p \in Interrupted THEN IdleProbe ELSE probe[p]]
      /\ fence' = [p \in Pods |-> IF p \in Interrupted THEN close(fence[p]) ELSE fence[p]]
  BY DEF Restore, Interrupted
<1>2. /\ logs' \in Seq(Seq(Rows \cup Beats)) /\ logs' # <<>> /\ Len(logs') = Len(logs) + 1
      /\ EpochsBounded' /\ \A s : Taken(s) => Taken(s)'
  BY <1>1, RestoredLogs
<1>3. /\ xact' \in [Xacts -> XactState]
      /\ \A x \in Xacts : xact'[x] = xact[x] \/ InOrder(xact'[x], clock)
  <2>1. InOrder(Finished, clock)
    BY XactRows DEF InOrder
  <2>2. QED
    BY <1>1, <2>1, XactRows DEF Sane, TypeOK
<1>4. /\ probe' \in [Pods -> ProbeState]
      /\ \A p \in Pods : probe'[p] = probe[p] \/ Sampled(probe'[p], clock)
  BY <1>1, ProbeRows DEF Sane, TypeOK
<1>5. \A p \in Pods : FenceOK(fence'[p])
  <2>1. \A p \in Pods : FenceOK(fence[p]) /\ FenceOK(close(fence[p]))
    BY ProbeFinds, CloseIs
  <2>2. QED
    BY <1>1, <2>1
<1>6. fence' \in [Pods -> Fence]
  BY <1>1, <1>5 DEF FenceOK
<1>7. faults' \in Faults
  <2>1. faults \in Faults
    BY DEF Sane, TypeOK, Faults
  <2>2. faults.pods \subseteq Pods /\ faults.failures \in Nat /\ faults.restores \in Nat
    BY <2>1 DEF Faults
  <2>3. Interrupted \in SUBSET Pods
    BY <2>2 DEF Interrupted
  <2>4. Cardinality(Interrupted) \in Nat
    BY <2>3, FenceConstants, FS_Subset, FS_CardinalityType
  <2>5. ASSUME NEW f \in Faults, NEW a \in Nat, NEW b \in Nat
        PROVE  [f EXCEPT !.restores = a, !.failures = b] \in Faults
    BY DEF Faults
  <2>6. faults.restores - 1 \in Nat /\ faults.failures - Cardinality(Interrupted) \in Nat
    BY <1>1, <2>2, <2>4
  <2>7. QED
    BY <1>1, <2>1, <2>5, <2>6
<1>8. TypeOK'
  BY <1>1, <1>2, <1>3, <1>4, <1>5, <1>6, <1>7 DEF Sane, TypeOK, Start, FenceOK, Faults
<1>9. clock' >= clock
  BY <1>1, Times DEF Sane
<1>10. QED
  BY <1>1, <1>2, <1>3, <1>4, <1>8, <1>9, SaneFrom

LEMMA ReadMoves ==
  ASSUME Sane, UNCHANGED <<clock, logs, xact, probe, fence, faults>>,
         \/ session' \in {session, None}
         \/ session' \in [pod : Pods, snapshot : Snapshot] /\ Taken(session'.snapshot),
         \/ page' = page
         \/ /\ page' \in [snapshot : Snapshot, upper : CreatedAts \cup {None}, since : Int \cup {None}]
            /\ Taken(page'.snapshot)
  PROVE  Sane'
<1>1. EpochsBounded' /\ \A s : Taken(s) => Taken(s)'
  BY LogsStaySane DEF Sane
<1>2. session' \in {None} \cup [pod : Pods, snapshot : Snapshot]
  BY DEF Sane, TypeOK
<1>3. page' \in {None} \cup [snapshot : Snapshot, upper : CreatedAts \cup {None}, since : Int \cup {None}]
  BY DEF Sane, TypeOK
<1>4. TypeOK'
  BY <1>2, <1>3 DEF Sane, TypeOK, Start
<1>5. clock' >= clock
  BY Times DEF Sane
<1>6. session' \in {session, None} \/ Taken(session.snapshot)'
  BY DEF Taken
<1>7. page' = page \/ Taken(page.snapshot)'
  BY DEF Taken
<1>8. QED
  BY <1>1, <1>4, <1>5, <1>6, <1>7, SaneFrom

LEMMA ObserveSane == ASSUME Sane, NEW p \in Pods, Observe(p) PROVE Sane'
<1>1. UNCHANGED <<clock, logs, xact, probe, fence, page, faults>>
  BY DEF Observe
<1>2. PICK t \in 1..Len(logs) : \E n \in 0..Len(logs[t]) :
        session' = [pod |-> p, snapshot |-> [timeline |-> t, pos |-> n]]
  BY DEF Observe, Timeline
<1>3. PICK n \in 0..Len(logs[t]) : session' = [pod |-> p, snapshot |-> [timeline |-> t, pos |-> n]]
  BY <1>2
<1>4. Len(logs) \in Nat /\ Len(logs[t]) \in Nat
  BY LogsAre DEF Sane
<1>5. t \in Nat /\ n \in Nat
  BY <1>4
<1> DEFINE s == [timeline |-> t, pos |-> n]
<1>6. s \in Snapshot /\ s.timeline = t /\ s.pos = n
  BY <1>5 DEF Snapshot
<1> HIDE DEF s
<1>7. session' = [pod |-> p, snapshot |-> s]
  BY <1>3 DEF s
<1>8. session' \in [pod : Pods, snapshot : Snapshot] /\ session'.snapshot = s
  BY <1>6, <1>7
<1>9. Taken(s)
  BY <1>6 DEF Taken
<1>10. QED
  BY <1>1, <1>8, <1>9, ReadMoves

\* The page of a session in progress.
LEMMA PageOf ==
  ASSUME Sane, session # None, NEW u \in CreatedAts \cup {None}, NEW d \in Int \cup {None},
         NEW pg, pg = [snapshot |-> session.snapshot, upper |-> u, since |-> d]
  PROVE  /\ pg \in [snapshot : Snapshot, upper : CreatedAts \cup {None}, since : Int \cup {None}]
         /\ pg.snapshot = session.snapshot /\ pg.upper = u /\ pg.since = d /\ Taken(pg.snapshot)
         /\ session.pod \in Pods
<1>1. session \in [pod : Pods, snapshot : Snapshot] /\ Taken(session.snapshot)
  BY DEF Sane, TypeOK, SnapshotsTaken
<1>2. session.snapshot \in Snapshot /\ session.pod \in Pods
  BY <1>1
<1>3. QED
  BY <1>1, <1>2

LEMMA ServeCoveredSane == ASSUME Sane, NEW upper \in CreatedAts, ServeCovered(upper) PROVE Sane'
<1>1. /\ UNCHANGED <<clock, logs, xact, probe, fence, faults>> /\ session' = None /\ session # None
      /\ page' = [snapshot |-> session.snapshot, upper |-> upper, since |-> None]
  BY DEF ServeCovered
<1>2. /\ page' \in [snapshot : Snapshot, upper : CreatedAts \cup {None}, since : Int \cup {None}]
      /\ Taken(page'.snapshot)
  BY <1>1, PageOf
<1>3. QED
  BY <1>1, <1>2, ReadMoves

LEMMA ServeBoundedSane == ASSUME Sane, ServeBounded PROVE Sane'
<1>1. /\ UNCHANGED <<clock, logs, xact, probe, fence, faults>> /\ session' = None /\ session # None
      /\ page' = [snapshot |-> session.snapshot, upper |-> None, since |-> clock - Budget]
  BY DEF ServeBounded
<1>2. clock - Budget \in Int
  BY Times, FenceConstants DEF Sane
<1>3. /\ page' \in [snapshot : Snapshot, upper : CreatedAts \cup {None}, since : Int \cup {None}]
      /\ Taken(page'.snapshot)
  BY <1>1, <1>2, PageOf
<1>4. QED
  BY <1>1, <1>3, ReadMoves

LEMMA ServeFromWriterSane == ASSUME Sane, ServeFromWriter PROVE Sane'
<1>1. UNCHANGED <<clock, logs, xact, probe, fence, page, faults>> /\ session' = None
  BY DEF ServeFromWriter
<1>2. QED
  BY <1>1, ReadMoves

LEMMA SaneInit == Init => Sane
<1> SUFFICES ASSUME Init PROVE Sane
  OBVIOUS
<1>1. clock \in Start..MaxClock
  BY FenceConstants DEF Init, Start
<1>2. logs \in Seq(Seq(Rows \cup Beats)) /\ logs # <<>> /\ Len(logs) = 1 /\ Len(logs[1]) = 0
  BY DEF Init
<1>3. \A x \in Xacts : xact[x] = NewXact
  BY DEF Init
<1>4. xact \in [Xacts -> XactState] /\ XactsInOrder
  BY <1>3, XactRows DEF Init, XactsInOrder, InOrder
<1>5. \A p \in Pods : probe[p] = IdleProbe /\ fence[p] = ClosedFence
  BY DEF Init
<1>6. probe \in [Pods -> ProbeState] /\ ProbesSampled
  BY <1>5, ProbeRows DEF Init, ProbesSampled
<1>7. fence \in [Pods -> Fence] /\ \A p \in Pods : FenceOK(fence[p])
  BY <1>5, ClosedIs DEF Init, FenceOK
<1>8. faults \in Faults /\ session = None /\ page = None
  BY FenceConstants DEF Init, Faults
<1>9. TypeOK
  BY <1>1, <1>2, <1>4, <1>6, <1>7, <1>8 DEF TypeOK, FenceOK, Faults
<1>10. EpochsBounded
  <2>1. \A t \in 1..Len(logs) : \A i \in 1..Len(logs[t]) : logs[t][i].kind = "beat" => logs[t][i].epoch <= 0
    BY <1>2
  <2>2. QED
    BY <2>1 DEF EpochsBounded
<1>11. QED
  BY <1>4, <1>6, <1>8, <1>9, <1>10 DEF Sane, SnapshotsTaken

LEMMA SaneStep == ASSUME Sane, [Next]_vars PROVE Sane'
<1>1. CASE Tick
  BY <1>1, TickSane
<1>2. CASE Restore
  BY <1>2, RestoreSane
<1>3. ASSUME NEW x \in Xacts, Begin(x) \/ FloorGuard(x) \/ CommitXact(x) \/ Prepare(x) PROVE Sane'
  BY <1>3, BeginSane, FloorGuardSane, CommitXactSane, PrepareSane
<1>4. ASSUME NEW p \in Pods, Probe(p) PROVE Sane'
  BY <1>4, SampleClockSane, ScanActivitySane, ScanPreparedSane, CommitTokenSane, RecordSane, RotateEpochSane,
     ProbeFailsSane, RestartSane DEF Probe
<1>5. CASE Route
  BY <1>5, ObserveSane, ServeCoveredSane, ServeBoundedSane, ServeFromWriterSane DEF Route
<1>6. CASE UNCHANGED vars
  <2>1. UNCHANGED <<clock, logs, xact, probe, fence, session, page, faults>>
    BY <1>6 DEF vars
  <2>2. QED
    BY <2>1, ReadMoves
<1>7. QED
  BY <1>1, <1>2, <1>3, <1>4, <1>5, <1>6 DEF Next, Database

-----------------------------------------------------------------------------
(* Seals hold while the writer goes on *)

XactProgress(x) ==
  \/ xact'[x] = xact[x]
  \/ xact'[x].at = "open" /\ xact'[x].start = clock
  \/ xact'[x].at = "guarded" /\ xact[x].at = "open" /\ xact'[x].start = xact[x].start
  \/ xact'[x].at = "prepared" /\ xact'[x].prepared = clock
  \/ xact'[x].at = "done"

EntryProgress(e) ==
  \/ e.kind = "beat" /\ e.token > Heartbeat.token
  \/ /\ e.kind = "row" /\ e.time = clock
     /\ \E x \in Xacts : xact[x].at \in {"guarded", "prepared"} /\ e.created_at = xact[x].created_at

\* Any step but a restore.
Progress ==
  /\ clock' >= clock /\ Len(logs') = Len(logs)
  /\ \A x \in Xacts : XactProgress(x)
  /\ \A i \in 1..Len(Log) : Log'[i] = Log[i]
  /\ \/ Len(Log') = Len(Log)
     \/ Len(Log') = Len(Log) + 1 /\ EntryProgress(Log'[Len(Log) + 1])

\* The floor and the margin keep what may still commit above a wall.
LEMMA AboveWall ==
  ASSUME Sane, NEW wall \in Int, NEW k, Sealed(wall, k), NEW x \in Xacts, xact[x].at \in {"guarded", "prepared"}
  PROVE  xact[x].created_at > wall
<1>1. InOrder(xact[x], clock) /\ clock \in Nat /\ Floor \in Nat /\ Margin \in Nat /\ Margin > 0
  BY Times DEF Sane, XactsInOrder
<1>2. xact[x].created_at \in Int
  BY <1>1, FenceConstants DEF InOrder
<1>3. CASE xact[x].at = "guarded"
  BY <1>1, <1>2, <1>3 DEF InOrder, Sealed, Begun
<1>4. CASE xact[x].at = "prepared"
  BY <1>1, <1>2, <1>4 DEF InOrder, Sealed
<1>5. QED
  BY <1>3, <1>4

LEMMA BegunStays ==
  ASSUME Sane, Sane', Progress, NEW m \in Int, Begun(m)
  PROVE  Begun(m)'
<1>1. clock \in Int /\ clock' \in Int /\ clock' >= clock
  BY Times DEF Sane, Progress, TypeOK, Start
<1>2. ASSUME NEW x \in Xacts, xact'[x].at \in {"open", "guarded"} PROVE xact'[x].start >= m
  BY <1>1, <1>2 DEF Begun, Progress, XactProgress
<1>3. QED
  BY <1>1, <1>2 DEF Begun

LEMMA HeldStays ==
  ASSUME Sane, Sane', Progress, NEW m \in Int, Held(m)
  PROVE  Held(m)'
<1>1. clock \in Int /\ clock' \in Int /\ clock' >= clock
  BY Times DEF Sane, Progress, TypeOK, Start
<1>2. ASSUME NEW x \in Xacts, xact'[x].at = "prepared" PROVE xact'[x].prepared >= m
  BY <1>1, <1>2 DEF Held, Progress, XactProgress
<1>3. QED
  BY <1>1, <1>2 DEF Held

LEMMA SealStays ==
  ASSUME Sane, Sane', Progress, NEW wall \in Int, NEW k \in Nat, Sealed(wall, k)
  PROVE  Sealed(wall, k)'
<1>1. wall + Floor + Margin \in Int /\ clock \in Int /\ clock >= wall + Floor + Margin
  BY Times DEF Sane, Sealed, Begun
<1>2. Begun(wall + Floor + Margin)'
  <2>1. Begun(wall + Floor + Margin)
    BY DEF Sealed
  <2> DEFINE m == wall + Floor + Margin
  <2>2. m \in Int /\ Begun(m)
    BY <1>1, <2>1
  <2> HIDE DEF m
  <2>3. Begun(m)'
    BY <2>2, BegunStays
  <2>4. QED
    BY <2>3 DEF m
<1>3. ASSUME NEW x \in Xacts, xact'[x].at = "prepared" PROVE xact'[x].prepared >= wall + Floor + Margin
  BY <1>1, <1>3 DEF Sealed, Progress, XactProgress
<1>4. ASSUME NEW j \in 1..Len(Log'), j > k, Log'[j].kind = "row" PROVE Log'[j].created_at > wall
  <2>1. CASE j \in 1..Len(Log)
    BY <1>4, <2>1 DEF Sealed, Progress
  <2>2. CASE j \notin 1..Len(Log)
    <3>1. Len(Log) \in Nat /\ Len(Log') \in Nat
      BY LogsAre DEF Sane, Progress
    <3>2. j = Len(Log) + 1 /\ EntryProgress(Log'[j])
      BY <2>2, <3>1 DEF Progress
    <3>3. PICK x \in Xacts : xact[x].at \in {"guarded", "prepared"} /\ Log'[j].created_at = xact[x].created_at
      BY <1>4, <3>2 DEF EntryProgress
    <3>4. QED
      BY <3>3, AboveWall
  <2>3. QED
    BY <2>1, <2>2
<1>5. QED
  BY <1>2, <1>3, <1>4 DEF Sealed

LEMMA DateStays ==
  ASSUME Sane, Sane', Progress, NEW since \in Int, NEW k \in Nat, Dated(since, k)
  PROVE  Dated(since, k)'
<1>1. clock \in Int /\ clock' \in Int /\ clock' >= clock
  BY Times DEF Sane, Progress, TypeOK, Start
<1>2. ASSUME NEW j \in 1..Len(Log'), j > k, Log'[j].kind = "row" PROVE Log'[j].time >= since
  <2>1. CASE j \in 1..Len(Log)
    BY <1>2, <2>1 DEF Dated, Progress
  <2>2. CASE j \notin 1..Len(Log)
    <3>1. Len(Log) \in Nat /\ Len(Log') \in Nat
      BY LogsAre DEF Sane, Progress
    <3>2. j = Len(Log) + 1 /\ EntryProgress(Log'[j])
      BY <2>2, <3>1 DEF Progress
    <3>3. Log'[j].time = clock
      BY <1>2, <3>2 DEF EntryProgress
    <3>4. QED
      BY <1>1, <3>3 DEF Dated
  <2>3. QED
    BY <2>1, <2>2
<1>3. QED
  BY <1>1, <1>2 DEF Dated

\* A lower wall and a later position are sealed too.
LEMMA SealWeaker ==
  ASSUME Sane, NEW wall \in Int, NEW k \in Nat, NEW v \in Int, v <= wall, NEW l \in Nat, k <= l
  PROVE  /\ Sealed(wall, k) => Sealed(v, l)
         /\ Dated(wall, k) => Dated(v, l)
<1>1. clock \in Int /\ Floor \in Nat /\ Margin \in Nat /\ Len(Log) \in Nat
  BY Times, LogsAre DEF Sane
<1>2. \A x \in Xacts : /\ xact[x].at \in {"open", "guarded"} => xact[x].start \in Int
                       /\ xact[x].at = "prepared" => xact[x].prepared \in Int
  BY DEF Sane, XactsInOrder, InOrder
<1>3. \A j \in 1..Len(Log) : Log[j].kind = "row" => Log[j].created_at \in Int /\ Log[j].time \in Int
  BY LogsAre, EntryKinds DEF Sane
<1>4. ASSUME Sealed(wall, k) PROVE Sealed(v, l)
  <2>1. Begun(v + Floor + Margin)
    BY <1>1, <1>2, <1>4 DEF Sealed, Begun
  <2>2. \A x \in Xacts : xact[x].at = "prepared" => xact[x].prepared >= v + Floor + Margin
    BY <1>1, <1>2, <1>4 DEF Sealed
  <2>3. \A j \in 1..Len(Log) : j > l /\ Log[j].kind = "row" => Log[j].created_at > v
    BY <1>1, <1>3, <1>4 DEF Sealed
  <2>4. QED
    BY <2>1, <2>2, <2>3 DEF Sealed
<1>5. ASSUME Dated(wall, k) PROVE Dated(v, l)
  BY <1>1, <1>3, <1>5 DEF Dated
<1>6. QED
  BY <1>4, <1>5

-----------------------------------------------------------------------------
(* What is proven stays proven *)

LEMMA LogGrows ==
  ASSUME Sane, Sane', Progress
  PROVE  /\ Len(Log) \in Nat /\ Len(Log') \in Nat /\ Len(Log) <= Len(Log')
         /\ \A k \in 1..Len(Log) : k \in 1..Len(Log') /\ Log'[k] = Log[k]
<1>1. Len(Log) \in Nat
  BY LogsAre DEF Sane
<1>2. Len(Log') \in Nat /\ Len(Log) <= Len(Log')
  BY <1>1 DEF Progress
<1>3. QED
  BY <1>1, <1>2 DEF Progress

LEMMA TokensGrowOn ==
  ASSUME Sane, Sane', Progress, TokensGrow
  PROVE  TokensGrow'
<1>1. /\ Len(Log) \in Nat /\ Len(Log') \in Nat /\ Len(Log) <= Len(Log')
      /\ \A k \in 1..Len(Log) : k \in 1..Len(Log') /\ Log'[k] = Log[k]
  BY LogGrows
<1> SUFFICES ASSUME NEW i \in 1..Len(Log'), NEW j \in 1..Len(Log'), i < j, Log'[i].kind = "beat", Log'[j].kind = "beat"
             PROVE  Log'[i].token < Log'[j].token
  BY DEF TokensGrow
<1>2. CASE j \in 1..Len(Log)
  BY <1>1, <1>2 DEF TokensGrow
<1>3. CASE j \notin 1..Len(Log)
  <2>1. j = Len(Log) + 1 /\ EntryProgress(Log'[j])
    BY <1>1, <1>3 DEF Progress
  <2>2. Log'[j].token > Heartbeat.token
    BY <2>1 DEF EntryProgress
  <2>3. i \in 1..Len(Log) /\ Log'[i] = Log[i]
    BY <1>1, <2>1
  <2>4. TypeOK /\ Log \in Seq(Entries) /\ Len(Log) \in 0..Len(Log) /\ \A m \in 1..Len(Log) : Log[m] \in Entries
    BY <1>1, LogsAre DEF Sane
  <2>5. PICK m \in i..Len(Log) : Log[m].kind = "beat" /\ Heartbeat = Log[m]
    BY <2>3, <2>4, HeartbeatIs DEF Heartbeat
  <2>6. m \in 1..Len(Log) /\ Log[i].token \in Nat /\ Log[m].token \in Nat
    BY <1>1, <2>3, <2>4, <2>5, EntryKinds
  <2>7. Log[i].token <= Log[m].token
    BY <2>3, <2>5, <2>6 DEF TokensGrow
  <2>8. Log'[j].token \in Nat
    <3>1. logs' \in Seq(Seq(Entries)) /\ Len(logs') \in 1..Len(logs')
      BY LogsAre DEF Sane, TypeOK, Entries, Progress
    <3>2. Log' \in Seq(Entries)
      BY <3>1, ElementOfSeq DEF Log, Timeline
    <3>3. Log'[j] \in Entries
      BY <3>2, ElementOfSeq
    <3>4. QED
      BY <3>3, EntryKinds
  <2>9. QED
    BY <2>2, <2>3, <2>5, <2>6, <2>7, <2>8
<1>4. QED
  BY <1>2, <1>3

LEMMA EntryStays ==
  ASSUME Sane, Sane', Progress, NEW e \in RingEntry, EntrySealed(e)
  PROVE  EntrySealed(e)'
<1>1. PICK k \in 1..Len(Log) : /\ Log[k].kind = "beat" /\ Log[k].token = e.token
                               /\ Sealed(e.fence_wall, k) /\ Dated(e.committed_at, k)
  BY DEF EntrySealed
<1>2. k \in Nat /\ e.fence_wall \in Int /\ e.committed_at \in Int /\ k \in 1..Len(Log') /\ Log'[k] = Log[k]
  BY LogGrows DEF RingEntry
<1>3. Sealed(e.fence_wall, k)' /\ Dated(e.committed_at, k)'
  BY <1>1, <1>2, SealStays, DateStays
<1>4. QED
  BY <1>1, <1>2, <1>3 DEF EntrySealed

LEMMA ProbeStays ==
  ASSUME Sane, Sane', Progress, NEW r \in ProbeState, Sampled(r, clock), ProbeSealed(r)
  PROVE  ProbeSealed(r)'
<1>1. CASE r.at \in {"activity", "prepared"}
  <2> DEFINE m == Oldest(r)
  <2>1. m \in Int /\ (r.at = "prepared" => Begun(m)) /\ (r.at = "activity" => Held(m))
    BY <1>1, WallIs DEF Sampled, ProbeSealed
  <2> HIDE DEF m
  <2>2. (r.at = "prepared" => Begun(m)') /\ (r.at = "activity" => Held(m)')
    BY <2>1, BegunStays, HeldStays
  <2>3. QED
    BY <1>1, <2>2 DEF ProbeSealed, m
<1>2. CASE r.at \in {"token", "rotate", "record"}
  <2> DEFINE w == Wall(r)
  <2>1. w \in Int /\ r.committed_at \in Int
    BY <1>2, WallIs DEF Sampled
  <2>2. CASE r.at = "record"
    <3>1. PICK k \in 1..Len(Log) : Log[k] = r.beat /\ Sealed(w, k) /\ Dated(r.committed_at, k)
      BY <2>2 DEF ProbeSealed
    <3> HIDE DEF w
    <3>2. k \in Nat /\ k \in 1..Len(Log') /\ Log'[k] = Log[k]
      BY LogGrows
    <3>3. Sealed(w, k)' /\ Dated(r.committed_at, k)'
      BY <2>1, <3>1, <3>2, SealStays, DateStays
    <3>4. \E l \in 1..Len(Log') : Log'[l] = r.beat /\ Sealed(w, l)' /\ Dated(r.committed_at, l)'
      BY <3>1, <3>2, <3>3
    <3>5. QED
      BY <2>2, <3>4 DEF ProbeSealed, w
  <2>3. CASE r.at # "record"
    <3>1. Sealed(w, Len(Log)) /\ Dated(r.committed_at, Len(Log))
      BY <1>2, <2>3 DEF ProbeSealed
    <3> HIDE DEF w
    <3> DEFINE k == Len(Log)
               l == Len(Log')
    <3>2. k \in Nat /\ l \in Nat /\ k <= l /\ Sealed(w, k) /\ Dated(r.committed_at, k)
      BY <3>1, LogGrows
    <3> HIDE DEF k, l
    <3>3. Sealed(w, l) /\ Dated(r.committed_at, l)
      BY <2>1, <3>2, SealWeaker
    <3>4. PICK n \in Nat : n = l
      BY <3>2
    <3>5. Sealed(w, n)' /\ Dated(r.committed_at, n)'
      BY <2>1, <3>2, <3>3, <3>4, SealStays, DateStays
    <3>6. QED
      BY <1>2, <2>3, <3>4, <3>5 DEF ProbeSealed, w, l
  <2>4. QED
    BY <2>2, <2>3
<1>3. CASE r.at \in {"idle", "scan"}
  BY <1>3 DEF ProbeSealed
<1>4. QED
  BY <1>1, <1>2, <1>3 DEF ProbeState

Pages == [snapshot : Snapshot, upper : CreatedAts \cup {None}, since : Int \cup {None}]

LEMMA PageStays ==
  ASSUME Sane, Sane', Progress, NEW pg \in {None} \cup Pages, PageSealed(pg)
  PROVE  PageSealed(pg)'
<1>1. CASE pg = None
  BY <1>1 DEF PageSealed
<1>2. CASE pg # None
  <2>1. pg.snapshot.pos \in Nat /\ (pg.upper # None => pg.upper \in Int) /\ (pg.since # None => pg.since \in Int)
    BY <1>2, FenceConstants DEF Pages, Snapshot
  <2>2. pg.upper # None => Sealed(pg.upper, pg.snapshot.pos)'
    BY <1>2, <2>1, SealStays DEF PageSealed
  <2>3. pg.since # None => Dated(pg.since, pg.snapshot.pos)'
    BY <1>2, <2>1, DateStays DEF PageSealed
  <2>4. QED
    BY <2>2, <2>3 DEF PageSealed
<1>3. QED
  BY <1>1, <1>2

\* A step has to account only for what it changes.
LEMMA ProvenFrom ==
  ASSUME Sane, Sane', Progress, Proven,
         \A p \in Pods : probe'[p] = probe[p] \/ ProbeSealed(probe[p])',
         \A p \in Pods : \A i \in 1..Len(fence'[p].ring) :
           \/ \E j \in 1..Len(fence[p].ring) : fence'[p].ring[i] = fence[p].ring[j]
           \/ EntrySealed(fence[p].ring[i])',
         page' = page \/ PageSealed(page)'
  PROVE  Proven'
<1>1. TokensGrow'
  BY TokensGrowOn DEF Proven
<1>2. ASSUME NEW p \in Pods PROVE ProbeSealed(probe[p])'
  <2>1. probe[p] \in ProbeState /\ Sampled(probe[p], clock) /\ ProbeSealed(probe[p])
    BY ProbeFinds DEF Proven
  <2>2. PICK r \in ProbeState : r = probe[p]
    BY <2>1
  <2>3. ProbeSealed(r)'
    BY <2>1, <2>2, ProbeStays
  <2>4. CASE probe'[p] = probe[p]
    BY <2>2, <2>3, <2>4
  <2>5. QED
    BY <2>4
<1>3. ASSUME NEW p \in Pods PROVE RingSealed(fence[p])'
  <2>1. ASSUME NEW i \in 1..Len(fence'[p].ring) PROVE EntrySealed(fence[p].ring[i])'
    <3>1. CASE \E j \in 1..Len(fence[p].ring) : fence'[p].ring[i] = fence[p].ring[j]
      <4>1. PICK j \in 1..Len(fence[p].ring) : fence'[p].ring[i] = fence[p].ring[j]
        BY <3>1
      <4>2. fence[p].ring \in Seq(RingEntry)
        BY ProbeFinds DEF Fence
      <4>3. fence[p].ring[j] \in RingEntry /\ EntrySealed(fence[p].ring[j])
        BY <4>2, ElementOfSeq DEF Proven, RingSealed
      <4>4. PICK e \in RingEntry : e = fence[p].ring[j]
        BY <4>3
      <4>5. EntrySealed(e)'
        BY <4>3, <4>4, EntryStays
      <4>6. QED
        BY <4>1, <4>4, <4>5
    <3>2. QED
      BY <3>1
  <2>2. QED
    BY <2>1 DEF RingSealed
<1>4. PageSealed(page)'
  <2>1. page \in {None} \cup Pages /\ PageSealed(page)
    BY DEF Sane, TypeOK, Pages, Proven
  <2>2. PICK pg \in {None} \cup Pages : pg = page
    BY <2>1
  <2>3. PageSealed(pg)'
    BY <2>1, <2>2, PageStays
  <2>4. QED
    BY <2>2, <2>3
<1>5. QED
  BY <1>1, <1>2, <1>3, <1>4 DEF Proven

-----------------------------------------------------------------------------
(* Every step but a restore keeps what is proven *)

\* Steps that leave the writer alone.
LEMMA StillProgress ==
  ASSUME Sane, clock' >= clock, UNCHANGED <<logs, xact>>
  PROVE  Progress
<1>1. Log' = Log
  BY DEF Log, Timeline
<1>2. QED
  BY <1>1 DEF Progress, XactProgress

LEMMA CommitProgress ==
  ASSUME Sane, clock' = clock, NEW e \in Entries, Commit(e), EntryProgress(e), \A x \in Xacts : XactProgress(x)
  PROVE  Progress /\ Len(Log') = Len(Log) + 1 /\ Log'[Len(Log) + 1] = e
<1>1. /\ Len(logs') = Len(logs) /\ Len(Log') = Len(Log) + 1 /\ Log'[Len(Log) + 1] = e
      /\ \A i \in 1..Len(Log) : Log'[i] = Log[i]
  BY CommitIs DEF Sane
<1>2. clock' >= clock
  BY Times DEF Sane
<1>3. QED
  BY <1>1, <1>2 DEF Progress

\* A step of a transaction.
LEMMA XactProven ==
  ASSUME Sane, Sane', Proven, Progress, UNCHANGED <<probe, fence, page>>
  PROVE  Proven'
BY ProvenFrom

LEMMA TickProven == ASSUME Sane, Sane', Proven, Tick PROVE Proven'
<1>1. UNCHANGED <<logs, xact, probe, fence, session, page, faults>> /\ clock' = clock + 1
  BY DEF Tick
<1>2. clock' >= clock
  BY <1>1, Times DEF Sane
<1>3. QED
  BY <1>1, <1>2, StillProgress, XactProven

LEMMA AloneProgress ==
  ASSUME Sane, NEW x \in Xacts, NEW r, xact' = [xact EXCEPT ![x] = r], UNCHANGED <<clock, logs>>,
         \/ r.at = "open" /\ r.start = clock
         \/ r.at = "guarded" /\ xact[x].at = "open" /\ r.start = xact[x].start
         \/ r.at = "prepared" /\ r.prepared = clock
         \/ r.at = "done"
  PROVE  Progress
<1>1. xact'[x] = r /\ \A y \in Xacts : y # x => xact'[y] = xact[y]
  BY DEF Sane, TypeOK
<1>2. \A y \in Xacts : XactProgress(y)
  BY <1>1 DEF XactProgress
<1>3. Log' = Log /\ clock' >= clock
  BY Times DEF Sane, Log, Timeline
<1>4. QED
  BY <1>2, <1>3 DEF Progress

LEMMA BeginProven == ASSUME Sane, Sane', Proven, NEW x \in Xacts, Begin(x) PROVE Proven'
<1>1. PICK created \in CreatedAts :
        xact' = [xact EXCEPT ![x] = [xact[x] EXCEPT !.at = "open", !.start = clock, !.created_at = created]]
  BY DEF Begin
<1> DEFINE r == [xact[x] EXCEPT !.at = "open", !.start = clock, !.created_at = created]
<1>2. r.at = "open" /\ r.start = clock
  BY DEF Sane, TypeOK, XactState
<1> HIDE DEF r
<1>3. xact' = [xact EXCEPT ![x] = r] /\ UNCHANGED <<clock, logs, probe, fence, page>>
  BY <1>1 DEF r, Begin
<1>4. QED
  BY <1>2, <1>3, AloneProgress, XactProven

LEMMA FloorGuardProven == ASSUME Sane, Sane', Proven, NEW x \in Xacts, FloorGuard(x) PROVE Proven'
<1>1. UNCHANGED <<clock, logs, probe, fence, session, page, faults>> /\ xact[x].at = "open"
  BY DEF FloorGuard
<1>2. CASE PassesFloor(xact[x].created_at)
  <2> DEFINE r == [xact[x] EXCEPT !.at = "guarded", !.guard = clock]
  <2>1. xact' = [xact EXCEPT ![x] = r]
    BY <1>2 DEF FloorGuard
  <2>2. r.at = "guarded" /\ r.start = xact[x].start
    BY DEF Sane, TypeOK, XactState
  <2> HIDE DEF r
  <2>3. QED
    BY <1>1, <2>1, <2>2, AloneProgress, XactProven
<1>3. CASE ~PassesFloor(xact[x].created_at)
  <2>1. xact' = [xact EXCEPT ![x] = Finished]
    BY <1>3 DEF FloorGuard
  <2>2. QED
    BY <1>1, <2>1, XactRows, AloneProgress, XactProven
<1>4. QED
  BY <1>2, <1>3

LEMMA PrepareProven == ASSUME Sane, Sane', Proven, NEW x \in Xacts, Prepare(x) PROVE Proven'
<1> DEFINE r == [xact[x] EXCEPT !.at = "prepared", !.prepared = clock]
<1>1. UNCHANGED <<clock, logs, probe, fence, session, page, faults>> /\ xact' = [xact EXCEPT ![x] = r]
  BY DEF Prepare
<1>2. r.at = "prepared" /\ r.prepared = clock
  BY DEF Sane, TypeOK, XactState
<1> HIDE DEF r
<1>3. QED
  BY <1>1, <1>2, AloneProgress, XactProven

LEMMA CommitXactProven == ASSUME Sane, Sane', Proven, NEW x \in Xacts, CommitXact(x) PROVE Proven'
<1> DEFINE e == Row(x, xact[x].created_at)
<1>1. /\ UNCHANGED <<clock, probe, fence, session, page, faults>> /\ xact[x].at \in {"guarded", "prepared"}
      /\ Commit(e) /\ xact' = [xact EXCEPT ![x] = Finished]
  BY DEF CommitXact
<1>2. e \in Entries /\ e.kind = "row" /\ e.time = clock /\ e.created_at = xact[x].created_at
  BY <1>1, RowIs
<1> HIDE DEF e
<1>3. EntryProgress(e)
  BY <1>1, <1>2 DEF EntryProgress
<1>4. \A y \in Xacts : XactProgress(y)
  <2>1. \A y \in Xacts : y # x => xact'[y] = xact[y]
    BY <1>1 DEF Sane, TypeOK
  <2>2. xact'[x].at = "done"
    BY <1>1, XactRows DEF Sane, TypeOK
  <2>3. QED
    BY <2>1, <2>2 DEF XactProgress
<1>5. Progress
  BY <1>1, <1>2, <1>3, <1>4, CommitProgress
<1>6. QED
  BY <1>1, <1>5, XactProven

\* A step of one pod whose ring it leaves alone or empties.
LEMMA PodProven ==
  ASSUME Sane, Sane', Proven, Progress, NEW p \in Pods, NEW r, probe' = [probe EXCEPT ![p] = r],
         ProbeSealed(probe[p])',
         \/ fence' = fence
         \/ \E f : Len(f.ring) = 0 /\ fence' = [fence EXCEPT ![p] = f],
         page' = page
  PROVE  Proven'
<1>1. \A q \in Pods : q # p => probe'[q] = probe[q]
  BY DEF Sane, TypeOK
<1>2. \A q \in Pods : \A i \in 1..Len(fence'[q].ring) : \E j \in 1..Len(fence[q].ring) : fence'[q].ring[i] = fence[q].ring[j]
  <2>1. CASE fence' = fence
    BY <2>1
  <2>2. CASE \E f : Len(f.ring) = 0 /\ fence' = [fence EXCEPT ![p] = f]
    <3>1. PICK f : Len(f.ring) = 0 /\ fence' = [fence EXCEPT ![p] = f]
      BY <2>2
    <3>2. fence'[p] = f /\ \A q \in Pods : q # p => fence'[q] = fence[q]
      BY <3>1 DEF Sane, TypeOK
    <3>3. QED
      BY <3>1, <3>2
  <2>3. QED
    BY <2>1, <2>2
<1>3. QED
  BY <1>1, <1>2, ProvenFrom

LEMMA QuietPod ==
  ASSUME Sane, NEW p \in Pods, NEW r \in ProbeState, r.at \in {"idle", "scan"}, probe' = [probe EXCEPT ![p] = r]
  PROVE  ProbeSealed(probe[p])'
<1>1. probe'[p] = r
  BY DEF Sane, TypeOK
<1>2. QED
  BY <1>1 DEF ProbeSealed

LEMMA SampleClockProven == ASSUME Sane, Sane', Proven, NEW p \in Pods, SampleClock(p) PROVE Proven'
<1> DEFINE r == [IdleProbe EXCEPT !.at = "scan", !.sampled_at = clock]
<1>1. UNCHANGED <<clock, logs, xact, fence, session, page, faults>> /\ probe' = [probe EXCEPT ![p] = r]
  BY DEF SampleClock
<1>2. clock \in Nat
  BY ProbeFinds
<1>3. r \in ProbeState /\ r.at = "scan"
  BY <1>2, ProbeRows
<1> HIDE DEF r
<1>4. Progress
  BY <1>1, <1>2, StillProgress
<1>5. ProbeSealed(probe[p])'
  BY <1>1, <1>3, QuietPod
<1>6. QED
  BY <1>1, <1>4, <1>5, PodProven

LEMMA ProbeFailsProven == ASSUME Sane, Sane', Proven, NEW p \in Pods, ProbeFails(p) PROVE Proven'
<1>1. /\ UNCHANGED <<clock, logs, xact, session, page>> /\ probe' = [probe EXCEPT ![p] = IdleProbe]
      /\ fence' = [fence EXCEPT ![p] = close(fence[p])]
  BY DEF ProbeFails
<1>2. clock \in Nat /\ Len(close(fence[p]).ring) = 0
  BY ProbeFinds, CloseIs
<1>3. Progress
  BY <1>1, <1>2, StillProgress
<1>4. ProbeSealed(probe[p])'
  BY <1>1, ProbeRows, QuietPod
<1>5. QED
  BY <1>1, <1>2, <1>3, <1>4, PodProven

LEMMA RestartProven == ASSUME Sane, Sane', Proven, NEW p \in Pods, Restart(p) PROVE Proven'
<1>1. /\ UNCHANGED <<clock, logs, xact, page>> /\ probe' = [probe EXCEPT ![p] = IdleProbe]
      /\ fence' = [fence EXCEPT ![p] = ClosedFence]
  BY DEF Restart
<1>2. clock \in Nat /\ Len(ClosedFence.ring) = 0
  BY ProbeFinds, ClosedIs
<1>3. Progress
  BY <1>1, <1>2, StillProgress
<1>4. ProbeSealed(probe[p])'
  BY <1>1, ProbeRows, QuietPod
<1>5. QED
  BY <1>1, <1>2, <1>3, <1>4, PodProven

\* A scan takes the wall down to what it found; the second one seals it.
LEMMA ScanProven ==
  ASSUME Sane, Sane', Proven, NEW p \in Pods, NEW next \in {"activity", "prepared"}, NEW T, T \subseteq TimeOrNone,
         probe[p].at \in {"scan", "activity", "prepared"} \ {next},
         UNCHANGED <<clock, logs, xact, fence, session, page, faults>>,
         probe' = [probe EXCEPT ![p] = Scanned(probe[p], next, T)],
         \A m \in Nat : m <= clock /\ (\A t \in T : t # None => m <= t) =>
            (next = "prepared" => Begun(m)) /\ (next = "activity" => Held(m))
  PROVE  Proven'
<1> DEFINE r == Scanned(probe[p], next, T)
<1>1. /\ r \in ProbeState /\ r.sampled_at = probe[p].sampled_at /\ Sampled(r, clock)
      /\ r.at = IF probe[p].at = "scan" THEN next ELSE "token"
      /\ r.at = "token" => r.committed_at = clock
      /\ \A t \in {probe[p].oldest} \cup T : t # None => r.oldest \in Nat /\ r.oldest <= t
  BY ScannedIs
<1>2. probe' = [probe EXCEPT ![p] = r]
  OBVIOUS
<1> HIDE DEF r
<1>3. /\ r.sampled_at \in Nat /\ r.sampled_at <= clock /\ clock \in Nat /\ probe[p] \in ProbeState
      /\ Len(Log) \in Nat
  BY <1>1, ProbeFinds, LogsAre DEF Sampled, Sane
<1> DEFINE o == Oldest(probe[p])
           m == Oldest(r)
           w == Wall(r)
<1>4. /\ o \in Nat /\ o \in {probe[p].sampled_at, probe[p].oldest}
      /\ (probe[p].at = "prepared" => Begun(o)) /\ (probe[p].at = "activity" => Held(o))
  BY <1>1, <1>3, WallIs DEF ProbeSealed, Proven
<1>5. /\ m \in Nat /\ m <= r.sampled_at /\ (r.oldest # None => m <= r.oldest)
      /\ w \in Int /\ w + Floor + Margin = m
  BY <1>1, <1>3, WallIs
<1> HIDE DEF o, m, w
<1>6. \A t \in {probe[p].oldest} \cup T : t # None => m <= t
  <2> SUFFICES ASSUME NEW t \in {probe[p].oldest} \cup T, t # None PROVE m <= t
    OBVIOUS
  <2>1. r.oldest \in Nat /\ r.oldest <= t /\ r.oldest # None
    BY <1>1, FenceConstants
  <2>2. t \in Nat
    BY <1>3 DEF ProbeState, TimeOrNone
  <2>3. QED
    BY <1>5, <2>1, <2>2
<1>7. m <= o /\ m <= clock
  <2>1. o # None
    BY <1>4, FenceConstants
  <2>2. CASE o = probe[p].sampled_at
    BY <1>1, <1>3, <1>5, <2>2
  <2>3. CASE o = probe[p].oldest
    <3>1. m <= o
      BY <1>6, <2>1, <2>3
    <3>2. QED
      BY <1>3, <1>5, <3>1
  <2>4. QED
    BY <1>4, <2>2, <2>3
<1>8. (next = "prepared" => Begun(m)) /\ (next = "activity" => Held(m))
  BY <1>5, <1>6, <1>7
<1>9. (probe[p].at = "prepared" => Begun(m)) /\ (probe[p].at = "activity" => Held(m))
  <2>1. \A x \in Xacts : /\ xact[x].at \in {"open", "guarded"} => xact[x].start \in Nat
                         /\ xact[x].at = "prepared" => xact[x].prepared \in Nat
    BY ProbeFinds DEF InOrder
  <2>2. QED
    BY <1>3, <1>4, <1>5, <1>7, <2>1 DEF Begun, Held
<1>10. ProbeSealed(r)
  <2>1. CASE probe[p].at = "scan"
    BY <1>1, <1>8, <2>1 DEF ProbeSealed, m
  <2>2. CASE probe[p].at # "scan"
    <3>1. Begun(m) /\ Held(m)
      BY <1>8, <1>9, <2>2
    <3>2. Sealed(w, Len(Log))
      BY <1>3, <1>5, <3>1 DEF Sealed, Held
    <3>3. Dated(clock, Len(Log))
      BY <1>3 DEF Dated
    <3>4. QED
      BY <1>1, <2>2, <3>2, <3>3 DEF ProbeSealed, w
  <2>3. QED
    BY <2>1, <2>2
<1>11. Progress
  BY <1>3, StillProgress
<1>12. ProbeSealed(probe[p])'
  <2>1. PICK s \in ProbeState : s = r
    BY <1>1
  <2>2. ProbeSealed(s)'
    BY <1>1, <1>10, <1>11, <2>1, ProbeStays
  <2>3. probe'[p] = r
    BY <1>2 DEF Sane, TypeOK
  <2>4. QED
    BY <2>1, <2>2, <2>3
<1>13. QED
  BY <1>2, <1>11, <1>12, PodProven

LEMMA ScanActivityProven == ASSUME Sane, Sane', Proven, NEW p \in Pods, ScanActivity(p) PROVE Proven'
<1>1. ASSUME NEW m \in Nat, m <= clock, \A t \in Starts : t # None => m <= t PROVE Begun(m)
  <2>1. ASSUME NEW x \in Xacts, xact[x].at \in {"open", "guarded"} PROVE xact[x].start >= m
    <3>1. xact[x].start \in Nat /\ xact[x].start \in Starts
      BY <2>1, ProbeFinds DEF InOrder, Starts
    <3>2. QED
      BY <1>1, <3>1, FenceConstants
  <2>2. QED
    BY <1>1, <2>1 DEF Begun
<1>2. QED
  BY <1>1, ScanActivityIs, ScanTimes, ScanProven

LEMMA ScanPreparedProven == ASSUME Sane, Sane', Proven, NEW p \in Pods, ScanPrepared(p) PROVE Proven'
<1>1. ASSUME NEW m \in Nat, m <= clock, \A t \in Prepares : t # None => m <= t PROVE Held(m)
  <2>1. ASSUME NEW x \in Xacts, xact[x].at = "prepared" PROVE xact[x].prepared >= m
    <3>1. xact[x].prepared \in Nat /\ xact[x].prepared \in Prepares
      BY <2>1, ProbeFinds DEF InOrder, Prepares
    <3>2. QED
      BY <1>1, <3>1, FenceConstants
  <2>2. QED
    BY <1>1, <2>1 DEF Held
<1>2. QED
  BY <1>1, ScanPreparedIs, ScanTimes, ScanProven

\* The token is committed after the wall was sealed.
LEMMA TokenProven ==
  ASSUME Sane, Sane', Proven, NEW p \in Pods, probe[p].at \in {"token", "rotate"},
         NEW beat \in Beats, beat.token > Heartbeat.token, Commit(beat),
         NEW r, \/ r = [probe[p] EXCEPT !.at = "record", !.beat = beat]
                \/ r = [probe[p] EXCEPT !.at = "record", !.committed_at = clock, !.beat = beat],
         probe' = [probe EXCEPT ![p] = r], UNCHANGED <<clock, xact, fence, page>>
  PROVE  Proven'
<1>1. /\ r \in ProbeState /\ Sampled(r, clock)
      /\ r.at = "record" /\ r.beat = beat /\ r.sampled_at = probe[p].sampled_at /\ r.oldest = probe[p].oldest
      /\ r.committed_at \in {probe[p].committed_at, clock}
  BY CommittedBeat
<1>2. beat \in Entries /\ EntryProgress(beat)
  BY DEF Entries, EntryProgress, Beats
<1>3. Progress /\ Len(Log') = Len(Log) + 1 /\ Log'[Len(Log) + 1] = beat
  BY <1>2, CommitProgress DEF XactProgress
<1>4. Len(Log) \in Nat /\ clock \in Nat /\ Wall(r) \in Int /\ r.committed_at \in Nat
  BY <1>1, WallIs, ProbeFinds, LogsAre DEF Sampled, Sane
<1>5. PICK w \in Int : w = Wall(r)
  BY <1>4
<1>6. Sealed(w, Len(Log)) /\ Dated(r.committed_at, Len(Log))
  <2>1. Sealed(w, Len(Log)) /\ Dated(probe[p].committed_at, Len(Log))
    BY <1>1, <1>5 DEF Proven, ProbeSealed, Wall
  <2>2. Dated(clock, Len(Log))
    BY <1>4 DEF Dated
  <2>3. QED
    BY <1>1, <2>1, <2>2
<1>7. PICK l \in Nat : l = Len(Log) + 1
  BY <1>4
<1>8. Sealed(w, l) /\ Dated(r.committed_at, l)
  BY <1>4, <1>6, <1>7, SealWeaker
<1>9. Sealed(w, l)' /\ Dated(r.committed_at, l)'
  BY <1>3, <1>4, <1>8, SealStays, DateStays
<1>10. l \in 1..Len(Log') /\ Log'[l] = r.beat
  BY <1>1, <1>3, <1>4, <1>7
<1>11. ProbeSealed(r)'
  <2>1. Sealed(Wall(r), l)'
    BY <1>5, <1>9
  <2>2. QED
    BY <1>1, <1>9, <1>10, <2>1 DEF ProbeSealed
<1>12. probe'[p] = r
  BY DEF Sane, TypeOK
<1>13. QED
  BY <1>3, <1>11, <1>12, PodProven

LEMMA CommitTokenProven == ASSUME Sane, Sane', Proven, NEW p \in Pods, CommitToken(p) PROVE Proven'
<1> DEFINE beat == Beat(Heartbeat.token + 1, Heartbeat.epoch)
           r == [probe[p] EXCEPT !.at = "record", !.beat = beat]
<1>1. /\ UNCHANGED <<clock, xact, fence, session, page>> /\ probe[p].at = "token" /\ Commit(beat)
      /\ probe' = [probe EXCEPT ![p] = r]
  BY DEF CommitToken, Probing
<1>2. Heartbeat.token \in Nat /\ Heartbeat.epoch \in Nat
  BY HeartbeatToken DEF Sane
<1>3. Heartbeat.token + 1 \in Nat /\ Heartbeat.token + 1 > 0 /\ Heartbeat.token + 1 > Heartbeat.token
  BY <1>2
<1>4. beat \in Beats /\ beat.token > Heartbeat.token
  BY <1>2, <1>3, BeatIs
<1>5. r = [probe[p] EXCEPT !.at = "record", !.beat = beat]
  OBVIOUS
<1> HIDE DEF r, beat
<1>6. QED
  BY <1>1, <1>4, <1>5, TokenProven

LEMMA RotateEpochProven == ASSUME Sane, Sane', Proven, NEW p \in Pods, RotateEpoch(p) PROVE Proven'
<1> DEFINE beat == Beat(Heartbeat.token + 1, FreshEpoch)
           r == [probe[p] EXCEPT !.at = "record", !.committed_at = clock, !.beat = beat]
<1>1. /\ UNCHANGED <<clock, xact, fence, session, page>> /\ probe[p].at = "rotate" /\ Commit(beat)
      /\ probe' = [probe EXCEPT ![p] = r]
  BY DEF RotateEpoch, Probing
<1>2. Heartbeat.token \in Nat /\ FreshEpoch \in Nat
  BY HeartbeatToken, FreshEpochIs DEF Sane
<1>3. Heartbeat.token + 1 \in Nat /\ Heartbeat.token + 1 > 0 /\ Heartbeat.token + 1 > Heartbeat.token
  BY <1>2
<1>4. beat \in Beats /\ beat.token > Heartbeat.token
  BY <1>2, <1>3, BeatIs
<1>5. r = [probe[p] EXCEPT !.at = "record", !.committed_at = clock, !.beat = beat]
  OBVIOUS
<1> HIDE DEF r, beat
<1>6. QED
  BY <1>1, <1>4, <1>5, TokenProven

LEMMA NewEntryIs ==
  ASSUME NEW r, r.beat \in Beats, r.committed_at \in Nat, Wall(r) \in Int
  PROVE  \E e \in RingEntry : /\ e = NewEntry(r) /\ e.token = r.beat.token
                              /\ e.committed_at = r.committed_at /\ e.fence_wall = Wall(r)
<1>1. r.beat.token \in Nat
  BY DEF Beats
<1> DEFINE e == NewEntry(r)
<1>2. e \in RingEntry
  BY <1>1 DEF NewEntry, RingEntry
<1>3. e.token = r.beat.token /\ e.committed_at = r.committed_at /\ e.fence_wall = Wall(r)
  BY DEF NewEntry
<1> HIDE DEF e
<1>4. QED
  BY <1>2, <1>3 DEF e

\* The entry of a recorded ring is right about the beat of its probe.
LEMMA RecordProven == ASSUME Sane, Sane', Proven, NEW p \in Pods, Record(p) PROVE Proven'
<1> DEFINE f == record(fence[p], probe[p].beat, probe[p].committed_at, Wall(probe[p]))
           r == RecordedProbe(p)
<1>1. UNCHANGED <<clock, logs, xact, session, page, faults>> /\ probe[p].at = "record"
  BY RecordMoves
<1>2. fence' = [fence EXCEPT ![p] = f] /\ probe' = [probe EXCEPT ![p] = r]
  BY RecordMoves
<1>3. \A i \in 1..Len(f.ring) : \/ f.ring[i] = NewEntry(probe[p])
                                 \/ \E j \in 1..Len(fence[p].ring) : f.ring[i] = fence[p].ring[j]
  BY <1>1, RecordedFenceIs
<1>4. /\ r \in ProbeState /\ Sampled(r, clock)
      /\ \/ r.at = "idle"
         \/ /\ r.at = "rotate" /\ r.sampled_at = probe[p].sampled_at /\ r.oldest = probe[p].oldest
            /\ r.committed_at = probe[p].committed_at
  BY <1>1, RecordedProbeIs
<1> HIDE DEF f, r
<1>5. /\ fence'[p] = f /\ \A q \in Pods : q # p => fence'[q] = fence[q]
      /\ probe'[p] = r /\ \A q \in Pods : q # p => probe'[q] = probe[q]
  BY <1>2 DEF Sane, TypeOK
<1>6. /\ probe[p].beat \in Beats /\ probe[p].committed_at \in Nat /\ Wall(probe[p]) \in Int
      /\ clock \in Nat /\ Len(Log) \in Nat
  BY <1>1, ProbeFinds, WallIs, LogsAre DEF Sampled, Sane
<1>7. PICK k \in 1..Len(Log) : /\ Log[k] = probe[p].beat /\ Sealed(Wall(probe[p]), k)
                               /\ Dated(probe[p].committed_at, k)
  BY <1>1 DEF Proven, ProbeSealed
<1>8. Progress
  BY <1>1, <1>6, StillProgress
<1>9. PICK e \in RingEntry : /\ e = NewEntry(probe[p]) /\ e.token = probe[p].beat.token
                             /\ e.committed_at = probe[p].committed_at /\ e.fence_wall = Wall(probe[p])
  BY <1>6, NewEntryIs
<1>10. EntrySealed(e)
  BY <1>6, <1>7, <1>9 DEF EntrySealed, Beats
<1>11. EntrySealed(e)'
  BY <1>8, <1>10, EntryStays
<1>12. ProbeSealed(r)
  <2>1. CASE r.at = "idle"
    BY <2>1 DEF ProbeSealed
  <2>2. CASE r.at # "idle"
    <3>1. Wall(r) = Wall(probe[p])
      BY <1>4, <2>2 DEF Wall
    <3>2. k \in Nat /\ k <= Len(Log)
      BY <1>6
    <3>3. Sealed(Wall(r), Len(Log)) /\ Dated(r.committed_at, Len(Log))
      <4>1. Sealed(Wall(probe[p]), Len(Log)) /\ Dated(probe[p].committed_at, Len(Log))
        BY <1>6, <1>7, <3>2, SealWeaker
      <4>2. QED
        BY <1>4, <2>2, <3>1, <4>1
    <3>4. QED
      BY <1>4, <2>2, <3>3 DEF ProbeSealed
  <2>3. QED
    BY <2>1, <2>2
<1>13. ProbeSealed(probe[p])'
  <2>1. PICK s \in ProbeState : s = r
    BY <1>4
  <2>2. ProbeSealed(s)'
    BY <1>4, <1>8, <1>12, <2>1, ProbeStays
  <2>3. QED
    BY <1>5, <2>1, <2>2
<1>14. \A i \in 1..Len(fence'[p].ring) : \/ \E j \in 1..Len(fence[p].ring) : fence'[p].ring[i] = fence[p].ring[j]
                                         \/ EntrySealed(fence[p].ring[i])'
  BY <1>3, <1>5, <1>9, <1>11
<1>15. QED
  BY <1>1, <1>5, <1>8, <1>13, <1>14, ProvenFrom

-----------------------------------------------------------------------------
(* Reads *)

\* The heartbeat of a snapshot is of a beat at or after the one it proves.
LEMMA ProvedIs ==
  ASSUME Sane, Unrestored, Proven, session # None, Proved(session) # None
  PROVE  /\ Proved(session) \in RingEntry
         /\ Sealed(Proved(session).fence_wall, session.snapshot.pos)
         /\ Dated(Proved(session).committed_at, session.snapshot.pos)
<1> DEFINE n == session.snapshot.pos
           h == HeartbeatAt(Log, n)
           f == fence[session.pod]
           proved == {i \in 1..Len(f.ring) : f.ring[i].token <= h.token}
<1>1. /\ session \in [pod : Pods, snapshot : Snapshot] /\ session.pod \in Pods /\ session.snapshot \in Snapshot
      /\ Taken(session.snapshot)
  <2>1. session \in [pod : Pods, snapshot : Snapshot] /\ Taken(session.snapshot)
    BY DEF Sane, TypeOK, SnapshotsTaken
  <2>2. QED
    BY <2>1
<1>2. /\ Log \in Seq(Entries) /\ Len(Log) \in Nat /\ Log = logs[1]
      /\ \A i \in 1..Len(Log) : Log[i] \in Entries
  BY LogsAre DEF Sane, Unrestored, Log, Timeline
<1>3. session.snapshot.timeline = 1 /\ n \in 0..Len(Log) /\ n \in Nat
  <2>1. session.snapshot.timeline = 1
    BY <1>1 DEF Taken, Unrestored
  <2>2. n \in 0..Len(Log)
    BY <1>1, <1>2, <2>1 DEF Taken
  <2>3. QED
    BY <1>2, <2>1, <2>2
<1>4. Proved(session) = resolve(f, h)
  BY <1>2, <1>3 DEF Proved
<1>5. /\ h.token \in Nat
      /\ h.token # 0 => \E i \in 1..n : Log[i].kind = "beat" /\ h = Log[i]
  BY <1>2, <1>3, HeartbeatIs
<1> HIDE DEF n, h, f
<1>6. f.ring \in Seq(RingEntry) /\ RingSealed(f) /\ Len(f.ring) \in Nat
  BY <1>1, ProbeFinds DEF f, Fence, Proven
<1>7. proved # {} /\ Proved(session) = f.ring[Max(proved)]
  BY <1>4 DEF resolve
<1>8. proved \subseteq 0..Len(f.ring)
  BY <1>6
<1> HIDE DEF proved
<1>9. Max(proved) \in proved
  BY <1>6, <1>7, <1>8, MaxIs
<1>10. PICK i \in 1..Len(f.ring) : f.ring[i].token <= h.token /\ Proved(session) = f.ring[i]
  BY <1>7, <1>9 DEF proved
<1>11. PICK e \in RingEntry : e = f.ring[i]
  BY <1>6, ElementOfSeq
<1>12. EntrySealed(e) /\ e.token <= h.token /\ e.token \in Nat /\ e.fence_wall \in Int /\ e.committed_at \in Int
  BY <1>6, <1>10, <1>11 DEF RingSealed, RingEntry
<1>13. PICK k \in 1..Len(Log) : /\ Log[k].kind = "beat" /\ Log[k].token = e.token
                                /\ Sealed(e.fence_wall, k) /\ Dated(e.committed_at, k)
  BY <1>12 DEF EntrySealed
<1>14. k <= n
  <2>1. SUFFICES ASSUME ~(k <= n) PROVE FALSE
    OBVIOUS
  <2>2. Log[k].token \in Nat /\ Log[k].token > 0
    BY <1>2, <1>13, EntryKinds
  <2>3. h.token # 0
    BY <1>5, <1>12, <1>13, <2>2
  <2>4. PICK m \in 1..n : Log[m].kind = "beat" /\ h = Log[m]
    BY <1>5, <2>3
  <2>5. m \in 1..Len(Log) /\ m < k
    BY <1>2, <1>3, <2>1
  <2>6. Log[m].token < Log[k].token
    BY <1>13, <2>4, <2>5 DEF Proven, TokensGrow
  <2>7. QED
    BY <1>5, <1>12, <1>13, <2>4, <2>6
<1>15. Sealed(e.fence_wall, n) /\ Dated(e.committed_at, n)
  BY <1>3, <1>12, <1>13, <1>14, SealWeaker, SMTT(40)
<1>16. QED
  BY <1>10, <1>11, <1>15 DEF n

\* A read changes at most the session and the page.
LEMMA ReadProven ==
  ASSUME Sane, Sane', Proven, UNCHANGED <<clock, logs, xact, probe, fence>>, page' = page \/ PageSealed(page)'
  PROVE  Proven'
<1>1. clock' >= clock
  BY Times DEF Sane
<1>2. Progress
  BY <1>1, StillProgress
<1>3. QED
  BY <1>2, ProvenFrom

LEMMA ServeCoveredProven ==
  ASSUME Sane, Sane', Unrestored, Proven, NEW upper \in CreatedAts, ServeCovered(upper)
  PROVE  Proven'
<1>1. /\ UNCHANGED <<clock, logs, xact, probe, fence, faults>> /\ session # None /\ Proved(session) # None
      /\ page' = [snapshot |-> session.snapshot, upper |-> upper, since |-> None]
      /\ upper <= Proved(session).fence_wall
  BY DEF ServeCovered
<1>2. /\ page' \in Pages /\ page'.snapshot = session.snapshot /\ page'.upper = upper /\ page'.since = None
  BY <1>1, PageOf DEF Pages
<1>3. page'.snapshot.pos \in Nat /\ upper \in Int
  BY <1>2, FenceConstants DEF Pages, Snapshot
<1>4. Proved(session).fence_wall \in Int /\ Sealed(Proved(session).fence_wall, session.snapshot.pos)
  BY <1>1, ProvedIs DEF RingEntry
<1>5. Sealed(upper, session.snapshot.pos)
  BY <1>1, <1>2, <1>3, <1>4, SealWeaker
<1>6. PICK pg \in Pages : pg = page'
  BY <1>2
<1>7. PageSealed(pg)
  BY <1>2, <1>5, <1>6 DEF PageSealed
<1>8. Progress
  BY <1>1, Times, StillProgress DEF Sane
<1>9. PageSealed(pg)'
  BY <1>7, <1>8, PageStays
<1>10. QED
  BY <1>1, <1>6, <1>9, ReadProven

LEMMA ServeBoundedProven ==
  ASSUME Sane, Sane', Unrestored, Proven, ServeBounded
  PROVE  Proven'
<1>1. /\ UNCHANGED <<clock, logs, xact, probe, fence, faults>> /\ session # None /\ Proved(session) # None
      /\ page' = [snapshot |-> session.snapshot, upper |-> None, since |-> clock - Budget]
      /\ clock - Proved(session).committed_at <= Budget
  BY DEF ServeBounded
<1>2. clock - Budget \in Int /\ clock \in Nat /\ Budget \in Nat
  BY Times, FenceConstants DEF Sane
<1>3. /\ page' \in Pages /\ page'.snapshot = session.snapshot /\ page'.upper = None
      /\ page'.since = clock - Budget
  BY <1>1, <1>2, PageOf DEF Pages
<1>4. page'.snapshot.pos \in Nat
  BY <1>3 DEF Pages, Snapshot
<1>5. Proved(session).committed_at \in Int /\ Dated(Proved(session).committed_at, session.snapshot.pos)
  BY <1>1, ProvedIs DEF RingEntry
<1>6. clock - Budget <= Proved(session).committed_at
  BY <1>1, <1>2, <1>5
<1>7. Dated(clock - Budget, session.snapshot.pos)
  BY <1>2, <1>3, <1>4, <1>5, <1>6, SealWeaker
<1>8. PICK pg \in Pages : pg = page'
  BY <1>3
<1>9. PageSealed(pg)
  BY <1>3, <1>7, <1>8 DEF PageSealed
<1>10. Progress
  BY <1>1, Times, StillProgress DEF Sane
<1>11. PageSealed(pg)'
  BY <1>9, <1>10, PageStays
<1>12. QED
  BY <1>1, <1>8, <1>11, ReadProven

-----------------------------------------------------------------------------
(* The theorems *)

LEMMA InitIInv == Init => IInv
<1> SUFFICES ASSUME Init PROVE IInv
  OBVIOUS
<1>1. Sane
  BY SaneInit
<1>2. Len(Log) = 0
  BY DEF Init, Log, Timeline
<1>3. ASSUME NEW p \in Pods PROVE ProbeSealed(probe[p]) /\ RingSealed(fence[p])
  <2>1. probe[p] = IdleProbe /\ fence[p] = ClosedFence
    BY DEF Init
  <2>2. ProbeSealed(probe[p])
    BY <2>1, ProbeRows DEF ProbeSealed
  <2>3. RingSealed(fence[p])
    BY <2>1, ClosedIs DEF RingSealed
  <2>4. QED
    BY <2>2, <2>3
<1>4. TokensGrow /\ PageSealed(page)
  BY <1>2 DEF Init, TokensGrow, PageSealed
<1>5. QED
  BY <1>1, <1>3, <1>4 DEF IInv, Proven

\* A restore is the only step that adds a timeline.
LEMMA OneTimeline ==
  ASSUME Sane, [Next]_vars, Unrestored'
  PROVE  Unrestored /\ ~Restore
<1>1. Len(logs) \in Nat /\ Len(logs) >= 1 /\ Len(logs') = 1
  BY LogsAre DEF Sane, Unrestored
<1>2. ~Restore
  <2>1. Restore => Len(logs') = Len(logs) + 1
    BY RestoreSane
  <2>2. QED
    BY <1>1, <2>1
<1>3. ASSUME NEW e \in Entries, Commit(e) PROVE Len(logs') = Len(logs)
  BY <1>3, CommitIs DEF Sane
<1>4. CASE logs' = logs
  BY <1>1, <1>2, <1>4 DEF Unrestored
<1>5. ASSUME NEW x \in Xacts, CommitXact(x) PROVE Len(logs') = Len(logs)
  <2>1. Row(x, xact[x].created_at) \in Entries /\ Commit(Row(x, xact[x].created_at))
    BY <1>5, RowIs DEF CommitXact
  <2>2. QED
    BY <1>3, <2>1
<1>6. ASSUME NEW p \in Pods, CommitToken(p) \/ RotateEpoch(p) PROVE Len(logs') = Len(logs)
  <2>1. Heartbeat.token + 1 \in Nat /\ Heartbeat.token + 1 > 0 /\ Heartbeat.epoch \in Nat /\ FreshEpoch \in Nat
    BY HeartbeatToken, FreshEpochIs DEF Sane
  <2>2. /\ Beat(Heartbeat.token + 1, Heartbeat.epoch) \in Entries
        /\ Beat(Heartbeat.token + 1, FreshEpoch) \in Entries
    BY <2>1, BeatIs
  <2>3. \/ Commit(Beat(Heartbeat.token + 1, Heartbeat.epoch))
        \/ Commit(Beat(Heartbeat.token + 1, FreshEpoch))
    BY <1>6 DEF CommitToken, RotateEpoch
  <2>4. QED
    BY <1>3, <2>2, <2>3
<1>7. \/ logs' = logs
      \/ \E x \in Xacts : CommitXact(x)
      \/ \E p \in Pods : CommitToken(p) \/ RotateEpoch(p)
  <2>1. ASSUME NEW p \in Pods, Probe(p) PROVE logs' = logs \/ CommitToken(p) \/ RotateEpoch(p)
    BY <2>1 DEF Probe, SampleClock, ScanActivity, ScanPrepared, Record, ProbeFails, Restart
  <2>2. ASSUME Route PROVE logs' = logs
    BY <2>2 DEF Route, Observe, ServeCovered, ServeBounded, ServeFromWriter
  <2>3. ASSUME NEW x \in Xacts, Begin(x) \/ FloorGuard(x) \/ Prepare(x) PROVE logs' = logs
    BY <2>3 DEF Begin, FloorGuard, Prepare
  <2>4. Tick => logs' = logs
    BY DEF Tick
  <2>5. UNCHANGED vars => logs' = logs
    BY DEF vars
  <2>6. QED
    BY <1>2, <2>1, <2>2, <2>3, <2>4, <2>5 DEF Next, Database
<1>8. QED
  BY <1>1, <1>2, <1>4, <1>5, <1>6, <1>7 DEF Unrestored

LEMMA ProvenStep ==
  ASSUME Sane, Sane', Unrestored, Proven, [Next]_vars, ~Restore
  PROVE  Proven'
<1>1. CASE Tick
  BY <1>1, TickProven
<1>2. ASSUME NEW x \in Xacts, Begin(x) \/ FloorGuard(x) \/ CommitXact(x) \/ Prepare(x) PROVE Proven'
  BY <1>2, BeginProven, FloorGuardProven, CommitXactProven, PrepareProven
<1>3. ASSUME NEW p \in Pods, Probe(p) PROVE Proven'
  BY <1>3, SampleClockProven, ScanActivityProven, ScanPreparedProven, CommitTokenProven, RecordProven,
     RotateEpochProven, ProbeFailsProven, RestartProven DEF Probe
<1>4. ASSUME NEW p \in Pods, Observe(p) PROVE Proven'
  <2>1. UNCHANGED <<clock, logs, xact, probe, fence>> /\ page' = page
    BY <1>4 DEF Observe
  <2>2. QED
    BY <2>1, ReadProven
<1>5. CASE ServeFromWriter
  <2>1. UNCHANGED <<clock, logs, xact, probe, fence>> /\ page' = page
    BY <1>5 DEF ServeFromWriter
  <2>2. QED
    BY <2>1, ReadProven
<1>6. CASE UNCHANGED vars
  <2>1. UNCHANGED <<clock, logs, xact, probe, fence>> /\ page' = page
    BY <1>6 DEF vars
  <2>2. QED
    BY <2>1, ReadProven
<1>7. CASE Route
  BY <1>4, <1>5, <1>7, ServeCoveredProven, ServeBoundedProven DEF Route
<1>8. QED
  BY <1>1, <1>2, <1>3, <1>6, <1>7 DEF Next, Database

LEMMA IInvStep == IInv /\ [Next]_vars => IInv'
<1> SUFFICES ASSUME IInv, [Next]_vars PROVE IInv'
  OBVIOUS
<1>1. Sane /\ Sane'
  BY SaneStep DEF IInv
<1>2. ASSUME Unrestored' PROVE Proven'
  <2>1. Unrestored /\ ~Restore
    BY <1>1, <1>2, OneTimeline
  <2>2. QED
    BY <1>1, <2>1, ProvenStep DEF IInv
<1>3. QED
  BY <1>1, <1>2 DEF IInv

LEMMA Invariant == Spec => []IInv
BY InitIInv, IInvStep, PTL DEF Spec

\* The rows of the writer that a page of an unrestored writer does not show are
\* after its position.
LEMMA PageShows ==
  ASSUME Sane, Unrestored, page # None, NEW row \in WriterRows
  PROVE  \/ row.xact \in Visible(page.snapshot)
         \/ \E j \in 1..Len(Log) : j > page.snapshot.pos /\ Log[j].kind = "row" /\ row = Log[j]
<1>1. PICK j \in 1..Len(Log) : Log[j].kind = "row" /\ row = Log[j]
  BY DEF WriterRows
<1>2. page.snapshot \in Snapshot /\ Taken(page.snapshot)
  <2>1. page \in Pages /\ Taken(page.snapshot)
    BY DEF Sane, TypeOK, SnapshotsTaken, Pages
  <2>2. QED
    BY <2>1 DEF Pages
<1>3. page.snapshot.timeline = 1 /\ Log = logs[1] /\ page.snapshot.pos \in Nat /\ Len(Log) \in Nat
  BY <1>2, LogsAre DEF Taken, Unrestored, Log, Timeline, Snapshot, Sane
<1>4. CASE j <= page.snapshot.pos
  BY <1>1, <1>3, <1>4 DEF Visible
<1>5. QED
  BY <1>1, <1>3, <1>4

\* Every variable of the fence and of the writer it watches has its type, and a
\* ring holds at most RING_CAPACITY entries with growing tokens.
THEOREM TypeCorrect == Spec => []TypeOK
<1>1. IInv => TypeOK
  BY DEF IInv, Sane
<1>2. QED
  BY <1>1, Invariant, PTL

\* As long as the writer is not restored from a backup, a page that a replica
\* serves because the proven wall covers it (route_read) has every row of the
\* writer up to its bound, the ones committed later included.
THEOREM PagesComplete == Spec => [](Unrestored => NoHoles)
<1>1. ASSUME IInv, Unrestored PROVE NoHoles
  <2> SUFFICES ASSUME page # None, page.upper # None, NEW row \in WriterRows, row.created_at <= page.upper
               PROVE  row.xact \in Visible(page.snapshot)
    BY DEF NoHoles
  <2>1. Sane /\ Proven
    BY <1>1 DEF IInv
  <2>2. Sealed(page.upper, page.snapshot.pos)
    BY <2>1 DEF Proven, PageSealed
  <2>3. SUFFICES ASSUME NEW j \in 1..Len(Log), j > page.snapshot.pos, Log[j].kind = "row", row = Log[j] PROVE FALSE
    BY <1>1, <2>1, PageShows
  <2>4. row.created_at > page.upper
    BY <2>2, <2>3 DEF Sealed
  <2>5. row.created_at \in Int /\ page.upper \in Int
    BY <2>1, <2>3, LogsAre, EntryKinds, FenceConstants DEF Sane, TypeOK
  <2>6. QED
    BY <2>4, <2>5
<1>2. QED
  BY <1>1, Invariant, PTL

\* As long as the writer is not restored from a backup, a page that a replica
\* serves under the read budget has every row committed earlier than the budget
\* before the page.
THEOREM PagesFresh == Spec => [](Unrestored => BoundedStaleness)
<1>1. ASSUME IInv, Unrestored PROVE BoundedStaleness
  <2> SUFFICES ASSUME page # None, page.since # None, NEW row \in WriterRows, row.time < page.since
               PROVE  row.xact \in Visible(page.snapshot)
    BY DEF BoundedStaleness
  <2>1. Sane /\ Proven
    BY <1>1 DEF IInv
  <2>2. Dated(page.since, page.snapshot.pos)
    BY <2>1 DEF Proven, PageSealed
  <2>3. SUFFICES ASSUME NEW j \in 1..Len(Log), j > page.snapshot.pos, Log[j].kind = "row", row = Log[j] PROVE FALSE
    BY <1>1, <2>1, PageShows
  <2>4. row.time >= page.since
    BY <2>2, <2>3 DEF Dated
  <2>5. row.time \in Int /\ page.since \in Int
    BY <2>1, <2>3, LogsAre, EntryKinds DEF Sane, TypeOK
  <2>6. QED
    BY <2>4, <2>5
<1>2. QED
  BY <1>1, Invariant, PTL
=============================================================================
