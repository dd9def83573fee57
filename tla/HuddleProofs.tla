---------------------------- MODULE HuddleProofs ----------------------------
(***************************************************************************)
(* Safety of huddle ownership for any number of pods, clients, leases and  *)
(* faults.                                                                 *)
(***************************************************************************)
EXTENDS Huddle, SequenceTheorems, TLAPS

-----------------------------------------------------------------------------
(* The inductive invariant *)

\* A connection that acquired a lease, before and after it has a renewer.
Early == {"resolved", "found", "admit", "attach", "publish"}
Late == {"joined", "archive", "cleanup", "release"}

Acquired(c) == conn[c].acquired
Gen(c) == conn[c].generation

\* A connection knows an owner from the moment it has found one, and only the
\* connection that acquired a lease attaches it.
KnowsOwner(c, s, latest) ==
  /\ s.at \notin {"new", "lookup", "acquire", "gone"} \/ s.host # 0 => s.owner \in Pods
  /\ s.acquired => s.at \in Early \cup {"insert", "recheck"} \cup Late
  /\ s.acquired => s.owner = PodOf[c] /\ s.generation \in 1..latest
  /\ s.at \in {"attach", "publish", "insert", "recheck"} => s.acquired

OwnerKnown == \A c \in Conns : KnowsOwner(c, conn[c], generation)

\* A generation is given out once.
OneAcquirer == \A c, d \in Conns : Acquired(c) /\ Acquired(d) /\ Gen(c) = Gen(d) => c = d

\* The generation key counts: nothing is of a later generation.
Counted ==
  /\ lease # None => lease.generation <= generation
  /\ \A p \in Pods : registry[p] <= generation
  /\ \A g \in Generations : renewer[g].at # "none" => renewer[g].pod \in Pods /\ g <= generation

\* A lease that is not attached yet has no renewer and is in no registry.
NotYetSpawned ==
  \A c \in Conns : Acquired(c) /\ conn[c].at \in Early =>
    renewer[Gen(c)].at = "none" /\ \A p \in Pods : registry[p] # Gen(c)

\* The renewer is there before its entry is.
Spawned ==
  \A c \in Conns : conn[c].at \in {"insert", "recheck"} =>
    renewer[Gen(c)].pod = PodOf[c] /\ renewer[Gen(c)].at # "none"

InsertReady ==
  \A c \in Conns : conn[c].at = "insert" =>
    /\ ~renewer[Gen(c)].cancel
    /\ renewer[Gen(c)].at = "running" \/ renewer[Gen(c)].lost
    /\ \A p \in Pods : registry[p] # Gen(c)

\* The entry that outlives drain_all is about to be checked again.
DrainedEntry ==
  \A p \in Pods : drain[p] = "done" /\ registry[p] # 0 =>
    \E c \in Conns : conn[c].at = "recheck" /\ PodOf[c] = p /\ Gen(c) = registry[p]

\* No join has been overtaken or has outlasted its lease.
NoSlowJoin == slow = MaxSlowJoins

\* OneRenewer while that is so.
KnownRenewer ==
  \A g \in Generations :
    renewer[g].at = "running" /\ ~renewer[g].cancel =>
      \/ registry[renewer[g].pod] = g
      \/ \E c \in Conns : Step(c, "insert") /\ conn[c].generation = g

OneInsert ==
  \A c \in Conns : conn[c].at = "insert" =>
    /\ registry[PodOf[c]] = 0
    /\ \A d \in Conns : conn[d].at = "insert" /\ PodOf[d] = PodOf[c] => d = c

EarlyHolds ==
  \A c \in Conns : Acquired(c) /\ conn[c].at \in Early => lease = Lease(PodOf[c], Gen(c))

Ownership ==
  /\ OneAcquirer /\ Counted /\ NotYetSpawned /\ Spawned /\ InsertReady
  /\ RegistryLive /\ DrainedEntry
  /\ NoSlowJoin => OneInsert /\ KnownRenewer /\ EarlyHolds
  /\ OnlyLateLose

IInv == TypeOK /\ OwnerKnown /\ Ownership

-----------------------------------------------------------------------------
(* Rooms *)

LEMMA RoomEdited ==
  ASSUME rooms \in Seq(Room), NEW r, NEW e \in Room
  PROVE  [rooms EXCEPT ![r] = e] \in Seq(Room) /\ Len([rooms EXCEPT ![r] = e]) = Len(rooms)
<1>1. CASE r \in 1..Len(rooms)
  BY <1>1, ExceptSeq
<1>2. CASE r \notin 1..Len(rooms)
  <2>1. [rooms EXCEPT ![r] = e] = rooms
    BY <1>2
  <2>2. QED
    BY <2>1
<1>3. QED
  BY <1>1, <1>2

LEMMA RoomJoined ==
  ASSUME rooms \in Seq(Room), NEW r \in Int, NEW c \in Conns
  PROVE  LET edited == [rooms EXCEPT ![r].peers = @ \cup {c}]
         IN  edited \in Seq(Room) /\ Len(edited) = Len(rooms)
<1>1. CASE r \in 1..Len(rooms)
  <2>1. rooms[r] \in Room
    BY <1>1, ElementOfSeq
  <2>2. rooms[r].peers \cup {c} \in SUBSET Conns
    BY <2>1 DEF Room
  <2>3. [rooms[r] EXCEPT !.peers = @ \cup {c}] \in Room
    BY <2>1, <2>2 DEF Room
  <2>4. QED
    BY <2>3, RoomEdited
<1>2. CASE r \notin 1..Len(rooms)
  <2>1. [rooms EXCEPT ![r].peers = @ \cup {c}] = rooms
    BY <1>2
  <2>2. QED
    BY <2>1
<1>3. QED
  BY <1>1, <1>2

LEMMA RoomLeft ==
  ASSUME rooms \in Seq(Room), NEW r \in Int, NEW c
  PROVE  LET edited == [rooms EXCEPT ![r].peers = @ \ {c}]
         IN  edited \in Seq(Room) /\ Len(edited) = Len(rooms)
<1>1. CASE r \in 1..Len(rooms)
  <2>1. rooms[r] \in Room
    BY <1>1, ElementOfSeq
  <2>2. rooms[r].peers \ {c} \in SUBSET Conns
    BY <2>1 DEF Room
  <2>3. [rooms[r] EXCEPT !.peers = @ \ {c}] \in Room
    BY <2>1, <2>2 DEF Room
  <2>4. QED
    BY <2>3, RoomEdited
<1>2. CASE r \notin 1..Len(rooms)
  <2>1. [rooms EXCEPT ![r].peers = @ \ {c}] = rooms
    BY <1>2
  <2>2. QED
    BY <2>1
<1>3. QED
  BY <1>1, <1>2

EndedRoom(r, left, ends) == [rooms EXCEPT ![r].peers = left, ![r].ended = @ \/ ends]

LEMMA RoomEnded ==
  ASSUME rooms \in Seq(Room), NEW r \in Int, NEW left \in SUBSET Conns, NEW ends \in BOOLEAN
  PROVE  EndedRoom(r, left, ends) \in Seq(Room) /\ Len(EndedRoom(r, left, ends)) = Len(rooms)
<1> USE DEF EndedRoom
<1>1. CASE r \in 1..Len(rooms)
  <2>1. rooms[r] \in Room
    BY <1>1, ElementOfSeq
  <2>2. [rooms[r] EXCEPT !.peers = left, !.ended = @ \/ ends] \in Room
    BY <2>1 DEF Room
  <2>3. [rooms EXCEPT ![r].peers = left, ![r].ended = @ \/ ends]
         = [rooms EXCEPT ![r] = [rooms[r] EXCEPT !.peers = left, !.ended = @ \/ ends]]
    BY <1>1
  <2>4. QED
    BY <2>2, <2>3, RoomEdited
<1>2. CASE r \notin 1..Len(rooms)
  <2>1. [rooms EXCEPT ![r].peers = left, ![r].ended = @ \/ ends] = rooms
    BY <1>2
  <2>2. QED
    BY <2>1
<1>3. QED
  BY <1>1, <1>2

LEMMA RoomReopened ==
  ASSUME rooms \in Seq(Room), NEW r \in Int
  PROVE  LET edited == [rooms EXCEPT ![r].ended = FALSE]
         IN  edited \in Seq(Room) /\ Len(edited) = Len(rooms)
<1>1. CASE r \in 1..Len(rooms)
  <2>1. rooms[r] \in Room
    BY <1>1, ElementOfSeq
  <2>2. [rooms[r] EXCEPT !.ended = FALSE] \in Room
    BY <2>1 DEF Room
  <2>3. QED
    BY <2>2, RoomEdited
<1>2. CASE r \notin 1..Len(rooms)
  <2>1. [rooms EXCEPT ![r].ended = FALSE] = rooms
    BY <1>2
  <2>2. QED
    BY <2>1
<1>3. QED
  BY <1>1, <1>2

\* The manager's rooms stay in range, and the sequence only grows.
HallsOK == rooms' \in Seq(Room) /\ current' \in [Pods -> 0..Len(rooms')] /\ Len(rooms') >= Len(rooms)

LEMMA RoomFound ==
  ASSUME TypeOK, NEW p \in Pods, GetOrCreate(p)
  PROVE  HallsOK /\ current'[p] \in 0..Len(rooms')
<1>1. CASE current[p] # 0
  BY <1>1 DEF TypeOK, GetOrCreate, HallsOK
<1>2. CASE current[p] = 0
  <2>1. NewRoom \in Room
    BY DEF NewRoom, Room
  <2>2. rooms' = Append(rooms, NewRoom) /\ current' = [current EXCEPT ![p] = Len(rooms')]
    BY <1>2 DEF GetOrCreate
  <2>3. rooms' \in Seq(Room) /\ Len(rooms') = Len(rooms) + 1
    BY <2>1, <2>2, AppendProperties DEF TypeOK
  <2>4. QED
    BY <2>2, <2>3 DEF TypeOK, HallsOK
<1>3. QED
  BY <1>1, <1>2

LEMMA RoomCleaned ==
  ASSUME TypeOK, NEW p \in Pods, cleanup_if_empty(p), UNCHANGED rooms
  PROVE  HallsOK
<1>1. Len(rooms) \in Nat
  BY DEF TypeOK
<1>2. QED
  BY <1>1 DEF TypeOK, cleanup_if_empty, HallsOK

-----------------------------------------------------------------------------
(* A connection moves *)

LEMMA MoreRooms ==
  ASSUME NEW n \in Nat, NEW m \in Nat, n <= m, NEW s \in ConnState(n)
  PROVE  s \in ConnState(m)
<1>1. 0..n \subseteq 0..m
  OBVIOUS
<1>2. QED
  BY <1>1 DEF ConnState

\* What is left to the actions: connection c becomes s.
Moves(c, s) ==
  /\ conn' = [conn EXCEPT ![c] = s]
  /\ s \in ConnState(Len(rooms'))
  /\ KnowsOwner(c, s, generation')

LEMMA Moved ==
  ASSUME IInv, NEW c \in Conns, NEW s, Moves(c, s), HallsOK,
         generation' \in Int, generation' >= generation
  PROVE  /\ conn' \in [Conns -> ConnState(Len(rooms'))] /\ OwnerKnown'
         /\ conn'[c] = s /\ \A d \in Conns : d # c => conn'[d] = conn[d]
<1>1. conn \in [Conns -> ConnState(Len(rooms))] /\ rooms \in Seq(Room) /\ generation \in Int
  BY DEF IInv, TypeOK
<1>2. conn'[c] = s /\ \A d \in Conns : d # c => conn'[d] = conn[d]
  BY <1>1 DEF Moves
<1>3. Len(rooms) \in Nat /\ Len(rooms') \in Nat /\ Len(rooms) <= Len(rooms')
  BY <1>1 DEF HallsOK
<1>4. \A d \in Conns : conn[d] \in ConnState(Len(rooms'))
  BY <1>1, <1>3, MoreRooms
<1>5. conn' \in [Conns -> ConnState(Len(rooms'))]
  BY <1>1, <1>4 DEF Moves
<1>6. ASSUME NEW d \in Conns
      PROVE  KnowsOwner(d, conn'[d], generation')
  <2>1. CASE d = c
    BY <2>1, <1>2 DEF Moves
  <2>2. CASE d # c
    <3>1. KnowsOwner(d, conn[d], generation)
      BY DEF IInv, OwnerKnown
    <3>2. conn[d].generation \in Int
      BY <1>1 DEF ConnState
    <3>3. KnowsOwner(d, conn[d], generation')
      BY <3>1, <3>2, <1>1 DEF KnowsOwner
    <3>4. QED
      BY <3>3, <2>2, <1>2
  <2>3. QED
    BY <2>1, <2>2
<1>7. OwnerKnown'
  BY <1>6 DEF OwnerKnown
<1>8. QED
  BY <1>2, <1>5, <1>7

LEMMA Stays ==
  ASSUME IInv, UNCHANGED conn, generation' = generation
  PROVE  OwnerKnown'
BY DEF IInv, OwnerKnown

\* The move is none of the lease's business.
Aside(c, s) ==
  /\ conn[c].at \notin {"insert", "recheck"} /\ s.at \notin {"insert", "recheck"}
  /\ s.acquired => /\ conn[c].acquired /\ s.generation = conn[c].generation
                   /\ s.at \in Early => conn[c].at \in Early

Untouched == UNCHANGED <<lease, generation, renewer, registry, drain, stalls, slow>>

\* No connection starts or finishes publishing a lease; one that is about to
\* check its entry again does so, or has none a drain left behind.
Calm ==
  \A d \in Conns :
    /\ conn'[d].acquired => conn[d].acquired /\ conn'[d].generation = conn[d].generation
    /\ conn'[d].acquired /\ conn'[d].at \in Early => conn[d].at \in Early
    /\ conn'[d].at = "insert" => conn'[d] = conn[d]
    /\ conn[d].at = "insert" => conn'[d] = conn[d]
    /\ conn'[d].at = "recheck" => conn'[d] = conn[d]
    /\ conn[d].at = "recheck" => \/ conn'[d] = conn[d]
                                 \/ drain'[PodOf[d]] # "done"
                                 \/ registry'[PodOf[d]] # Gen(d)

LEMMA CalmKeeps ==
  ASSUME IInv, Untouched, Calm
  PROVE  Ownership'
<1> USE DEF Untouched
<1>1. OneAcquirer'
  BY DEF Calm, IInv, Ownership, OneAcquirer, Acquired, Gen
<1>2. Counted'
  BY DEF IInv, Ownership, Counted
<1>3. NotYetSpawned'
  BY DEF Calm, IInv, Ownership, NotYetSpawned, Acquired, Gen
<1>4. Spawned'
  BY DEF Calm, IInv, Ownership, Spawned, Gen
<1>5. InsertReady'
  BY DEF Calm, IInv, Ownership, InsertReady, Gen
<1>6. RegistryLive'
  BY DEF IInv, Ownership, RegistryLive
<1>7. DrainedEntry'
  BY DEF Calm, IInv, Ownership, DrainedEntry, Gen
<1>8. NoSlowJoin' => OneInsert' /\ KnownRenewer' /\ EarlyHolds'
  <2> SUFFICES ASSUME NoSlowJoin PROVE OneInsert' /\ KnownRenewer' /\ EarlyHolds'
    BY DEF NoSlowJoin
  <2>1. OneInsert'
    BY DEF Calm, IInv, Ownership, OneInsert
  <2>2. KnownRenewer'
    BY DEF Calm, IInv, Ownership, KnownRenewer, Step
  <2>3. EarlyHolds'
    BY DEF Calm, IInv, Ownership, EarlyHolds, Acquired, Gen, Lease
  <2>4. QED
    BY <2>1, <2>2, <2>3
<1>9. OnlyLateLose'
  BY DEF IInv, Ownership, OnlyLateLose, Holds, Lease
<1>10. QED
  BY <1>1, <1>2, <1>3, <1>4, <1>5, <1>6, <1>7, <1>8, <1>9 DEF Ownership

LEMMA AsideIsCalm ==
  ASSUME IInv, NEW c \in Conns, NEW s, conn'[c] = s, Aside(c, s),
         \A d \in Conns : d # c => conn'[d] = conn[d]
  PROVE  Calm
BY DEF Aside, Calm

LEMMA AsideStep ==
  ASSUME IInv, Untouched, HallsOK, archived' \in BOOLEAN, errors' \in 0..MaxErrors,
         NEW c \in Conns, NEW s, Moves(c, s), Aside(c, s)
  PROVE  IInv'
<1>1. generation' \in Int /\ generation' >= generation
  BY DEF IInv, TypeOK, Untouched
<1>2. /\ conn' \in [Conns -> ConnState(Len(rooms'))] /\ OwnerKnown'
      /\ conn'[c] = s /\ \A d \in Conns : d # c => conn'[d] = conn[d]
  BY <1>1, Moved
<1>3. Ownership'
  BY <1>2, AsideIsCalm, CalmKeeps
<1>4. TypeOK'
  BY <1>2 DEF IInv, TypeOK, Untouched, HallsOK
<1>5. QED
  BY <1>2, <1>3, <1>4 DEF IInv

LEMMA HallsStay == ASSUME TypeOK, UNCHANGED <<rooms, current>> PROVE HallsOK
BY DEF TypeOK, HallsOK

LEMMA Rows ==
  ASSUME IInv, NEW c \in Conns
  PROVE  /\ PodOf[c] \in Pods
         /\ conn[c] \in ConnState(Len(rooms)) /\ KnowsOwner(c, conn[c], generation)
         /\ rooms \in Seq(Room) /\ Len(rooms) \in Nat
         /\ \A to : [conn EXCEPT ![c].at = to] = [conn EXCEPT ![c] = [conn[c] EXCEPT !.at = to]]
BY HuddleConstants DEF IInv, TypeOK, OwnerKnown

LEMMA Blank ==
  ASSUME NEW at \in At, NEW n \in Nat
  PROVE  LET s == [NewConn EXCEPT !.at = at]
         IN  s \in ConnState(n) /\ s.at = at /\ s.acquired = FALSE /\ s.host = 0
<1>1. NewConn \in ConnState(n) /\ NewConn.acquired = FALSE /\ NewConn.host = 0
  BY HuddleConstants DEF NewConn, ConnState, At
<1>2. ASSUME NEW row \in ConnState(n)
      PROVE  LET s == [row EXCEPT !.at = at]
             IN  s \in ConnState(n) /\ s.at = at /\ s.acquired = row.acquired /\ s.host = row.host
  BY DEF ConnState
<1>3. QED
  BY <1>1, <1>2

\* The connection is over.
LEMMA GoneStep ==
  ASSUME IInv, Untouched, HallsOK, archived' \in BOOLEAN, errors' \in 0..MaxErrors,
         NEW c \in Conns, Become(c, Gone), conn[c].at \notin {"insert", "recheck"}
  PROVE  IInv'
<1>1. Len(rooms') \in Nat
  BY DEF HallsOK
<1>2. "gone" \in At
  BY DEF At
<1>3. Gone \in ConnState(Len(rooms')) /\ Gone.at = "gone" /\ Gone.acquired = FALSE /\ Gone.host = 0
  BY <1>1, <1>2, Blank DEF Gone
<1>4. Moves(c, Gone)
  BY <1>3 DEF Moves, KnowsOwner, Become
<1>5. Aside(c, Gone)
  BY <1>3 DEF Aside
<1>6. QED
  BY <1>4, <1>5, AsideStep

\* The connection goes on to its next step.
LEMMA GotoStep ==
  ASSUME IInv, Untouched, HallsOK, archived' \in BOOLEAN, errors' \in 0..MaxErrors,
         NEW c \in Conns, NEW to \in At, Goto(c, to),
         conn[c].at \notin {"insert", "recheck"}, to \notin {"insert", "recheck"},
         to \notin {"new", "lookup", "acquire", "gone"} => conn[c].owner \in Pods,
         to \in {"attach", "publish"} => Acquired(c),
         Acquired(c) => to \in Early \cup Late /\ (to \in Early => conn[c].at \in Early)
  PROVE  IInv'
<1> DEFINE s == [conn[c] EXCEPT !.at = to]
<1>1. conn' = [conn EXCEPT ![c] = s]
  BY Rows DEF Goto
<1>2. conn[c] \in ConnState(Len(rooms)) /\ Len(rooms) \in Nat /\ Len(rooms') \in Nat
      /\ Len(rooms) <= Len(rooms') /\ KnowsOwner(c, conn[c], generation)
  BY Rows DEF HallsOK
<1>3. conn[c] \in ConnState(Len(rooms'))
  BY <1>2, MoreRooms
<1>4. /\ s \in ConnState(Len(rooms')) /\ s.at = to /\ s.acquired = conn[c].acquired
      /\ s.host = conn[c].host /\ s.owner = conn[c].owner /\ s.generation = conn[c].generation
  BY <1>3 DEF ConnState
<1> HIDE DEF s
<1>5. KnowsOwner(c, s, generation)
  BY <1>2, <1>4 DEF KnowsOwner, Acquired
<1>6. Moves(c, s)
  BY <1>1, <1>4, <1>5 DEF Moves, Untouched
<1>7. Aside(c, s)
  BY <1>4 DEF Aside, Acquired
<1>8. QED
  BY <1>6, <1>7, AsideStep

LEMMA ConnectStep == ASSUME IInv, NEW c \in Conns, Connect(c) PROVE IInv'
<1> USE DEF Connect, Step
<1>1. Untouched /\ HallsOK /\ archived' \in BOOLEAN /\ errors' \in 0..MaxErrors
  BY HallsStay DEF Untouched, redis, halls, faults, IInv, TypeOK
<1>2. ~Acquired(c)
  BY Rows DEF KnowsOwner, Early, Late, Acquired
<1>3. PICK to \in {"gone", "lookup"} : Goto(c, to)
  OBVIOUS
<1>4. QED
  BY <1>1, <1>2, <1>3, GotoStep DEF At

\* A connection takes the tokens of its owner's entry.
LEMMA TokenStep ==
  ASSUME IInv, UNCHANGED <<redis, renewer, registry, drain, halls, faults>>, NEW c \in Conns,
         conn[c].at \in {"watch", "dial", "drain_for", "accept"},
         NEW s \in ConnState(Len(rooms)), conn' = [conn EXCEPT ![c] = s],
         s.at \in {"drain_for", "accept", "joined", "register"}, s.acquired = conn[c].acquired,
         s.owner = conn[c].owner
  PROVE  IInv'
<1>1. Untouched /\ HallsOK /\ archived' \in BOOLEAN /\ errors' \in 0..MaxErrors
  BY HallsStay DEF Untouched, redis, halls, faults, IInv, TypeOK
<1>2. ~conn[c].acquired /\ conn[c].owner \in Pods
  BY Rows DEF KnowsOwner, Early, Late
<1>3. Moves(c, s)
  BY <1>2, Rows DEF Moves, KnowsOwner, halls
<1>4. Aside(c, s)
  BY <1>2 DEF Aside
<1>5. QED
  BY <1>1, <1>3, <1>4, AsideStep

LEMMA LostForStep == ASSUME IInv, NEW c \in Conns, LostFor(c) PROVE IInv'
<1> DEFINE to == IF conn[c].at = "watch" THEN "drain_for" ELSE "accept"
           s == [conn[c] EXCEPT !.at = to, !.watch = registry[conn[c].owner]]
<1>1. /\ UNCHANGED <<redis, renewer, registry, drain, halls, faults>> /\ conn[c].at \in {"watch", "dial"}
      /\ conn' = [conn EXCEPT ![c] = s]
  BY DEF LostFor, Become
<1>2. conn[c].owner \in Pods
  BY <1>1, Rows DEF KnowsOwner
<1>3. registry[conn[c].owner] \in 0..MaxGenerations /\ to \in {"drain_for", "accept"}
  BY <1>2 DEF IInv, TypeOK
<1> HIDE DEF to
<1>4. s \in ConnState(Len(rooms)) /\ s.at = to /\ s.acquired = conn[c].acquired /\ s.owner = conn[c].owner
  BY <1>3, Rows DEF ConnState, At
<1> HIDE DEF s
<1>5. QED
  BY <1>1, <1>3, <1>4, TokenStep

LEMMA DrainForStep == ASSUME IInv, NEW c \in Conns, DrainFor(c) PROVE IInv'
<1> DEFINE to == IF conn[c].at = "drain_for" THEN "joined" ELSE "register"
           s == [conn[c] EXCEPT !.at = to, !.drains = registry[conn[c].owner]]
<1>1. /\ UNCHANGED <<redis, renewer, registry, drain, halls, faults>> /\ conn[c].at \in {"drain_for", "accept"}
      /\ conn' = [conn EXCEPT ![c] = s]
  BY DEF DrainFor, Become
<1>2. conn[c].owner \in Pods
  BY <1>1, Rows DEF KnowsOwner
<1>3. registry[conn[c].owner] \in 0..MaxGenerations /\ to \in {"joined", "register"}
  BY <1>2 DEF IInv, TypeOK
<1> HIDE DEF to
<1>4. s \in ConnState(Len(rooms)) /\ s.at = to /\ s.acquired = conn[c].acquired /\ s.owner = conn[c].owner
  BY <1>3, Rows DEF ConnState, At
<1> HIDE DEF s
<1>5. QED
  BY <1>1, <1>3, <1>4, TokenStep

\* A lease that another connection acquired is taken as it was found.
LEMMA ResolvedStep ==
  ASSUME IInv, Untouched, HallsOK, archived' \in BOOLEAN, errors' \in 0..MaxErrors, rooms' = rooms,
         NEW c \in Conns, conn[c].at \in {"lookup", "acquire"}, lease # None,
         Become(c, Resolved(c, lease))
  PROVE  IInv'
<1> DEFINE s == Resolved(c, lease)
<1>1. lease.owner \in Pods /\ lease.generation \in 0..MaxGenerations
  BY DEF IInv, TypeOK, Generations
<1>2. ~conn[c].acquired
  BY Rows DEF KnowsOwner, Early, Late
<1>3. /\ s \in ConnState(Len(rooms)) /\ s.at \in {"reuse", "fence"} /\ s.acquired = conn[c].acquired
      /\ s.owner = lease.owner
  BY <1>1, Rows, ZenonT(60) DEF ConnState, At, Resolved
<1> HIDE DEF s
<1>4. Moves(c, s)
  BY <1>1, <1>2, <1>3 DEF Moves, KnowsOwner, Become, s
<1>5. Aside(c, s)
  BY <1>2, <1>3 DEF Aside
<1>6. QED
  BY <1>4, <1>5, AsideStep

LEMMA OwnerOfStep == ASSUME IInv, NEW c \in Conns, OwnerOf(c) PROVE IInv'
<1> USE DEF OwnerOf, Step
<1>1. Untouched /\ HallsOK /\ archived' \in BOOLEAN /\ errors' \in 0..MaxErrors /\ rooms' = rooms
  BY HallsStay DEF Untouched, redis, halls, faults, IInv, TypeOK
<1>2. CASE lease = None
  <2>1. ~Acquired(c)
    BY Rows DEF KnowsOwner, Early, Late, Acquired
  <2>2. QED
    BY <1>1, <1>2, <2>1, GotoStep DEF At
<1>3. CASE lease # None
  BY <1>1, <1>3, ResolvedStep
<1>4. QED
  BY <1>2, <1>3

LEMMA ValidateOwnerStep == ASSUME IInv, NEW c \in Conns, ValidateOwner(c) PROVE IInv'
<1> USE DEF ValidateOwner, Step
<1>1. Untouched /\ HallsOK /\ archived' \in BOOLEAN /\ errors' \in 0..MaxErrors
  BY HallsStay DEF Untouched, redis, halls, faults, IInv, TypeOK
<1>2. CASE Valid(c)
  <2>1. ~Acquired(c) /\ conn[c].owner \in Pods
    BY Rows DEF KnowsOwner, Early, Late, Acquired
  <2>2. Goto(c, "resolved")
    BY <1>2, Rows DEF Goto, Become
  <2>3. QED
    BY <1>1, <2>1, <2>2, GotoStep DEF At
<1>3. CASE ~Valid(c)
  BY <1>1, <1>3, GoneStep
<1>4. QED
  BY <1>2, <1>3

LEMMA ResolveFailsStep == ASSUME IInv, NEW c \in Conns, ResolveFails(c) PROVE IInv'
<1>1. Untouched /\ HallsOK /\ archived' \in BOOLEAN /\ errors' \in 0..MaxErrors
  BY HallsStay, HuddleConstants DEF ResolveFails, Untouched, redis, halls, IInv, TypeOK
<1>2. QED
  BY <1>1, GoneStep DEF ResolveFails

LEMMA OwnerReadyStep == ASSUME IInv, NEW c \in Conns, OwnerReady(c) PROVE IInv'
<1> USE DEF OwnerReady, Step
<1>1. Untouched /\ HallsOK /\ archived' \in BOOLEAN /\ errors' \in 0..MaxErrors
  BY HallsStay DEF Untouched, redis, halls, faults, IInv, TypeOK
<1>2. ~Acquired(c) /\ conn[c].owner \in Pods
  BY Rows DEF KnowsOwner, Early, Late, Acquired
<1>3. CASE Goto(c, "resolved")
  BY <1>1, <1>2, <1>3, GotoStep DEF At
<1>4. CASE \E at \in {"lookup", "gone"} : Become(c, [NewConn EXCEPT !.at = at])
  <2>1. PICK at \in {"lookup", "gone"} : Become(c, [NewConn EXCEPT !.at = at])
    BY <1>4
  <2> DEFINE s == [NewConn EXCEPT !.at = at]
  <2>2. at \in At /\ Len(rooms') \in Nat
    BY Rows DEF At, halls
  <2>3. s \in ConnState(Len(rooms')) /\ s.at = at /\ s.acquired = FALSE /\ s.host = 0
    BY <2>2, Blank
  <2>4. conn' = [conn EXCEPT ![c] = s]
    BY <2>1 DEF Become
  <2> HIDE DEF s
  <2>5. Moves(c, s) /\ Aside(c, s)
    BY <2>3, <2>4 DEF Moves, KnowsOwner, Aside
  <2>6. QED
    BY <1>1, <2>5, AsideStep
<1>5. QED
  BY <1>3, <1>4

-----------------------------------------------------------------------------
(* Rooms and channels *)

LEMMA GetRoomStep == ASSUME IInv, NEW c \in Conns, GetRoom(c) PROVE IInv'
<1> USE DEF GetRoom, Step
<1> DEFINE s == [conn[c] EXCEPT !.at = "found", !.room = current'[PodOf[c]]]
<1>1. HallsOK /\ current'[PodOf[c]] \in 0..Len(rooms')
  BY RoomFound, Rows DEF IInv
<1>2. Untouched /\ archived' \in BOOLEAN /\ errors' \in 0..MaxErrors
  BY DEF Untouched, redis, faults, IInv, TypeOK
<1>3. Len(rooms') \in Nat /\ conn[c] \in ConnState(Len(rooms'))
  BY <1>1, Rows, MoreRooms DEF HallsOK
<1>4. /\ s \in ConnState(Len(rooms')) /\ s.at = "found" /\ s.acquired = conn[c].acquired
      /\ s.host = conn[c].host /\ s.owner = conn[c].owner /\ s.generation = conn[c].generation
  BY <1>1, <1>3 DEF ConnState, At
<1>5. generation' = generation /\ conn' = [conn EXCEPT ![c] = s]
  BY DEF redis, IInv, TypeOK
<1> HIDE DEF s
<1>6. Moves(c, s)
  BY <1>4, <1>5, Rows DEF Moves, KnowsOwner, Early
<1>7. Aside(c, s)
  BY <1>4 DEF Aside, Early
<1>8. QED
  BY <1>1, <1>2, <1>6, <1>7, AsideStep

LEMMA CheckChannelStep == ASSUME IInv, NEW c \in Conns, CheckChannel(c) PROVE IInv'
<1> USE DEF CheckChannel, Step
<1>1. Untouched /\ archived' \in BOOLEAN /\ errors' \in 0..MaxErrors /\ rooms' = rooms
  BY HuddleConstants DEF Untouched, redis, halls, IInv, TypeOK
<1>2. HallsOK
  BY HallsStay, RoomCleaned, Rows DEF IInv
<1>3. CASE Goto(c, IF conn[c].owner = PodOf[c] THEN "admit" ELSE "dial")
  <2>1. conn[c].owner \in Pods /\ (Acquired(c) => conn[c].owner = PodOf[c])
    BY Rows DEF KnowsOwner, Acquired
  <2>2. PICK to \in {"admit", "dial"} : Goto(c, to) /\ (Acquired(c) => to = "admit")
    BY <1>3, <2>1
  <2>3. QED
    BY <1>1, <1>2, <2>1, <2>2, GotoStep DEF At, Early
<1>4. CASE Become(c, Gone)
  BY <1>1, <1>2, <1>4, GoneStep
<1>5. QED
  BY <1>3, <1>4

LEMMA HallsEdited ==
  ASSUME TypeOK, rooms' \in Seq(Room), Len(rooms') = Len(rooms), current' = current
  PROVE  HallsOK
BY DEF TypeOK, HallsOK

LEMMA RefuseStep == ASSUME IInv, NEW c \in Conns, Refuse(c) PROVE IInv'
<1>1. Untouched /\ HallsOK /\ archived' \in BOOLEAN /\ errors' \in 0..MaxErrors /\ Become(c, Gone)
  BY HallsStay DEF Refuse, Untouched, redis, halls, faults, IInv, TypeOK
<1>2. conn[c].at \in {"admit", "dial"}
  BY DEF Refuse
<1>3. QED
  BY <1>1, <1>2, GoneStep

LEMMA AddPeerStep == ASSUME IInv, NEW c \in Conns, AddPeer(c) PROVE IInv'
<1> USE DEF AddPeer, Step
<1>1. Untouched /\ archived' \in BOOLEAN /\ errors' \in 0..MaxErrors
  BY DEF Untouched, redis, faults, IInv, TypeOK
<1>2. conn[c].room \in Int /\ conn[c].owner \in Pods
  BY Rows DEF ConnState, KnowsOwner
<1>3. CASE rooms[conn[c].room].ended
  BY <1>1, <1>3, HallsStay, GoneStep DEF IInv
<1>4. CASE ~rooms[conn[c].room].ended
  <2>1. rooms' = [rooms EXCEPT ![conn[c].room].peers = @ \cup {c}]
    BY <1>4
  <2>2. rooms' \in Seq(Room) /\ Len(rooms') = Len(rooms)
    BY <2>1, <1>2, Rows, RoomJoined
  <2>3. HallsOK
    BY <2>2, HallsEdited DEF IInv
  <2>4. PICK to \in {"attach", "watch"} : Goto(c, to) /\ (Acquired(c) <=> to = "attach")
    BY <1>4, Rows DEF Acquired, ConnState
  <2>5. QED
    BY <1>1, <1>2, <2>3, <2>4, GotoStep DEF At, Early
<1>5. QED
  BY <1>3, <1>4

LEMMA RegisterPeerStep == ASSUME IInv, NEW c \in Conns, RegisterPeer(c) PROVE IInv'
<1> USE DEF RegisterPeer, Step
<1> DEFINE o == conn[c].owner
<1>1. Untouched /\ archived' \in BOOLEAN /\ errors' \in 0..MaxErrors
  BY DEF Untouched, redis, faults, IInv, TypeOK
<1>2. o \in Pods /\ ~Acquired(c)
  BY Rows DEF KnowsOwner, Early, Late, Acquired
<1>3. CASE is_draining(o)
  <2>1. cleanup_if_empty(PodOf[c]) /\ Become(c, Gone) /\ UNCHANGED rooms
    BY <1>3 DEF Rejected
  <2>2. HallsOK
    BY <2>1, RoomCleaned, Rows DEF IInv
  <2>3. QED
    BY <1>1, <2>1, <2>2, GoneStep
<1>4. CASE ~is_draining(o)
  <2>1. Goto(c, "host") /\ UNCHANGED <<rooms, current>>
    BY <1>4
  <2>2. QED
    BY <1>1, <1>2, <2>1, HallsStay, GotoStep DEF At, IInv
<1>5. QED
  BY <1>3, <1>4

LEMMA GetHostRoomStep == ASSUME IInv, NEW c \in Conns, GetHostRoom(c) PROVE IInv'
<1> USE DEF GetHostRoom, Step
<1> DEFINE o == conn[c].owner
           s == [conn[c] EXCEPT !.at = "validate", !.host = current'[o]]
<1>1. Untouched /\ archived' \in BOOLEAN /\ errors' \in 0..MaxErrors
  BY DEF Untouched, redis, faults, IInv, TypeOK
<1>2. o \in Pods /\ ~Acquired(c)
  BY Rows DEF KnowsOwner, Early, Late, Acquired
<1>3. GetOrCreate(o) /\ conn' = [conn EXCEPT ![c] = s]
  BY DEF Become
<1>4. HallsOK /\ current'[o] \in 0..Len(rooms')
  BY <1>2, <1>3, RoomFound DEF IInv, TypeOK
<1>5. Len(rooms') \in Nat /\ conn[c] \in ConnState(Len(rooms'))
  BY <1>4, Rows, MoreRooms DEF HallsOK
<1>6. /\ s \in ConnState(Len(rooms')) /\ s.at = "validate" /\ s.acquired = conn[c].acquired
      /\ s.owner = o
  BY <1>4, <1>5 DEF ConnState, At
<1> HIDE DEF s
<1>7. Moves(c, s)
  BY <1>2, <1>3, <1>6 DEF Moves, KnowsOwner, Acquired
<1>8. Aside(c, s)
  BY <1>2, <1>6 DEF Aside, Acquired
<1>9. QED
  BY <1>1, <1>4, <1>7, <1>8, AsideStep

LEMMA DialFailsStep == ASSUME IInv, NEW c \in Conns, DialFails(c) PROVE IInv'
<1> USE DEF DialFails, Step
<1>1. Untouched /\ archived' \in BOOLEAN /\ errors' \in 0..MaxErrors
  BY HuddleConstants DEF Untouched, redis, IInv, TypeOK
<1>2. HallsOK
  BY RoomCleaned, Rows DEF IInv, Rejected
<1>3. QED
  BY <1>1, <1>2, GoneStep DEF Rejected

LEMMA RegisterRemotePeerStep == ASSUME IInv, NEW c \in Conns, RegisterRemotePeer(c) PROVE IInv'
<1> USE DEF RegisterRemotePeer, Step
<1>1. Untouched /\ archived' \in BOOLEAN /\ errors' \in 0..MaxErrors
  BY DEF Untouched, redis, faults, IInv, TypeOK
<1>2. conn[c].host \in Int /\ conn[c].owner \in Pods /\ ~Acquired(c)
  BY Rows DEF ConnState, KnowsOwner, Acquired, Early, Late
<1>3. CASE /\ rooms' = [rooms EXCEPT ![conn[c].host].peers = @ \cup {c}]
           /\ current' = current /\ Goto(c, "mirror")
  <2>1. /\ rooms' = [rooms EXCEPT ![conn[c].host].peers = @ \cup {c}]
        /\ current' = current /\ Goto(c, "mirror")
    BY <1>3
  <2>2. rooms' \in Seq(Room) /\ Len(rooms') = Len(rooms)
    BY <2>1, <1>2, Rows, RoomJoined
  <2>3. HallsOK
    BY <2>1, <2>2, HallsEdited DEF IInv
  <2>4. QED
    BY <1>1, <1>2, <2>1, <2>3, GotoStep DEF At
<1>4. CASE Rejected(c) /\ UNCHANGED rooms
  <2>1. cleanup_if_empty(PodOf[c]) /\ Become(c, Gone) /\ UNCHANGED rooms
    BY <1>4 DEF Rejected
  <2>2. HallsOK
    BY <2>1, RoomCleaned, Rows DEF IInv
  <2>3. QED
    BY <1>1, <2>1, <2>2, GoneStep
<1>5. QED
  BY <1>3, <1>4

\* A remote client is gone, but the owner still has its stream.
LEMMA HostedStep ==
  ASSUME IInv, Untouched, HallsOK, archived' \in BOOLEAN, errors' \in 0..MaxErrors,
         NEW c \in Conns, Become(c, Hosted(c)), conn[c].at \in {"mirror", "served"}
  PROVE  IInv'
<1> DEFINE s == Hosted(c)
<1>1. /\ conn[c].owner \in Pods /\ Len(rooms') \in Nat /\ "gone" \in At
      /\ conn[c] \in ConnState(Len(rooms'))
  BY Rows, MoreRooms, SMTT(40) DEF HallsOK, KnowsOwner, At
<1>2. Gone \in ConnState(Len(rooms')) /\ Gone.at = "gone" /\ Gone.acquired = FALSE
  BY <1>1, Blank DEF Gone
<1>3. ASSUME NEW row \in ConnState(Len(rooms'))
      PROVE  LET t == [row EXCEPT !.owner = conn[c].owner, !.host = conn[c].host]
             IN  /\ t \in ConnState(Len(rooms')) /\ t.at = row.at /\ t.acquired = row.acquired
                 /\ t.owner = conn[c].owner
  BY <1>1 DEF ConnState
<1>4. s \in ConnState(Len(rooms')) /\ s.at = "gone" /\ s.acquired = FALSE /\ s.owner \in Pods
  BY <1>1, <1>2, <1>3 DEF Hosted
<1>5. conn' = [conn EXCEPT ![c] = s]
  BY DEF Become
<1> HIDE DEF s
<1>6. Moves(c, s) /\ Aside(c, s)
  BY <1>4, <1>5 DEF Moves, KnowsOwner, Aside
<1>7. QED
  BY <1>6, AsideStep

LEMMA AddMirrorStep == ASSUME IInv, NEW c \in Conns, AddMirror(c) PROVE IInv'
<1> USE DEF AddMirror, Step
<1>1. Untouched /\ archived' \in BOOLEAN /\ errors' \in 0..MaxErrors
  BY DEF Untouched, redis, faults, IInv, TypeOK
<1>2. conn[c].room \in Int /\ conn[c].owner \in Pods /\ ~Acquired(c)
  BY Rows DEF ConnState, KnowsOwner, Acquired, Early, Late
<1>3. CASE Become(c, Hosted(c)) /\ UNCHANGED rooms
  BY <1>1, <1>3, HallsStay, HostedStep DEF IInv
<1>4. CASE rooms' = [rooms EXCEPT ![conn[c].room].peers = @ \cup {c}] /\ Goto(c, "served")
  <2>1. rooms' = [rooms EXCEPT ![conn[c].room].peers = @ \cup {c}] /\ Goto(c, "served")
    BY <1>4
  <2>2. rooms' \in Seq(Room) /\ Len(rooms') = Len(rooms)
    BY <2>1, <1>2, Rows, RoomJoined
  <2>3. HallsOK
    BY <2>2, HallsEdited DEF IInv
  <2>4. QED
    BY <1>1, <1>2, <2>1, <2>3, GotoStep DEF At
<1>5. QED
  BY <1>3, <1>4

LEMMA LeaveMirrorStep == ASSUME IInv, NEW c \in Conns, LeaveMirror(c) PROVE IInv'
<1> USE DEF LeaveMirror, Step
<1>1. Untouched /\ archived' \in BOOLEAN /\ errors' \in 0..MaxErrors
  BY DEF Untouched, redis, faults, IInv, TypeOK
<1>2. conn[c].room \in Int /\ PodOf[c] \in Pods
  BY Rows DEF ConnState
<1>3. rooms' \in Seq(Room) /\ Len(rooms') = Len(rooms)
  BY <1>2, Rows, RoomLeft
<1>4. HallsOK
  BY <1>2, <1>3 DEF HallsOK, IInv, TypeOK
<1>5. QED
  BY <1>1, <1>4, HostedStep

LEMMA StreamEndsStep == ASSUME IInv, NEW c \in Conns, StreamEnds(c) PROVE IInv'
<1> USE DEF StreamEnds, Step
<1>1. Untouched /\ archived' \in BOOLEAN /\ errors' \in 0..MaxErrors
  BY DEF Untouched, redis, faults, IInv, TypeOK
<1>2. conn[c].owner \in Pods
  BY Rows DEF KnowsOwner
<1>3. current[conn[c].owner] \in Int
  BY <1>2 DEF IInv, TypeOK
<1>4. rooms' \in Seq(Room) /\ Len(rooms') = Len(rooms)
  BY <1>3, Rows, RoomLeft
<1>5. QED
  BY <1>1, <1>4, HallsEdited, GoneStep DEF IInv

LEMMA LeaveStep == ASSUME IInv, NEW c \in Conns, Leave(c) PROVE IInv'
<1> USE DEF Leave, Step
<1>1. Untouched /\ archived' \in BOOLEAN /\ errors' \in 0..MaxErrors
  BY DEF Untouched, redis, faults, IInv, TypeOK
<1> DEFINE r == conn[c].room
           left == rooms[r].peers \ {c}
           ends == ~rooms[r].ended /\ left = {}
<1>2. r \in Int /\ conn[c].owner \in Pods
  BY Rows DEF ConnState, KnowsOwner
<1>3. rooms' = [rooms EXCEPT ![r].peers = left, ![r].ended = @ \/ ends]
  OBVIOUS
<1>4. rooms' \in Seq(Room) /\ Len(rooms') = Len(rooms)
  <2>1. CASE r \in 1..Len(rooms)
    <3>1. rooms[r] \in Room
      BY <2>1, Rows, ElementOfSeq
    <3>2. left \in SUBSET Conns /\ ends \in BOOLEAN
      BY <3>1 DEF Room
    <3>3. EndedRoom(r, left, ends) \in Seq(Room) /\ Len(EndedRoom(r, left, ends)) = Len(rooms)
      <4> HIDE DEF Leave, left, ends
      <4>1. QED
        BY <1>2, <3>2, Rows, RoomEnded
    <3>4. rooms' = EndedRoom(r, left, ends)
      BY <1>3 DEF EndedRoom
    <3> HIDE DEF Leave, left, ends
    <3>5. QED
      BY <3>3, <3>4
  <2>2. CASE r \notin 1..Len(rooms)
    <3> HIDE DEF left, ends
    <3>1. rooms' = rooms
      BY <1>3, <2>2, Rows
    <3>2. QED
      BY <3>1, Rows
  <2>3. QED
    BY <2>1, <2>2
<1>5. PICK to \in {"archive", "cleanup"} : Goto(c, to)
  OBVIOUS
<1>6. QED
  BY <1>1, <1>2, <1>4, <1>5, HallsEdited, GotoStep DEF At, Early, Late, IInv

\* The room is cleaned up; the last one out goes on to the release.
LEMMA CleanedStep ==
  ASSUME IInv, Untouched, archived' \in BOOLEAN, errors' \in 0..MaxErrors, rooms' = rooms,
         NEW c \in Conns, conn[c].at = "cleanup",
         cleanup_if_empty(PodOf[c]), Become(c, AfterCleanup(c))
  PROVE  IInv'
<1>1. HallsOK
  BY RoomCleaned, Rows DEF IInv
<1>2. CASE Empties(PodOf[c])
  <2>1. conn[c].owner \in Pods /\ Goto(c, "release")
    BY <1>2, Rows DEF KnowsOwner, Goto, Become, AfterCleanup
  <2>2. QED
    BY <1>1, <2>1, GotoStep DEF At, Early, Late
<1>3. CASE ~Empties(PodOf[c])
  BY <1>1, <1>3, GoneStep DEF AfterCleanup
<1>4. QED
  BY <1>2, <1>3

LEMMA ArchiveStep == ASSUME IInv, NEW c \in Conns, Archive(c) PROVE IInv'
<1> USE DEF Archive, Step
<1>1. Untouched /\ archived' \in BOOLEAN /\ errors' \in 0..MaxErrors
  <2>1. Untouched /\ errors' \in 0..MaxErrors
    BY HuddleConstants DEF Untouched, redis, IInv, TypeOK
  <2>2. archived' \in BOOLEAN
    BY Zenon DEF IInv, TypeOK
  <2>3. QED
    BY <2>1, <2>2
<1>2. CASE Goto(c, "cleanup") /\ rooms' = rooms
  <2>1. conn[c].owner \in Pods
    BY Rows DEF KnowsOwner
  <2>2. HallsOK
    BY <1>2, HallsStay DEF IInv
  <2>3. QED
    BY <1>1, <1>2, <2>1, <2>2, GotoStep DEF At, Early, Late
<1>3. CASE rooms' = [rooms EXCEPT ![conn[c].room].ended = FALSE] /\ Become(c, Gone) /\ current' = current
  <2>1. conn[c].room \in Int
    BY Rows DEF ConnState
  <2>2. rooms' \in Seq(Room) /\ Len(rooms') = Len(rooms)
    BY <1>3, <2>1, Rows, RoomReopened
  <2>3. QED
    BY <1>1, <1>3, <2>2, HallsEdited, GoneStep DEF IInv
<1>4. QED
  BY <1>2, <1>3

LEMMA CleanupStep == ASSUME IInv, NEW c \in Conns, Cleanup(c) PROVE IInv'
<1> USE DEF Cleanup, Step
<1>1. Untouched /\ archived' \in BOOLEAN /\ errors' \in 0..MaxErrors
  BY DEF Untouched, redis, faults, IInv, TypeOK
<1>2. QED
  BY <1>1, CleanedStep DEF halls

-----------------------------------------------------------------------------
(* Leases come and go *)

LEMMA Leases ==
  /\ \A p \in Pods, g \in Nat : Lease(p, g) # None
  /\ \A p, q, g, h : Lease(p, g) = Lease(q, h) => p = q /\ g = h
  /\ \A p, g : Lease(p, g).generation = g /\ Lease(p, g).owner = p
<1>1. \A p, g : Lease(p, g).generation = g /\ Lease(p, g).owner = p
  BY DEF Lease
<1>2. \A p \in Pods, g \in Nat : Lease(p, g) \in [owner : Pods, generation : Nat]
  BY DEF Lease
<1>3. QED
  BY <1>1, <1>2, HuddleConstants

LEMMA Gens ==
  ASSUME IInv
  PROVE  /\ MaxGenerations \in Nat /\ generation \in 0..MaxGenerations
         /\ \A c \in Conns : /\ PodOf[c] \in Pods /\ Gen(c) \in 0..MaxGenerations
                             /\ Acquired(c) => Gen(c) \in Generations /\ Gen(c) <= generation
                             /\ conn[c].at \in {"attach", "publish", "insert", "recheck"} => Acquired(c)
         /\ \A p \in Pods : registry[p] \in 0..MaxGenerations
         /\ \A g \in Generations : renewer[g] \in RenewerState
<1>1. /\ MaxGenerations \in Nat /\ generation \in 0..MaxGenerations
      /\ \A p \in Pods : registry[p] \in 0..MaxGenerations
      /\ \A g \in Generations : renewer[g] \in RenewerState
  BY HuddleConstants DEF IInv, TypeOK
<1>2. ASSUME NEW c \in Conns
      PROVE  /\ PodOf[c] \in Pods /\ Gen(c) \in 0..MaxGenerations
             /\ Acquired(c) => Gen(c) \in Generations /\ Gen(c) <= generation
             /\ conn[c].at \in {"attach", "publish", "insert", "recheck"} => Acquired(c)
  <2>1. PodOf[c] \in Pods /\ conn[c] \in ConnState(Len(rooms)) /\ KnowsOwner(c, conn[c], generation)
    BY Rows
  <2>2. conn[c].generation \in 0..MaxGenerations
    BY <2>1 DEF ConnState
  <2>3. QED
    BY <1>1, <2>1, <2>2 DEF KnowsOwner, Gen, Acquired, Generations
<1>3. QED
  BY <1>1, <1>2

LEMMA AcquireKeeps ==
  ASSUME IInv, NEW c \in Conns, conn[c].at = "acquire", lease = None,
         generation < MaxGenerations, generation' = generation + 1,
         lease' = Lease(PodOf[c], generation'),
         UNCHANGED <<renewer, registry, drain, stalls, slow>>,
         conn'[c].at = "resolved", conn'[c].acquired, conn'[c].generation = generation',
         \A d \in Conns : d # c => conn'[d] = conn[d]
  PROVE  Ownership'
<1>1. generation \in Nat /\ generation' \in Generations
  BY Gens DEF Generations
<1>2. OneAcquirer'
  BY <1>1, Gens DEF IInv, Ownership, OneAcquirer, Acquired, Gen
<1>3. Counted'
  <2>1. lease' # None => lease'.generation <= generation'
    BY Leases, <1>1
  <2>2. \A p \in Pods : registry'[p] <= generation'
    BY <1>1, Gens DEF IInv, Ownership, Counted
  <2>3. \A g \in Generations : renewer'[g].at # "none" => renewer'[g].pod \in Pods /\ g <= generation'
    BY <1>1 DEF IInv, Ownership, Counted, Generations
  <2>4. QED
    BY <2>1, <2>2, <2>3 DEF Counted
<1>4. NotYetSpawned'
  <2>1. renewer[generation'].at = "none" /\ \A p \in Pods : registry[p] # generation'
    BY <1>1, Gens DEF IInv, Ownership, Counted
  <2>2. QED
    BY <2>1 DEF IInv, Ownership, NotYetSpawned, Acquired, Gen
<1>5. Spawned' /\ InsertReady'
  BY DEF IInv, Ownership, Spawned, InsertReady, Gen
<1>6. RegistryLive' /\ DrainedEntry'
  BY DEF IInv, Ownership, RegistryLive, DrainedEntry, Gen
<1>7. NoSlowJoin' => OneInsert' /\ KnownRenewer' /\ EarlyHolds'
  <2> SUFFICES ASSUME NoSlowJoin PROVE OneInsert' /\ KnownRenewer' /\ EarlyHolds'
    BY DEF NoSlowJoin
  <2>1. OneInsert' /\ KnownRenewer'
    BY DEF IInv, Ownership, OneInsert, KnownRenewer, Step
  <2>2. \A d \in Conns : ~(Acquired(d) /\ conn[d].at \in Early)
    BY Leases, Gens DEF IInv, Ownership, EarlyHolds, Generations
  <2>3. EarlyHolds'
    BY <2>2 DEF EarlyHolds, Acquired, Gen, Lease
  <2>4. QED
    BY <2>1, <2>3
<1>8. OnlyLateLose'
  <2> SUFFICES ASSUME stalls = MaxStalls, slow = MaxSlowJoins, NEW g \in Generations, renewer[g].at = "running"
               PROVE  FALSE
    BY DEF OnlyLateLose
  <2>1. lease = Lease(renewer[g].pod, g) /\ renewer[g].pod \in Pods
    BY DEF IInv, Ownership, OnlyLateLose, Holds, Counted
  <2>2. QED
    BY <2>1, Leases DEF Generations
<1>9. QED
  BY <1>2, <1>3, <1>4, <1>5, <1>6, <1>7, <1>8 DEF Ownership

LEMMA AcquireStep == ASSUME IInv, NEW c \in Conns, Acquire(c) PROVE IInv'
<1> USE DEF Acquire, Step
<1>1. /\ HallsOK /\ archived' \in BOOLEAN /\ errors' \in 0..MaxErrors /\ rooms' = rooms
      /\ UNCHANGED <<renewer, registry, drain, stalls, slow, current>>
  BY HallsStay DEF halls, faults, IInv, TypeOK
<1>2. CASE lease # None
  <2>1. Untouched
    BY <1>1, <1>2 DEF Untouched, redis
  <2>2. QED
    BY <1>1, <1>2, <2>1, ResolvedStep
<1>3. CASE lease = None
  <2> DEFINE s == [conn[c] EXCEPT !.at = "resolved", !.owner = PodOf[c],
                                  !.generation = generation', !.acquired = TRUE]
  <2>1. /\ generation < MaxGenerations /\ generation' = generation + 1
        /\ lease' = Lease(PodOf[c], generation') /\ conn' = [conn EXCEPT ![c] = s]
    BY <1>3 DEF Become
  <2>2. generation' \in Generations /\ generation \in Int /\ generation' \in Int /\ generation' >= generation
    BY <2>1, Gens DEF Generations
  <2>3. /\ s \in ConnState(Len(rooms)) /\ s.at = "resolved" /\ s.acquired = TRUE
        /\ s.owner = PodOf[c] /\ s.generation = generation'
    <3> HIDE DEF Acquire
    <3>1. conn[c] \in ConnState(Len(rooms)) /\ PodOf[c] \in Pods /\ generation' \in 0..MaxGenerations
      BY <2>2, Rows DEF Generations
    <3>2. QED
      BY <3>1 DEF ConnState, At
  <2> HIDE DEF s
  <2>4. Moves(c, s)
    BY <1>1, <2>1, <2>2, <2>3, Rows DEF Moves, KnowsOwner, Early, Generations
  <2>5. /\ conn' \in [Conns -> ConnState(Len(rooms'))] /\ OwnerKnown'
        /\ conn'[c] = s /\ \A d \in Conns : d # c => conn'[d] = conn[d]
    BY <1>1, <2>2, <2>4, Moved
  <2>6. Ownership'
    <3> HIDE DEF Acquire
    <3>1. conn[c].at = "acquire"
      BY DEF Acquire
    <3>2. QED
      BY <1>1, <1>3, <2>1, <2>3, <2>5, <3>1, AcquireKeeps
  <2>7. lease' \in [owner : Pods, generation : Generations] /\ generation' \in 0..MaxGenerations
    BY <2>1, <2>2, Rows DEF Lease, Generations
  <2>8. TypeOK'
    BY <1>1, <2>5, <2>7 DEF IInv, TypeOK, HallsOK
  <2>9. QED
    BY <2>5, <2>6, <2>8 DEF IInv
<1>4. QED
  BY <1>2, <1>3

LEMMA ExpireStep == ASSUME IInv, Expire PROVE IInv'
<1> USE DEF Expire
<1>1. UNCHANGED <<generation, renewer, registry, drain, rooms, current, archived, conn, errors>>
      /\ lease' = None
  BY DEF halls
<1>2. \/ slow > 0 /\ slow' = slow - 1 /\ stalls' = stalls
      \/ /\ \A c \in Conns : ~(Attaching(c) /\ Gen(c) = lease.generation)
         /\ slow' = slow
         /\ \/ renewer[lease.generation].at = "running" /\ stalls > 0 /\ stalls' = stalls - 1
            \/ renewer[lease.generation].at # "running" /\ stalls' = stalls
  BY DEF Gen
<1> HIDE DEF Expire
<1>3. slow \in 0..MaxSlowJoins /\ stalls \in 0..MaxStalls /\ MaxSlowJoins \in Nat /\ MaxStalls \in Nat
  BY HuddleConstants DEF IInv, TypeOK
<1>4. TypeOK'
  <2>1. slow' \in 0..MaxSlowJoins /\ stalls' \in 0..MaxStalls
    BY <1>2, <1>3
  <2>2. QED
    BY <1>1, <2>1 DEF IInv, TypeOK
<1>5. OwnerKnown'
  BY <1>1, Stays
<1>6. Ownership'
  <2> USE <1>1
  <2>1. OneAcquirer' /\ NotYetSpawned' /\ Spawned' /\ InsertReady' /\ RegistryLive' /\ DrainedEntry'
    BY DEF IInv, Ownership, OneAcquirer, NotYetSpawned, Spawned, InsertReady, RegistryLive, DrainedEntry, Acquired, Gen
  <2>2. Counted'
    BY DEF IInv, Ownership, Counted
  <2>3. NoSlowJoin' => OneInsert' /\ KnownRenewer' /\ EarlyHolds'
    <3> SUFFICES ASSUME NoSlowJoin' PROVE OneInsert' /\ KnownRenewer' /\ EarlyHolds'
      OBVIOUS
    <3>1. NoSlowJoin /\ \A c \in Conns : ~(Attaching(c) /\ Gen(c) = lease.generation)
      BY <1>2, <1>3 DEF NoSlowJoin
    <3>2. OneInsert' /\ KnownRenewer'
      BY <3>1 DEF IInv, Ownership, OneInsert, KnownRenewer, Step
    <3>3. ASSUME NEW c \in Conns, Acquired(c), conn[c].at \in Early PROVE FALSE
      <4>1. lease = Lease(PodOf[c], Gen(c))
        BY <3>1, <3>3 DEF IInv, Ownership, EarlyHolds
      <4>2. lease.generation = Gen(c)
        BY <4>1, Leases
      <4>3. Attaching(c)
        BY <3>3 DEF Attaching, Acquired, Early
      <4>4. QED
        BY <3>1, <4>2, <4>3
    <3>4. EarlyHolds'
      BY <3>3 DEF EarlyHolds, Acquired
    <3>5. QED
      BY <3>2, <3>4
  <2>4. OnlyLateLose'
    <3> SUFFICES ASSUME stalls' = MaxStalls, slow' = MaxSlowJoins, NEW g \in Generations, renewer[g].at = "running"
                 PROVE  FALSE
      BY DEF OnlyLateLose
    <3>1. stalls = MaxStalls /\ slow = MaxSlowJoins /\ renewer[lease.generation].at # "running"
      BY <1>2, <1>3
    <3>2. lease = Lease(renewer[g].pod, g)
      BY <3>1 DEF IInv, Ownership, OnlyLateLose, Holds
    <3>3. QED
      BY <3>1, <3>2, Leases
  <2>5. QED
    BY <2>1, <2>2, <2>3, <2>4 DEF Ownership
<1>7. QED
  BY <1>4, <1>5, <1>6 DEF IInv

-----------------------------------------------------------------------------
(* A renewer starts *)

LEMMA SpawnIs ==
  ASSUME IInv, NEW c \in Conns, NEW cancelled \in BOOLEAN, NEW drained \in BOOLEAN
  PROVE  LET r == Spawn(c, cancelled, drained)
         IN  /\ r \in RenewerState /\ r.at = "running" /\ r.pod = PodOf[c]
             /\ r.cancel = cancelled
<1>1. NoRenewer \in RenewerState
  BY DEF NoRenewer, RenewerState
<1>2. PodOf[c] \in Pods
  BY Rows
<1>3. ASSUME NEW row \in RenewerState
      PROVE  LET r == [row EXCEPT !.at = "running", !.pod = PodOf[c], !.cancel = cancelled,
                                  !.draining = drained]
             IN  /\ r \in RenewerState /\ r.at = "running" /\ r.pod = PodOf[c]
                 /\ r.cancel = cancelled
  BY <1>2 DEF RenewerState
<1>4. QED
  BY <1>1, <1>3 DEF Spawn

LEMMA SpawnKeeps ==
  ASSUME IInv, NEW c \in Conns, Acquired(c), conn[c].at \in Early,
         UNCHANGED <<lease, generation, registry, drain, stalls>>, slow' \in {slow, slow - 1},
         NEW r, r.at = "running", r.pod = PodOf[c], renewer'[Gen(c)] = r,
         \A g \in Generations : g # Gen(c) => renewer'[g] = renewer[g],
         \A d \in Conns : d # c => conn'[d] = conn[d],
         conn'[c].acquired, conn'[c].generation = Gen(c),
         \/ conn'[c].at = "joined" /\ r.cancel
         \/ /\ conn'[c].at = "insert" /\ ~r.cancel /\ registry[PodOf[c]] = 0
            /\ slow' = slow => \A d \in Conns : ~(PodOf[d] = PodOf[c] /\ conn[d].at = "insert")
  PROVE  Ownership'
<1>0. slow \in Int /\ Gen(c) \in Generations /\ Gen(c) <= generation
      /\ (slow' = MaxSlowJoins => slow' = slow) /\ Gen(c) # 0
  BY Gens, HuddleConstants DEF IInv, TypeOK, Generations
<1>1. \A d \in Conns : Acquired(d) /\ d # c => Gen(d) # Gen(c)
  BY DEF IInv, Ownership, OneAcquirer
<1>2. \A p \in Pods : registry[p] # Gen(c)
  BY DEF IInv, Ownership, NotYetSpawned
<1>3. OneAcquirer'
  BY DEF IInv, Ownership, OneAcquirer, Acquired, Gen
<1>4. Counted'
  <2>1. \A g \in Generations : renewer'[g].at # "none" => renewer'[g].pod \in Pods /\ g <= generation
    BY <1>0, Gens DEF IInv, Ownership, Counted
  <2>2. QED
    BY <2>1 DEF IInv, Ownership, Counted
<1>5. NotYetSpawned'
  <2> SUFFICES ASSUME NEW d \in Conns, d # c, Acquired(d), conn[d].at \in Early
               PROVE  renewer'[Gen(d)].at = "none" /\ \A p \in Pods : registry[p] # Gen(d)
    BY DEF NotYetSpawned, Acquired, Gen, Early
  <2>1. Gen(d) \in Generations /\ Gen(d) # Gen(c)
    BY <1>1, Gens
  <2>2. QED
    BY <2>1 DEF IInv, Ownership, NotYetSpawned
<1>6. Spawned'
  <2>1. ASSUME NEW d \in Conns, d # c, conn[d].at \in {"insert", "recheck"}
        PROVE  renewer'[Gen(d)].pod = PodOf[d] /\ renewer'[Gen(d)].at # "none"
    <3>1. Gen(d) \in Generations /\ Gen(d) # Gen(c)
      BY <1>1, <2>1, Gens
    <3>2. QED
      BY <2>1, <3>1 DEF IInv, Ownership, Spawned
  <2>2. QED
    BY <2>1 DEF Spawned, Gen
<1>7. InsertReady'
  <2>1. ASSUME NEW d \in Conns, d # c, conn[d].at = "insert"
        PROVE  /\ ~renewer'[Gen(d)].cancel
               /\ renewer'[Gen(d)].at = "running" \/ renewer'[Gen(d)].lost
               /\ \A p \in Pods : registry[p] # Gen(d)
    <3>1. Gen(d) \in Generations /\ Gen(d) # Gen(c)
      BY <1>1, <2>1, Gens
    <3>2. QED
      BY <2>1, <3>1 DEF IInv, Ownership, InsertReady
  <2>2. QED
    BY <2>1, <1>2 DEF InsertReady, Gen
<1>8. RegistryLive'
  <2>1. \A p \in Pods : registry[p] # 0 => registry[p] \in Generations
    BY Gens DEF Generations
  <2>2. QED
    BY <1>2, <2>1 DEF IInv, Ownership, RegistryLive
<1>9. DrainedEntry'
  BY DEF IInv, Ownership, DrainedEntry, Gen, Early
<1>10. ASSUME NoSlowJoin' PROVE OneInsert' /\ KnownRenewer' /\ EarlyHolds'
  <2>1. NoSlowJoin /\ slow' = slow
    BY <1>0, <1>10 DEF NoSlowJoin
  <2>2. OneInsert'
    BY <2>1 DEF IInv, Ownership, OneInsert
  <2>3. KnownRenewer'
    <3> SUFFICES ASSUME NEW g \in Generations, renewer'[g].at = "running", ~renewer'[g].cancel
                 PROVE  \/ registry[renewer'[g].pod] = g
                        \/ \E d \in Conns : conn'[d].at = "insert" /\ conn'[d].generation = g
      BY DEF KnownRenewer, Step
    <3>1. CASE g = Gen(c)
      BY <3>1
    <3>2. CASE g # Gen(c)
      BY <2>1, <3>2 DEF IInv, Ownership, KnownRenewer, Step, Early
    <3>3. QED
      BY <3>1, <3>2
  <2>4. EarlyHolds'
    BY <2>1 DEF IInv, Ownership, EarlyHolds, Acquired, Gen, Lease, Early
  <2>5. QED
    BY <2>2, <2>3, <2>4
<1>11. OnlyLateLose'
  <2> SUFFICES ASSUME stalls = MaxStalls, NoSlowJoin', NEW g \in Generations, renewer'[g].at = "running"
               PROVE  lease = Lease(renewer'[g].pod, g)
    BY DEF OnlyLateLose, Holds, NoSlowJoin, Lease
  <2>1. NoSlowJoin /\ slow = MaxSlowJoins
    BY <1>0 DEF NoSlowJoin
  <2>2. CASE g = Gen(c)
    BY <2>1, <2>2 DEF IInv, Ownership, EarlyHolds
  <2>3. CASE g # Gen(c)
    BY <2>1, <2>3 DEF IInv, Ownership, OnlyLateLose, Holds
  <2>4. QED
    BY <2>2, <2>3
<1>12. QED
  BY <1>3, <1>4, <1>5, <1>6, <1>7, <1>8, <1>9, <1>10, <1>11 DEF Ownership

\* The types and the owner known after a step that starts a renewer.
LEMMA SpawnTypes ==
  ASSUME IInv, NEW c \in Conns, Acquired(c), conn[c].at \in {"attach", "publish"},
         UNCHANGED <<lease, generation, registry, drain, rooms, current, archived, stalls, errors>>,
         slow' \in 0..MaxSlowJoins, NEW cancelled \in BOOLEAN, NEW drained \in BOOLEAN,
         renewer' = [renewer EXCEPT ![Gen(c)] = Spawn(c, cancelled, drained)],
         NEW s \in ConnState(Len(rooms)), conn' = [conn EXCEPT ![c] = s],
         s.acquired, s.generation = Gen(c), s.owner = conn[c].owner, s.at \in {"joined", "insert"}
  PROVE  /\ TypeOK' /\ OwnerKnown' /\ renewer'[Gen(c)] = Spawn(c, cancelled, drained)
         /\ \A g \in Generations : g # Gen(c) => renewer'[g] = renewer[g]
         /\ conn'[c] = s /\ \A d \in Conns : d # c => conn'[d] = conn[d]
<1>1. Moves(c, s)
  BY Rows DEF Moves, KnowsOwner, Late, Acquired, Gen
<1>2. HallsOK /\ generation \in Int
  BY HallsStay DEF IInv, TypeOK
<1>3. /\ conn' \in [Conns -> ConnState(Len(rooms'))] /\ OwnerKnown'
      /\ conn'[c] = s /\ \A d \in Conns : d # c => conn'[d] = conn[d]
  BY <1>1, <1>2, Moved
<1>4. Gen(c) \in Generations /\ Spawn(c, cancelled, drained) \in RenewerState
  BY Gens, SpawnIs
<1>5. /\ renewer' \in [Generations -> RenewerState] /\ renewer'[Gen(c)] = Spawn(c, cancelled, drained)
      /\ \A g \in Generations : g # Gen(c) => renewer'[g] = renewer[g]
  BY <1>4 DEF IInv, TypeOK
<1>6. TypeOK'
  BY <1>3, <1>5 DEF IInv, TypeOK
<1>7. QED
  BY <1>3, <1>5, <1>6

LEMMA AttachCheckStep == ASSUME IInv, NEW c \in Conns, AttachCheck(c) PROVE IInv'
<1> USE DEF AttachCheck, Step
<1>1. /\ UNCHANGED <<lease, generation, registry, drain, rooms, current, archived, stalls, slow, errors>>
      /\ slow \in 0..MaxSlowJoins /\ archived \in BOOLEAN /\ errors \in 0..MaxErrors
  BY DEF redis, halls, faults, IInv, TypeOK
<1>2. Acquired(c) /\ conn[c].owner \in Pods /\ conn[c].at = "attach"
  BY Rows DEF KnowsOwner, Acquired
<1>3. CASE is_draining(PodOf[c])
  <2> DEFINE s == [conn[c] EXCEPT !.at = "joined", !.watch = conn[c].generation,
                                !.drains = conn[c].generation]
  <2>1. conn' = [conn EXCEPT ![c] = s] /\ renewer' = [renewer EXCEPT ![Gen(c)] = Spawn(c, TRUE, TRUE)]
    BY <1>3 DEF Become, Gen, Watching
  <2> HIDE DEF AttachCheck
  <2>2. conn[c] \in ConnState(Len(rooms))
    BY Rows
  <2>3. /\ s \in ConnState(Len(rooms)) /\ s.acquired /\ s.generation = Gen(c)
        /\ s.owner = conn[c].owner /\ s.at = "joined"
    BY <1>2, <2>2 DEF ConnState, At, Acquired, Gen
  <2> HIDE DEF s
  <2>4. /\ TypeOK' /\ OwnerKnown' /\ renewer'[Gen(c)] = Spawn(c, TRUE, TRUE)
        /\ \A g \in Generations : g # Gen(c) => renewer'[g] = renewer[g]
        /\ conn'[c] = s /\ \A d \in Conns : d # c => conn'[d] = conn[d]
    BY <1>1, <1>2, <2>1, <2>3, SpawnTypes
  <2>5. Spawn(c, TRUE, TRUE).at = "running" /\ Spawn(c, TRUE, TRUE).pod = PodOf[c] /\ Spawn(c, TRUE, TRUE).cancel
    BY SpawnIs
  <2>6. Ownership'
    BY <1>1, <1>2, <2>3, <2>4, <2>5, SpawnKeeps DEF Early
  <2>7. QED
    BY <2>4, <2>6 DEF IInv
<1>4. CASE ~is_draining(PodOf[c])
  <2>1. Goto(c, "publish") /\ Untouched
    BY <1>1, <1>4 DEF Untouched
  <2>2. QED
    BY <1>1, <1>2, <2>1, HallsStay, GotoStep DEF At, Early, IInv
<1>5. QED
  BY <1>3, <1>4

LEMMA AttachLookupStep == ASSUME IInv, NEW c \in Conns, AttachLookup(c) PROVE IInv'
<1> USE DEF AttachLookup, Step
<1> DEFINE kept == registry[PodOf[c]]
           s == [conn[c] EXCEPT !.at = IF kept # 0 THEN "joined" ELSE "insert",
                                !.watch = IF kept # 0 THEN kept ELSE conn[c].watch,
                                !.drains = IF kept # 0 THEN kept ELSE conn[c].drains]
           r == Spawn(c, kept # 0, FALSE)
<1>1. /\ UNCHANGED <<lease, generation, registry, drain, rooms, current, archived, stalls, errors>>
      /\ renewer' = [renewer EXCEPT ![Gen(c)] = r]
      /\ conn[c].at = "publish"
  BY DEF redis, halls, Gen
<1>2. /\ slow' \in {slow, slow - 1} /\ slow' \in 0..MaxSlowJoins
      /\ slow' = slow => \A d \in Conns : ~(PodOf[d] = PodOf[c] /\ conn[d].at = "insert")
  <2>1. slow \in 0..MaxSlowJoins /\ MaxSlowJoins \in Nat
    BY HuddleConstants DEF IInv, TypeOK
  <2>2. CASE \E d \in Conns : PodOf[d] = PodOf[c] /\ conn[d].at = "insert"
    <3>1. slow > 0 /\ slow' = slow - 1
      BY <2>2
    <3>2. QED
      BY <2>1, <3>1
  <2>3. CASE ~(\E d \in Conns : PodOf[d] = PodOf[c] /\ conn[d].at = "insert")
    BY <2>1, <2>3
  <2>4. QED
    BY <2>2, <2>3
<1>3. Acquired(c) /\ conn[c].owner \in Pods
  BY <1>1, Rows DEF KnowsOwner, Acquired
<1>4. conn[c] \in ConnState(Len(rooms)) /\ kept \in 0..MaxGenerations
  BY Rows, Gens
<1>5. conn' = [conn EXCEPT ![c] = s]
  <2>1. CASE kept # 0
    BY <2>1 DEF Become, Watching
  <2>2. CASE kept = 0
    <3>1. s = [conn[c] EXCEPT !.at = "insert"]
      BY <2>2, <1>4 DEF ConnState
    <3>2. Goto(c, "insert")
      BY <2>2
    <3>3. QED
      BY <3>1, <3>2, Rows DEF Goto
  <2>3. QED
    BY <2>1, <2>2
<1> HIDE DEF AttachLookup
<1>6. /\ s \in ConnState(Len(rooms)) /\ s.acquired /\ s.generation = Gen(c)
      /\ s.owner = conn[c].owner /\ s.at = IF kept # 0 THEN "joined" ELSE "insert"
  BY <1>3, <1>4 DEF ConnState, At, Acquired, Gen
<1>7. (kept # 0) \in BOOLEAN
  OBVIOUS
<1>8. r.at = "running" /\ r.pod = PodOf[c] /\ r.cancel = (kept # 0)
  BY <1>7, SpawnIs
<1> HIDE DEF s
<1>9. /\ TypeOK' /\ OwnerKnown' /\ renewer'[Gen(c)] = r
      /\ \A g \in Generations : g # Gen(c) => renewer'[g] = renewer[g]
      /\ conn'[c] = s /\ \A d \in Conns : d # c => conn'[d] = conn[d]
  BY <1>1, <1>2, <1>3, <1>5, <1>6, <1>7, SpawnTypes
<1>10. Ownership'
  <2> HIDE DEF r
  <2>1. \/ conn'[c].at = "joined" /\ r.cancel
        \/ conn'[c].at = "insert" /\ ~r.cancel /\ registry[PodOf[c]] = 0
    BY <1>6, <1>8, <1>9
  <2>2. QED
    BY <1>1, <1>2, <1>3, <1>6, <1>8, <1>9, <2>1, SpawnKeeps DEF Early
<1>11. QED
  BY <1>9, <1>10 DEF IInv

-----------------------------------------------------------------------------
(* The registry *)

LEMMA AttachInsertKeeps ==
  ASSUME IInv, NEW c \in Conns, conn[c].at = "insert",
         UNCHANGED <<lease, generation, renewer, drain, stalls, slow>>,
         registry' = [registry EXCEPT ![PodOf[c]] = Gen(c)],
         conn'[c].at = "recheck", conn'[c].acquired = conn[c].acquired, conn'[c].generation = Gen(c),
         \A d \in Conns : d # c => conn'[d] = conn[d]
  PROVE  Ownership'
<1>1. Acquired(c) /\ PodOf[c] \in Pods /\ Gen(c) \in Generations /\ Gen(c) <= generation
  BY Gens
<1>2. registry'[PodOf[c]] = Gen(c) /\ \A p \in Pods : p # PodOf[c] => registry'[p] = registry[p]
  BY <1>1 DEF IInv, TypeOK
<1>3. \A d \in Conns : Acquired(d) /\ d # c => Gen(d) # Gen(c)
  BY <1>1 DEF IInv, Ownership, OneAcquirer
<1>4. OneAcquirer'
  BY DEF IInv, Ownership, OneAcquirer, Acquired, Gen
<1>5. Counted'
  BY <1>1, <1>2 DEF IInv, Ownership, Counted
<1>6. NotYetSpawned'
  BY <1>2, <1>3 DEF IInv, Ownership, NotYetSpawned, Acquired, Gen, Early
<1>7. Spawned'
  BY DEF IInv, Ownership, Spawned, Gen
<1>8. InsertReady'
  BY <1>2, <1>3, Gens DEF IInv, Ownership, InsertReady, Acquired, Gen
<1>9. RegistryLive'
  <2> SUFFICES ASSUME NEW p \in Pods, registry'[p] # 0
               PROVE  /\ renewer[registry'[p]].pod = p /\ ~renewer[registry'[p]].cancel
                      /\ renewer[registry'[p]].at = "running" \/ renewer[registry'[p]].lost
    BY DEF RegistryLive
  <2>1. CASE p = PodOf[c]
    BY <1>2, <2>1 DEF IInv, Ownership, Spawned, InsertReady
  <2>2. CASE p # PodOf[c]
    BY <1>2, <2>2 DEF IInv, Ownership, RegistryLive
  <2>3. QED
    BY <2>1, <2>2
<1>10. DrainedEntry'
  <2> SUFFICES ASSUME NEW p \in Pods, drain[p] = "done", registry'[p] # 0
               PROVE  \E d \in Conns : conn'[d].at = "recheck" /\ PodOf[d] = p /\ conn'[d].generation = registry'[p]
    BY DEF DrainedEntry, Gen
  <2>1. CASE p = PodOf[c]
    BY <1>2, <2>1
  <2>2. CASE p # PodOf[c]
    BY <1>2, <2>2 DEF IInv, Ownership, DrainedEntry, Gen
  <2>3. QED
    BY <2>1, <2>2
<1>11. ASSUME NoSlowJoin' PROVE OneInsert' /\ KnownRenewer' /\ EarlyHolds'
  <2>1. OneInsert /\ KnownRenewer /\ EarlyHolds
    BY <1>11 DEF NoSlowJoin, IInv, Ownership
  <2>2. OneInsert'
    BY <1>2, <2>1, Gens DEF OneInsert
  <2>3. KnownRenewer'
    <3> SUFFICES ASSUME NEW g \in Generations, renewer[g].at = "running", ~renewer[g].cancel
                 PROVE  \/ registry'[renewer[g].pod] = g
                        \/ \E d \in Conns : conn'[d].at = "insert" /\ conn'[d].generation = g
      BY DEF KnownRenewer, Step
    <3>1. renewer[g].pod \in Pods /\ renewer[Gen(c)].pod = PodOf[c] /\ registry[PodOf[c]] = 0
      BY <2>1 DEF IInv, Ownership, Counted, Spawned, OneInsert
    <3>2. CASE registry[renewer[g].pod] = g
      BY <1>2, <3>1, <3>2 DEF Generations
    <3>3. CASE \E d \in Conns : conn[d].at = "insert" /\ conn[d].generation = g
      BY <1>2, <3>1, <3>3 DEF Gen
    <3>4. QED
      BY <2>1, <3>2, <3>3 DEF KnownRenewer, Step
  <2>4. EarlyHolds'
    BY <2>1 DEF EarlyHolds, Acquired, Gen, Lease, Early
  <2>5. QED
    BY <2>2, <2>3, <2>4
<1>12. OnlyLateLose'
  BY DEF IInv, Ownership, OnlyLateLose, Holds, Lease
<1>13. QED
  BY <1>4, <1>5, <1>6, <1>7, <1>8, <1>9, <1>10, <1>11, <1>12 DEF Ownership

LEMMA AttachInsertStep == ASSUME IInv, NEW c \in Conns, AttachInsert(c) PROVE IInv'
<1> DEFINE s == [conn[c] EXCEPT !.at = "recheck"]
<1>1. /\ UNCHANGED <<lease, generation, renewer, drain, rooms, current, archived, stalls, slow, errors>>
      /\ registry' = [registry EXCEPT ![PodOf[c]] = Gen(c)] /\ conn[c].at = "insert"
      /\ Goto(c, "recheck")
  BY DEF AttachInsert, Step, redis, halls, faults, Gen
<1>2. conn' = [conn EXCEPT ![c] = s]
  BY <1>1, Rows DEF Goto
<1>3. conn[c] \in ConnState(Len(rooms)) /\ Acquired(c)
  BY <1>1, Rows, Gens
<1>4. /\ s \in ConnState(Len(rooms)) /\ s.acquired = conn[c].acquired /\ s.generation = Gen(c)
      /\ s.owner = conn[c].owner /\ s.host = conn[c].host /\ s.at = "recheck"
  BY <1>3 DEF ConnState, At, Gen
<1> HIDE DEF s
<1>5. Moves(c, s)
  BY <1>1, <1>2, <1>3, <1>4, Rows DEF Moves, KnowsOwner, Acquired, Gen
<1>6. HallsOK /\ generation \in Int
  BY <1>1, HallsStay DEF IInv, TypeOK
<1>7. /\ conn' \in [Conns -> ConnState(Len(rooms'))] /\ OwnerKnown'
      /\ conn'[c] = s /\ \A d \in Conns : d # c => conn'[d] = conn[d]
  BY <1>1, <1>5, <1>6, Moved
<1>8. Ownership'
  BY <1>1, <1>4, <1>7, AttachInsertKeeps
<1>9. registry' \in [Pods -> 0..MaxGenerations]
  BY <1>1, Gens DEF IInv, TypeOK
<1>10. TypeOK'
  BY <1>1, <1>7, <1>9 DEF IInv, TypeOK
<1>11. QED
  BY <1>7, <1>8, <1>10 DEF IInv

\* An entry is retracted from the registry of a pod, and its renewer is told to
\* release.  Only that pod can have the entry.
LEMMA RevokeKeeps ==
  ASSUME IInv, UNCHANGED <<lease, generation, stalls, slow>>, Calm,
         NEW p \in Pods, NEW g \in Generations,
         \A h \in Generations : h # g => renewer'[h] = renewer[h],
         renewer'[g].at = renewer[g].at, renewer'[g].pod = renewer[g].pod,
         renewer'[g].lost = renewer[g].lost, renewer'[g].cancel,
         registry'[p] = IF registry[p] = g THEN 0 ELSE registry[p],
         \A q \in Pods : q # p => registry'[q] = registry[q] /\ registry[q] # g,
         \A d \in Conns : conn[d].at = "insert" => Gen(d) # g,
         \A q \in Pods : drain'[q] = "done" => drain[q] = "done" \/ registry'[q] = 0
  PROVE  Ownership'
<1>1. \A q \in Pods : registry'[q] # 0 => registry'[q] = registry[q] /\ registry[q] # g
  OBVIOUS
<1>2. \A q \in Pods : registry'[q] # 0 => registry'[q] \in Generations
  BY <1>1, Gens DEF Generations
<1>3. \A h \in Generations : /\ renewer'[h].at = renewer[h].at /\ renewer'[h].pod = renewer[h].pod
                             /\ renewer'[h].lost = renewer[h].lost
  OBVIOUS
<1>4. OneAcquirer'
  BY DEF Calm, IInv, Ownership, OneAcquirer, Acquired, Gen
<1>5. Counted'
  BY <1>3, Gens DEF IInv, Ownership, Counted
<1>6. NotYetSpawned'
  <2> SUFFICES ASSUME NEW d \in Conns, Acquired(d), conn[d].at \in Early
               PROVE  renewer'[Gen(d)].at = "none" /\ \A q \in Pods : registry'[q] # Gen(d)
    BY DEF Calm, NotYetSpawned, Acquired, Gen
  <2>1. Gen(d) \in Generations /\ Gen(d) # 0
    BY Gens DEF Generations
  <2>2. QED
    BY <1>1, <1>3, <2>1 DEF IInv, Ownership, NotYetSpawned
<1>7. Spawned'
  <2> SUFFICES ASSUME NEW d \in Conns, conn[d].at \in {"insert", "recheck"}
               PROVE  renewer'[Gen(d)].pod = PodOf[d] /\ renewer'[Gen(d)].at # "none"
    BY DEF Calm, Spawned, Gen
  <2>1. Gen(d) \in Generations
    BY Gens
  <2>2. QED
    BY <1>3, <2>1 DEF IInv, Ownership, Spawned
<1>8. InsertReady'
  <2> SUFFICES ASSUME NEW d \in Conns, conn[d].at = "insert"
               PROVE  /\ ~renewer'[Gen(d)].cancel
                      /\ renewer'[Gen(d)].at = "running" \/ renewer'[Gen(d)].lost
                      /\ \A q \in Pods : registry'[q] # Gen(d)
    BY DEF Calm, InsertReady, Gen
  <2>1. Gen(d) \in Generations /\ Gen(d) # g /\ Gen(d) # 0
    BY Gens DEF Generations
  <2>2. QED
    BY <1>1, <2>1 DEF IInv, Ownership, InsertReady
<1>9. RegistryLive'
  BY <1>1, <1>2 DEF IInv, Ownership, RegistryLive
<1>10. DrainedEntry'
  <2> SUFFICES ASSUME NEW q \in Pods, drain'[q] = "done", registry'[q] # 0
               PROVE  \E d \in Conns : conn'[d].at = "recheck" /\ PodOf[d] = q /\ conn'[d].generation = registry'[q]
    BY DEF DrainedEntry, Gen
  <2>1. PICK d \in Conns : conn[d].at = "recheck" /\ PodOf[d] = q /\ Gen(d) = registry[q]
    BY <1>1 DEF IInv, Ownership, DrainedEntry
  <2>2. conn'[d] = conn[d]
    BY <1>1, <2>1 DEF Calm
  <2>3. QED
    BY <1>1, <2>1, <2>2 DEF Gen
<1>11. ASSUME NoSlowJoin' PROVE OneInsert' /\ KnownRenewer' /\ EarlyHolds'
  <2>1. OneInsert /\ KnownRenewer /\ EarlyHolds
    BY <1>11 DEF NoSlowJoin, IInv, Ownership
  <2>2. OneInsert'
    BY <1>1, <2>1, Gens DEF OneInsert, Calm
  <2>3. KnownRenewer'
    <3> SUFFICES ASSUME NEW h \in Generations, renewer'[h].at = "running", ~renewer'[h].cancel
                 PROVE  \/ registry'[renewer'[h].pod] = h
                        \/ \E d \in Conns : conn'[d].at = "insert" /\ conn'[d].generation = h
      BY DEF KnownRenewer, Step
    <3>1. h # g /\ renewer'[h] = renewer[h]
      OBVIOUS
    <3>2. renewer[h].pod \in Pods
      BY <3>1 DEF IInv, Ownership, Counted
    <3>3. CASE registry[renewer[h].pod] = h
      BY <3>1, <3>2, <3>3
    <3>4. CASE \E d \in Conns : conn[d].at = "insert" /\ conn[d].generation = h
      BY <3>4 DEF Calm
    <3>5. QED
      BY <2>1, <3>1, <3>3, <3>4 DEF KnownRenewer, Step
  <2>4. EarlyHolds'
    BY <2>1 DEF Calm, EarlyHolds, Acquired, Gen, Lease
  <2>5. QED
    BY <2>2, <2>3, <2>4
<1>12. OnlyLateLose'
  BY <1>3 DEF IInv, Ownership, OnlyLateLose, Holds, Lease
<1>13. QED
  BY <1>4, <1>5, <1>6, <1>7, <1>8, <1>9, <1>10, <1>11, <1>12 DEF Ownership

\* How Retract and the second check edit a renewer.
LEMMA Revoked ==
  ASSUME IInv, NEW g \in Generations, NEW told \in BOOLEAN,
         renewer' = [renewer EXCEPT ![g].cancel = TRUE, ![g].draining = told]
  PROVE  /\ renewer' \in [Generations -> RenewerState]
         /\ \A h \in Generations : h # g => renewer'[h] = renewer[h]
         /\ renewer'[g].at = renewer[g].at /\ renewer'[g].pod = renewer[g].pod
         /\ renewer'[g].lost = renewer[g].lost /\ renewer'[g].cancel
<1>1. renewer \in [Generations -> RenewerState] /\ renewer[g] \in RenewerState
  BY DEF IInv, TypeOK
<1>2. /\ renewer'[g] = [renewer[g] EXCEPT !.cancel = TRUE, !.draining = told]
      /\ \A h \in Generations : h # g => renewer'[h] = renewer[h]
      /\ renewer' = [h \in Generations |-> renewer'[h]]
  BY <1>1
<1>3. /\ renewer'[g] \in RenewerState /\ renewer'[g].at = renewer[g].at
      /\ renewer'[g].pod = renewer[g].pod
      /\ renewer'[g].lost = renewer[g].lost /\ renewer'[g].cancel
  BY <1>1, <1>2 DEF RenewerState
<1>4. \A h \in Generations : renewer'[h] \in RenewerState
  BY <1>1, <1>2, <1>3
<1>5. QED
  BY <1>2, <1>3, <1>4

LEMMA RetractIs ==
  ASSUME IInv, NEW p \in Pods, NEW tell \in BOOLEAN, registry[p] # 0, Retract(p, registry[p], tell)
  PROVE  /\ registry[p] \in Generations /\ registry' \in [Pods -> 0..MaxGenerations]
         /\ registry'[p] = 0 /\ \A q \in Pods : q # p => registry'[q] = registry[q] /\ registry[q] # registry[p]
         /\ \A d \in Conns : conn[d].at = "insert" => Gen(d) # registry[p]
         /\ renewer' \in [Generations -> RenewerState]
         /\ \A h \in Generations : h # registry[p] => renewer'[h] = renewer[h]
         /\ renewer'[registry[p]].at = renewer[registry[p]].at
         /\ renewer'[registry[p]].pod = renewer[registry[p]].pod
         /\ renewer'[registry[p]].lost = renewer[registry[p]].lost /\ renewer'[registry[p]].cancel
<1> DEFINE g == registry[p]
<1>1. g \in Generations /\ MaxGenerations \in Nat
  BY Gens DEF Generations
<1>2. renewer[g].draining \in BOOLEAN
  BY <1>1, Gens DEF RenewerState
<1>3. (renewer[g].draining \/ tell) \in BOOLEAN
  BY <1>2
<1>4. /\ registry' = [registry EXCEPT ![p] = 0]
      /\ renewer' = [renewer EXCEPT ![g].cancel = TRUE, ![g].draining = renewer[g].draining \/ tell]
  BY DEF Retract
<1>5. \A q \in Pods : q # p => registry[q] # g
  BY DEF IInv, Ownership, RegistryLive
<1>6. \A d \in Conns : conn[d].at = "insert" => Gen(d) # g
  BY DEF IInv, Ownership, InsertReady
<1>7. /\ registry' \in [Pods -> 0..MaxGenerations] /\ registry'[p] = 0
      /\ \A q \in Pods : q # p => registry'[q] = registry[q]
  BY <1>1, <1>4 DEF IInv, TypeOK
<1> HIDE DEF g
<1>8. /\ renewer' \in [Generations -> RenewerState]
      /\ \A h \in Generations : h # g => renewer'[h] = renewer[h]
      /\ renewer'[g].at = renewer[g].at /\ renewer'[g].pod = renewer[g].pod
      /\ renewer'[g].lost = renewer[g].lost /\ renewer'[g].cancel
  BY <1>1, <1>3, <1>4, Revoked
<1>9. QED
  BY <1>1, <1>5, <1>6, <1>7, <1>8 DEF g

LEMMA ReleaseStep == ASSUME IInv, NEW c \in Conns, Release(c) PROVE IInv'
<1>1. /\ UNCHANGED <<lease, generation, drain, rooms, current, archived, stalls, slow, errors>>
      /\ conn[c].at = "release" /\ Become(c, Gone) /\ Retract(PodOf[c], Gen(c), FALSE)
  BY DEF Release, Step, redis, halls, faults, Gen
<1>2. HallsOK /\ archived' \in BOOLEAN /\ errors' \in 0..MaxErrors /\ generation \in Int
      /\ PodOf[c] \in Pods /\ MaxGenerations \in Nat
  BY <1>1, HallsStay, Rows, HuddleConstants DEF IInv, TypeOK
<1>3. CASE registry[PodOf[c]] # Gen(c)
  <2>1. Untouched
    BY <1>1, <1>3 DEF Retract, Untouched
  <2>2. QED
    BY <1>1, <1>2, <2>1, GoneStep
<1>4. CASE registry[PodOf[c]] = Gen(c) /\ Gen(c) = 0
  <2>1. Untouched
    <3>1. registry' = registry
      BY <1>1, <1>4 DEF Retract, IInv, TypeOK
    <3>2. renewer' = renewer
      BY <1>1, <1>2, <1>4 DEF Retract, IInv, TypeOK, Generations
    <3>3. QED
      BY <1>1, <3>1, <3>2 DEF Untouched
  <2>2. QED
    BY <1>1, <1>2, <2>1, GoneStep
<1>5. CASE registry[PodOf[c]] = Gen(c) /\ Gen(c) # 0
  <2> DEFINE p == PodOf[c]
             g == registry[p]
  <2>1. /\ g \in Generations /\ registry' \in [Pods -> 0..MaxGenerations]
        /\ registry'[p] = 0 /\ \A q \in Pods : q # p => registry'[q] = registry[q] /\ registry[q] # g
        /\ \A d \in Conns : conn[d].at = "insert" => Gen(d) # g
        /\ renewer' \in [Generations -> RenewerState]
        /\ \A h \in Generations : h # g => renewer'[h] = renewer[h]
        /\ renewer'[g].at = renewer[g].at /\ renewer'[g].pod = renewer[g].pod
        /\ renewer'[g].lost = renewer[g].lost /\ renewer'[g].cancel
    BY <1>1, <1>2, <1>5, RetractIs
  <2>2. "gone" \in At /\ Len(rooms) \in Nat
    BY Rows DEF At
  <2>3. Gone \in ConnState(Len(rooms)) /\ Gone.at = "gone" /\ Gone.acquired = FALSE /\ Gone.host = 0
    BY <2>2, Blank DEF Gone
  <2>4. Moves(c, Gone)
    BY <1>1, <2>3 DEF Moves, KnowsOwner, Become
  <2>5. /\ conn' \in [Conns -> ConnState(Len(rooms'))] /\ OwnerKnown'
        /\ conn'[c] = Gone /\ \A d \in Conns : d # c => conn'[d] = conn[d]
    BY <1>1, <1>2, <2>4, Moved
  <2>6. Calm
    BY <1>1, <2>3, <2>5, AsideIsCalm DEF Aside
  <2>7. Ownership'
    <3> HIDE DEF p, g
    <3>1. p \in Pods /\ registry'[p] = (IF registry[p] = g THEN 0 ELSE registry[p])
      BY <1>2, <2>1 DEF p, g
    <3>2. \A q \in Pods : drain'[q] = "done" => drain[q] = "done" \/ registry'[q] = 0
      BY <1>1
    <3>3. QED
      BY <1>1, <2>1, <2>6, <3>1, <3>2, RevokeKeeps
  <2>8. TypeOK'
    BY <1>1, <2>1, <2>5 DEF IInv, TypeOK
  <2>9. QED
    BY <2>5, <2>7, <2>8 DEF IInv
<1>6. QED
  BY <1>3, <1>4, <1>5

\* A drain moves on; connections and leases are as they were.
LEMMA DrainKeeps ==
  ASSUME IInv, UNCHANGED <<lease, generation, renewer, registry, conn, stalls, slow>>,
         \A q \in Pods : drain'[q] = "done" => drain[q] = "done" \/ registry[q] = 0
  PROVE  Ownership'
<1>1. OneAcquirer' /\ Counted' /\ NotYetSpawned' /\ Spawned' /\ InsertReady' /\ RegistryLive'
  BY DEF IInv, Ownership, OneAcquirer, Counted, NotYetSpawned, Spawned, InsertReady, RegistryLive, Acquired, Gen
<1>2. DrainedEntry'
  BY DEF IInv, Ownership, DrainedEntry, Gen
<1>3. NoSlowJoin' => OneInsert' /\ KnownRenewer' /\ EarlyHolds'
  BY DEF NoSlowJoin, IInv, Ownership, OneInsert, KnownRenewer, EarlyHolds, Acquired, Gen, Lease, Step
<1>4. OnlyLateLose'
  BY DEF IInv, Ownership, OnlyLateLose, Holds, Lease
<1>5. QED
  BY <1>1, <1>2, <1>3, <1>4 DEF Ownership

LEMMA DrainFlagStep == ASSUME IInv, NEW p \in Pods, DrainFlag(p) PROVE IInv'
<1>1. /\ UNCHANGED <<lease, generation, renewer, registry, conn, rooms, current, archived, stalls, slow, errors>>
      /\ drain' = [drain EXCEPT ![p] = "flagged"]
  BY DEF DrainFlag, redis, halls, faults
<1>2. drain' \in [Pods -> {"no", "flagged", "done"}] /\ \A q \in Pods : drain'[q] = "done" => drain[q] = "done"
  BY <1>1 DEF IInv, TypeOK
<1>3. TypeOK'
  BY <1>1, <1>2 DEF IInv, TypeOK
<1>4. QED
  BY <1>1, <1>2, <1>3, Stays, DrainKeeps DEF IInv

LEMMA DrainEntriesStep == ASSUME IInv, NEW p \in Pods, DrainEntries(p) PROVE IInv'
<1>1. /\ UNCHANGED <<lease, generation, conn, rooms, current, archived, stalls, slow, errors>>
      /\ drain' = [drain EXCEPT ![p] = "done"]
  BY DEF DrainEntries, redis, halls, faults
<1>2. drain' \in [Pods -> {"no", "flagged", "done"}] /\ \A q \in Pods : q # p => drain'[q] = drain[q]
  BY <1>1 DEF IInv, TypeOK
<1>3. CASE registry[p] = 0
  <2>1. UNCHANGED <<registry, renewer>>
    BY <1>3 DEF DrainEntries
  <2>2. TypeOK'
    BY <1>1, <1>2, <2>1 DEF IInv, TypeOK
  <2>3. QED
    BY <1>1, <1>2, <1>3, <2>1, <2>2, Stays, DrainKeeps DEF IInv
<1>4. CASE registry[p] # 0
  <2> DEFINE g == registry[p]
  <2>1. Retract(p, registry[p], TRUE)
    BY <1>4 DEF DrainEntries
  <2>2. /\ g \in Generations /\ registry' \in [Pods -> 0..MaxGenerations]
        /\ registry'[p] = 0 /\ \A q \in Pods : q # p => registry'[q] = registry[q] /\ registry[q] # g
        /\ \A d \in Conns : conn[d].at = "insert" => Gen(d) # g
        /\ renewer' \in [Generations -> RenewerState]
        /\ \A h \in Generations : h # g => renewer'[h] = renewer[h]
        /\ renewer'[g].at = renewer[g].at /\ renewer'[g].pod = renewer[g].pod
        /\ renewer'[g].lost = renewer[g].lost /\ renewer'[g].cancel
    BY <1>4, <2>1, RetractIs
  <2>3. Calm
    BY <1>1 DEF Calm
  <2>4. Ownership'
    <3>1. registry'[p] = (IF registry[p] = g THEN 0 ELSE registry[p])
      BY <2>2
    <3>2. \A q \in Pods : drain'[q] = "done" => drain[q] = "done" \/ registry'[q] = 0
      BY <1>2, <2>2
    <3> HIDE DEF g
    <3>3. QED
      BY <1>1, <2>2, <2>3, <3>1, <3>2, RevokeKeeps
  <2>5. TypeOK'
    BY <1>1, <1>2, <2>2 DEF IInv, TypeOK
  <2>6. QED
    BY <1>1, <2>4, <2>5, Stays DEF IInv
<1>5. QED
  BY <1>3, <1>4

LEMMA AttachRecheckStep == ASSUME IInv, NEW c \in Conns, AttachRecheck(c) PROVE IInv'
<1> DEFINE s == [conn[c] EXCEPT !.at = "joined", !.watch = conn[c].generation,
                                !.drains = conn[c].generation]
           p == PodOf[c]
           g == Gen(c)
<1>1. /\ UNCHANGED <<lease, generation, drain, rooms, current, archived, stalls, slow, errors>>
      /\ conn[c].at = "recheck" /\ conn' = [conn EXCEPT ![c] = s]
  BY DEF AttachRecheck, Step, redis, halls, faults, Become, Watching
<1>2. conn[c] \in ConnState(Len(rooms)) /\ Acquired(c) /\ p \in Pods /\ g \in Generations /\ MaxGenerations \in Nat
  BY <1>1, Rows, Gens
<1>3. /\ s \in ConnState(Len(rooms)) /\ s.acquired = conn[c].acquired /\ s.generation = g
      /\ s.owner = conn[c].owner /\ s.host = conn[c].host /\ s.at = "joined"
  BY <1>2 DEF ConnState, At, Gen
<1> HIDE DEF s
<1>4. Moves(c, s)
  BY <1>1, <1>2, <1>3, Rows DEF Moves, KnowsOwner, Acquired, Gen, Late
<1>5. HallsOK /\ generation \in Int
  BY <1>1, HallsStay DEF IInv, TypeOK
<1>6. /\ conn' \in [Conns -> ConnState(Len(rooms'))] /\ OwnerKnown'
      /\ conn'[c] = s /\ \A d \in Conns : d # c => conn'[d] = conn[d]
  BY <1>1, <1>4, <1>5, Moved
<1>7. ASSUME drain'[p] # "done" \/ registry'[p] # g
      PROVE  Calm
  BY <1>1, <1>3, <1>6, <1>7 DEF Calm, Gen, Early
<1>8. CASE ~is_draining(p)
  <2>1. UNCHANGED <<registry, renewer>> /\ drain[p] # "done"
    BY <1>8 DEF AttachRecheck, is_draining
  <2>2. Untouched
    BY <1>1, <2>1 DEF Untouched
  <2>3. Ownership'
    BY <1>1, <1>7, <2>1, <2>2, CalmKeeps
  <2>4. TypeOK'
    BY <1>1, <1>6, <2>1 DEF IInv, TypeOK
  <2>5. QED
    BY <1>6, <2>3, <2>4 DEF IInv
<1>9. CASE is_draining(p)
  <2>1. /\ registry' = [registry EXCEPT ![p] = IF @ = g THEN 0 ELSE @]
        /\ renewer' = [renewer EXCEPT ![g].cancel = TRUE, ![g].draining = TRUE]
    BY <1>9 DEF AttachRecheck, Gen
  <2>2. /\ renewer' \in [Generations -> RenewerState]
        /\ \A h \in Generations : h # g => renewer'[h] = renewer[h]
        /\ renewer'[g].at = renewer[g].at /\ renewer'[g].pod = renewer[g].pod
        /\ renewer'[g].lost = renewer[g].lost /\ renewer'[g].cancel
    <3> HIDE DEF g
    <3>1. QED
      BY <1>2, <2>1, Revoked
  <2>3. /\ registry' \in [Pods -> 0..MaxGenerations]
        /\ registry'[p] = IF registry[p] = g THEN 0 ELSE registry[p]
        /\ \A q \in Pods : q # p => registry'[q] = registry[q]
    BY <1>2, <2>1 DEF IInv, TypeOK
  <2>4. \A q \in Pods : q # p => registry[q] # g
    BY <1>1, <1>2 DEF IInv, Ownership, RegistryLive, Spawned, Generations
  <2>5. \A d \in Conns : conn[d].at = "insert" => Gen(d) # g
    BY <1>1, <1>2, Gens DEF IInv, Ownership, OneAcquirer
  <2>6. Calm
    BY <1>2, <1>7, <2>3 DEF Generations
  <2>7. Ownership'
    <3> HIDE DEF g, p
    <3>1. \A q \in Pods : drain'[q] = "done" => drain[q] = "done" \/ registry'[q] = 0
      BY <1>1
    <3>2. QED
      BY <1>1, <1>2, <2>2, <2>3, <2>4, <2>5, <2>6, <3>1, RevokeKeeps
  <2>8. TypeOK'
    BY <1>1, <1>6, <2>2, <2>3 DEF IInv, TypeOK
  <2>9. QED
    BY <1>6, <2>7, <2>8 DEF IInv
<1>10. QED
  BY <1>8, <1>9

-----------------------------------------------------------------------------
(* A renewer ends *)

LEMMA StopKeeps ==
  ASSUME IInv, UNCHANGED <<generation, registry, drain, conn, stalls, slow>>,
         NEW g \in Generations, renewer[g].at \in {"running", "releasing"},
         NEW r, renewer'[g] = r, r.at \in {"releasing", "done"}, r.pod = renewer[g].pod,
         r.cancel = renewer[g].cancel, renewer[g].lost => r.lost,
         renewer[g].at = "running" => r.lost \/ r.cancel,
         \A h \in Generations : h # g => renewer'[h] = renewer[h],
         lease' = lease \/ (lease' = None /\ Holds(g))
  PROVE  Ownership'
<1>1. OneAcquirer' /\ DrainedEntry'
  BY DEF IInv, Ownership, OneAcquirer, DrainedEntry, Acquired, Gen
<1>2. Counted'
  BY DEF IInv, Ownership, Counted
<1>3. NotYetSpawned'
  <2> SUFFICES ASSUME NEW d \in Conns, Acquired(d), conn[d].at \in Early
               PROVE  renewer'[Gen(d)].at = "none" /\ \A q \in Pods : registry[q] # Gen(d)
    BY DEF NotYetSpawned, Acquired, Gen
  <2>1. Gen(d) \in Generations /\ renewer[Gen(d)].at = "none" /\ \A q \in Pods : registry[q] # Gen(d)
    BY Gens DEF IInv, Ownership, NotYetSpawned
  <2>2. QED
    BY <2>1
<1>4. Spawned'
  <2> SUFFICES ASSUME NEW d \in Conns, conn[d].at \in {"insert", "recheck"}
               PROVE  renewer'[Gen(d)].pod = PodOf[d] /\ renewer'[Gen(d)].at # "none"
    BY DEF Spawned, Gen
  <2>1. Gen(d) \in Generations
    BY Gens
  <2>2. QED
    BY <2>1 DEF IInv, Ownership, Spawned
<1>5. \A h \in Generations : ~renewer[h].cancel /\ (renewer[h].at = "running" \/ renewer[h].lost)
        => ~renewer'[h].cancel /\ (renewer'[h].at = "running" \/ renewer'[h].lost)
  OBVIOUS
<1>6. InsertReady'
  <2> SUFFICES ASSUME NEW d \in Conns, conn[d].at = "insert"
               PROVE  /\ ~renewer'[Gen(d)].cancel
                      /\ renewer'[Gen(d)].at = "running" \/ renewer'[Gen(d)].lost
                      /\ \A q \in Pods : registry[q] # Gen(d)
    BY DEF InsertReady, Gen
  <2>1. Gen(d) \in Generations
    BY Gens
  <2>2. QED
    BY <1>5, <2>1 DEF IInv, Ownership, InsertReady
<1>7. RegistryLive'
  <2>1. \A q \in Pods : registry[q] # 0 => registry[q] \in Generations
    BY Gens DEF Generations
  <2>2. QED
    BY <1>5, <2>1 DEF IInv, Ownership, RegistryLive
<1>8. ASSUME NoSlowJoin' PROVE OneInsert' /\ KnownRenewer' /\ EarlyHolds'
  <2>1. OneInsert /\ KnownRenewer /\ EarlyHolds
    BY <1>8 DEF NoSlowJoin, IInv, Ownership
  <2>2. OneInsert' /\ KnownRenewer'
    BY <2>1 DEF OneInsert, KnownRenewer, Step
  <2>3. EarlyHolds'
    <3> SUFFICES ASSUME NEW d \in Conns, Acquired(d), conn[d].at \in Early
                 PROVE  lease' = Lease(PodOf[d], Gen(d))
      BY DEF EarlyHolds, Acquired, Gen, Lease
    <3>1. lease = Lease(PodOf[d], Gen(d)) /\ renewer[Gen(d)].at = "none"
      BY <2>1 DEF EarlyHolds, IInv, Ownership, NotYetSpawned
    <3>2. ~Holds(g)
      BY <3>1, Leases DEF Holds
    <3>3. QED
      BY <3>1, <3>2
  <2>4. QED
    BY <2>2, <2>3
<1>9. OnlyLateLose'
  <2> SUFFICES ASSUME stalls = MaxStalls, slow = MaxSlowJoins, NEW h \in Generations, renewer'[h].at = "running"
               PROVE  lease' = Lease(renewer'[h].pod, h)
    BY DEF OnlyLateLose, Holds, Lease
  <2>1. h # g /\ renewer'[h] = renewer[h] /\ lease = Lease(renewer[h].pod, h)
    BY DEF IInv, Ownership, OnlyLateLose, Holds
  <2>2. ~Holds(g)
    BY <2>1, Leases DEF Holds
  <2>3. QED
    BY <2>1, <2>2
<1>10. QED
  BY <1>1, <1>2, <1>3, <1>4, <1>6, <1>7, <1>8, <1>9 DEF Ownership

\* The renewer of g becomes r, which is none that renews.
Stops(g, r) ==
  /\ renewer' = [renewer EXCEPT ![g] = r]
  /\ r \in RenewerState /\ renewer[g].at \in {"running", "releasing"}
  /\ r.at \in {"releasing", "done"} /\ r.pod = renewer[g].pod
  /\ r.cancel = renewer[g].cancel /\ (renewer[g].lost => r.lost)
  /\ renewer[g].at = "running" => r.lost \/ r.cancel

LEMMA StopStep ==
  ASSUME IInv, UNCHANGED <<generation, registry, drain, conn, rooms, current, archived, stalls, slow>>,
         errors' \in 0..MaxErrors, NEW g \in Generations, NEW r, Stops(g, r),
         lease' = lease \/ (lease' = None /\ Holds(g))
  PROVE  IInv'
<1>1. /\ renewer' \in [Generations -> RenewerState] /\ renewer'[g] = r
      /\ \A h \in Generations : h # g => renewer'[h] = renewer[h]
  BY DEF IInv, TypeOK, Stops
<1>2. TypeOK'
  BY <1>1 DEF IInv, TypeOK
<1>3. Ownership'
  BY <1>1, StopKeeps DEF Stops
<1>4. QED
  BY <1>2, <1>3, Stays DEF IInv

LEMMA RenewLostStep == ASSUME IInv, NEW g \in Generations, RenewLost(g) PROVE IInv'
<1> DEFINE r == [renewer[g] EXCEPT !.at = "releasing", !.lost = TRUE]
<1>1. /\ UNCHANGED <<lease, generation, registry, drain, conn, rooms, current, archived, stalls, slow>>
      /\ errors' \in 0..MaxErrors /\ renewer[g].at = "running"
  BY HuddleConstants DEF RenewLost, redis, halls, IInv, TypeOK
<1>2. renewer' = [renewer EXCEPT ![g] = r]
  BY DEF RenewLost, IInv, TypeOK
<1>3. renewer[g] \in RenewerState
  BY Gens
<1>4. Stops(g, r)
  BY <1>1, <1>2, <1>3 DEF Stops, RenewerState
<1> HIDE DEF r
<1>5. QED
  BY <1>1, <1>4, StopStep

LEMMA RenewCancelledStep == ASSUME IInv, NEW g \in Generations, RenewCancelled(g) PROVE IInv'
<1> DEFINE r == [renewer[g] EXCEPT !.at = "releasing"]
<1>1. /\ UNCHANGED <<lease, generation, registry, drain, conn, rooms, current, archived, stalls, slow>>
      /\ errors' \in 0..MaxErrors /\ renewer[g].at = "running" /\ renewer[g].cancel
  BY DEF RenewCancelled, redis, halls, faults, IInv, TypeOK
<1>2. renewer' = [renewer EXCEPT ![g] = r]
  BY DEF RenewCancelled, IInv, TypeOK
<1>3. renewer[g] \in RenewerState
  BY Gens
<1>4. Stops(g, r)
  BY <1>1, <1>2, <1>3 DEF Stops, RenewerState
<1> HIDE DEF r
<1>5. QED
  BY <1>1, <1>4, StopStep

LEMMA ReleaseLeaseStep == ASSUME IInv, NEW g \in Generations, ReleaseLease(g) PROVE IInv'
<1>1. /\ UNCHANGED <<generation, registry, drain, conn, rooms, current, archived, stalls, slow>>
      /\ renewer[g].at = "releasing"
  BY DEF ReleaseLease, halls
<1>2. errors' \in 0..MaxErrors
  BY HuddleConstants, SMTT(40) DEF ReleaseLease, IInv, TypeOK
<1>3. lease' = lease \/ (lease' = None /\ Holds(g))
  BY DEF ReleaseLease
<1>4. renewer[g] \in RenewerState /\ renewer \in [Generations -> RenewerState]
  BY Gens DEF IInv, TypeOK
<1>5. PICK lost \in BOOLEAN : /\ renewer' = [renewer EXCEPT ![g] = [renewer[g] EXCEPT !.at = "done", !.lost = lost]]
                              /\ renewer[g].lost => lost
  <2>1. CASE renewer' = [renewer EXCEPT ![g].at = "done"]
    <3>1. renewer[g].lost \in BOOLEAN
      BY <1>4 DEF RenewerState
    <3>2. [renewer[g] EXCEPT !.at = "done"] = [renewer[g] EXCEPT !.at = "done", !.lost = renewer[g].lost]
      BY <1>4 DEF RenewerState
    <3>3. renewer' = [renewer EXCEPT ![g] = [renewer[g] EXCEPT !.at = "done", !.lost = renewer[g].lost]]
      BY <1>4, <2>1, <3>2
    <3>4. QED
      BY <3>1, <3>3
  <2>2. CASE renewer' = [renewer EXCEPT ![g].at = "done", ![g].lost = TRUE]
    <3>1. renewer' = [renewer EXCEPT ![g] = [renewer[g] EXCEPT !.at = "done", !.lost = TRUE]]
      BY <1>4, <2>2
    <3>2. QED
      BY <3>1
  <2>3. CASE renewer' = [renewer EXCEPT ![g].at = "done", ![g].lost = @ \/ ~renewer[g].cancel]
    <3>1. (renewer[g].lost \/ ~renewer[g].cancel) \in BOOLEAN
      OBVIOUS
    <3>2. renewer' = [renewer EXCEPT ![g] = [renewer[g] EXCEPT !.at = "done", !.lost = renewer[g].lost \/ ~renewer[g].cancel]]
      BY <1>4, <2>3
    <3>3. QED
      BY <3>1, <3>2
  <2>4. QED
    BY <2>1, <2>2, <2>3 DEF ReleaseLease
<1> DEFINE r == [renewer[g] EXCEPT !.at = "done", !.lost = lost]
<1>6. r \in RenewerState /\ r.at = "done" /\ r.pod = renewer[g].pod /\ r.cancel = renewer[g].cancel /\ r.lost = lost
  BY <1>4 DEF RenewerState
<1>7. Stops(g, r)
  BY <1>1, <1>5, <1>6 DEF Stops
<1> HIDE DEF r
<1>8. QED
  BY <1>1, <1>2, <1>3, <1>7, StopStep

-----------------------------------------------------------------------------
(* The theorems *)

LEMMA InitHolds == Init => IInv
<1> SUFFICES ASSUME Init PROVE IInv
  OBVIOUS
<1> USE DEF Init
<1>1. NewConn \in ConnState(0) /\ NewConn.at = "new" /\ NewConn.acquired = FALSE /\ NewConn.host = 0
  BY HuddleConstants DEF NewConn, ConnState, At
<1>2. NoRenewer \in RenewerState /\ NoRenewer.at = "none"
  BY DEF NoRenewer, RenewerState
<1>3. \A c \in Conns : conn[c] = NewConn
  OBVIOUS
<1>4. \A g \in Generations : renewer[g] = NoRenewer
  OBVIOUS
<1>5. TypeOK
  <2>1. rooms \in Seq(Room) /\ Len(rooms) = 0
    OBVIOUS
  <2>2. conn \in [Conns -> ConnState(Len(rooms))]
    BY <1>1, <2>1
  <2>3. renewer \in [Generations -> RenewerState]
    BY <1>2
  <2>4. /\ lease = None /\ generation \in 0..MaxGenerations /\ registry \in [Pods -> 0..MaxGenerations]
        /\ drain \in [Pods -> {"no", "flagged", "done"}]
        /\ stalls \in 0..MaxStalls /\ slow \in 0..MaxSlowJoins /\ errors \in 0..MaxErrors
    BY HuddleConstants
  <2>5. current \in [Pods -> 0..Len(rooms)] /\ archived \in BOOLEAN
    <3>1. 0 \in 0..Len(rooms)
      BY <2>1
    <3>2. current = [p \in Pods |-> 0] /\ archived = FALSE
      OBVIOUS
    <3> HIDE DEF Init
    <3>3. QED
      BY <3>1, <3>2
  <2> HIDE DEF Init
  <2>6. QED
    BY <2>1, <2>2, <2>3, <2>4, <2>5 DEF TypeOK
<1>6. OwnerKnown
  BY <1>1, <1>3 DEF OwnerKnown, KnowsOwner
<1>7. Ownership
  <2>1. OneAcquirer /\ Counted /\ NotYetSpawned /\ Spawned /\ InsertReady
    BY <1>1, <1>2, <1>3, <1>4 DEF OneAcquirer, Counted, NotYetSpawned, Spawned, InsertReady, Acquired
  <2>2. RegistryLive /\ DrainedEntry /\ OneInsert /\ KnownRenewer /\ EarlyHolds /\ OnlyLateLose
    BY <1>1, <1>2, <1>3, <1>4
       DEF RegistryLive, DrainedEntry, OneInsert, KnownRenewer, EarlyHolds, OnlyLateLose, Acquired
  <2>3. QED
    BY <2>1, <2>2 DEF Ownership
<1>8. QED
  BY <1>5, <1>6, <1>7 DEF IInv

LEMMA NextKeeps == IInv /\ [Next]_vars => IInv'
<1> SUFFICES ASSUME IInv, [Next]_vars PROVE IInv'
  OBVIOUS
<1>1. CASE UNCHANGED vars
  <2>1. /\ Untouched /\ UNCHANGED <<rooms, current, archived, conn, errors>>
    BY <1>1 DEF vars, Untouched
  <2>2. TypeOK'
    BY <2>1 DEF IInv, TypeOK, Untouched
  <2>3. Calm
    BY <2>1 DEF Calm
  <2>4. OwnerKnown'
    BY <2>1, Stays DEF Untouched
  <2>5. QED
    BY <2>1, <2>2, <2>3, <2>4, CalmKeeps DEF IInv
<1>2. ASSUME NEW c \in Conns, Join(c) PROVE IInv'
  BY <1>2, ConnectStep, OwnerOfStep, ValidateOwnerStep, ResolveFailsStep, AcquireStep,
     OwnerReadyStep, GetRoomStep, CheckChannelStep, AddPeerStep, AttachCheckStep,
     AttachLookupStep, AttachInsertStep, AttachRecheckStep, LostForStep, DrainForStep,
     RefuseStep, RegisterPeerStep, GetHostRoomStep,
     DialFailsStep, RegisterRemotePeerStep, AddMirrorStep DEF Join
<1>3. ASSUME NEW c \in Conns, Part(c) PROVE IInv'
  BY <1>3, LeaveStep, ArchiveStep, CleanupStep, ReleaseStep, LeaveMirrorStep, StreamEndsStep DEF Part
<1>4. ASSUME NEW g \in Generations, Renew(g) PROVE IInv'
  BY <1>4, RenewLostStep, RenewCancelledStep, ReleaseLeaseStep DEF Renew
<1>5. ASSUME NEW p \in Pods, DrainFlag(p) \/ DrainEntries(p) PROVE IInv'
  BY <1>5, DrainFlagStep, DrainEntriesStep
<1>6. QED
  BY <1>1, <1>2, <1>3, <1>4, <1>5, ExpireStep DEF Next

LEMMA Invariance == Spec => []IInv
BY InitHolds, NextKeeps, PTL DEF Spec

\* Every lease, renewer, registry entry, room and connection has its type, for
\* any number of pods, clients, leases and faults: no step uses the owner, the
\* room or the lease of a connection that has none (join.rs, handler.rs).
THEOREM TypeCorrect == Spec => []TypeOK
BY Invariance, PTL DEF IInv

\* Whatever joins, expires, is released or drained at the same time, an entry of
\* the owner registry stands for a renewer of that pod which was not told to
\* stop, and which runs or has told the loss (HuddleOwnerRegistry, join.rs).
THEOREM EntriesAreLive == Spec => []RegistryLive
<1>1. IInv => RegistryLive
  BY DEF IInv, Ownership
<1>2. QED
  BY <1>1, Invariance, PTL

\* As long as no join is overtaken or outlasts its lease, every renewer that was
\* not cancelled is in the registry or about to be (attach_signals, join.rs).
THEOREM RenewersAreKnown == Spec => []OneRenewer
<1>1. IInv => OneRenewer
  BY DEF IInv, Ownership, NoSlowJoin, KnownRenewer, OneRenewer
<1>2. QED
  BY <1>1, Invariance, PTL

\* A renewer that is in time keeps its lease: releases are fenced by the exact
\* lease and a key that is taken is not acquired again (directory.rs).
THEOREM InTimeKeeps == Spec => []OnlyLateLose
<1>1. IInv => OnlyLateLose
  BY DEF IInv, Ownership
<1>2. QED
  BY <1>1, Invariance, PTL

\* After drain_all, once no attach is half way, the pod has no entry,
\* whatever joined while it drained, and renews no lease, unless a join was
\* overtaken (drain_all, attach_signals, join.rs).
THEOREM DrainIsComplete == Spec => []DrainedPodIsQuiet
<1>1. ASSUME IInv PROVE DrainedPodIsQuiet
  <2> SUFFICES ASSUME NEW p \in Pods, drain[p] = "done",
                      \A c \in Conns : PodOf[c] = p => ~Step(c, "insert") /\ ~Step(c, "recheck")
               PROVE  /\ registry[p] = 0
                      /\ slow = MaxSlowJoins => \A g \in Generations :
                           renewer[g].pod = p /\ renewer[g].at = "running" => renewer[g].cancel
    BY DEF DrainedPodIsQuiet
  <2>1. registry[p] = 0
    BY <1>1 DEF IInv, Ownership, DrainedEntry, Step
  <2>2. ASSUME slow = MaxSlowJoins, NEW g \in Generations, renewer[g].pod = p, renewer[g].at = "running",
               ~renewer[g].cancel
        PROVE  FALSE
    <3>1. g # 0
      BY DEF Generations
    <3>2. PICK c \in Conns : Step(c, "insert") /\ conn[c].generation = g
      BY <1>1, <2>1, <2>2, <3>1 DEF IInv, Ownership, NoSlowJoin, KnownRenewer
    <3>3. PodOf[c] = p
      BY <1>1, <2>2, <3>2 DEF IInv, Ownership, Spawned, Step, Gen
    <3>4. QED
      BY <3>2, <3>3
  <2>3. QED
    BY <2>1, <2>2
<1>2. QED
  BY <1>1, Invariance, PTL
=============================================================================
