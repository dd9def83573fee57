------------------------------- MODULE Huddle -------------------------------
(***************************************************************************)
(* Who owns a huddle: the fenced session directory                         *)
(* (buzz-relay/src/tunnel/directory.rs), joining and the owner registry    *)
(* (audio/join.rs), the life of a connection (audio/handler.rs) and of the *)
(* rooms (audio/room.rs), for one huddle.                                  *)
(*                                                                         *)
(* Redis holds the lease and a generation that never expires; a script is  *)
(* one step.  A pod runs connections, one renewer per lease it acquired    *)
(* and, at shutdown, a drain, all at once; every await and every access to *)
(* a shared map is a step of its own.  Cancellation tokens belong to the   *)
(* renewer of a generation: cancel (asks it to release), lost and draining *)
(* (tell the peers).  Rooms are numbered, because a connection keeps the   *)
(* room it was given while the manager may already have another.           *)
(***************************************************************************)
EXTENDS Integers, FiniteSets, Sequences

CONSTANTS Pods, Conns,
          PodOf,           \* the pod each client connects to
          MaxGenerations,  \* bound on acquired leases
          MaxRooms,        \* bound on rooms created
          MaxStalls,       \* renewers that are late by more than the lease's TTL
          MaxSlowJoins,    \* joins that attach too late: after the TTL, or
                           \* overtaken between the lookup and the insert
          MaxErrors,       \* Redis or database calls that fail
          MaxDrains,       \* pods that shut down
          None

ASSUME HuddleConstants ==
    /\ PodOf \in [Conns -> Pods]
    /\ MaxGenerations \in Nat /\ MaxRooms \in Nat
    /\ MaxStalls \in Nat /\ MaxSlowJoins \in Nat /\ MaxErrors \in Nat
    /\ MaxDrains \in Nat
    /\ None \notin Pods /\ None \notin [owner : Pods, generation : Nat]

Generations == 1..MaxGenerations

VARIABLES lease,       \* the lease key: None or owner and generation
          generation,  \* the generation key
          renewer,     \* per generation: its task and its tokens
          registry,    \* HuddleOwnerRegistry::entries: the entry's generation, or 0
          drain,       \* drain_all of each pod: "no", "flagged" or "done"
          rooms,       \* every room ever created
          current,     \* AudioRoomManager: the room of the huddle at a pod, or 0
          archived,    \* the channel is archived in the database
          conn,        \* the connections
          stalls, slow, errors  \* what may still go wrong

redis == <<lease, generation>>
halls == <<rooms, current, archived>>
faults == <<stalls, slow, errors>>
vars == <<lease, generation, renewer, registry, drain, rooms, current, archived,
          conn, stalls, slow, errors>>

Lease(p, g) == [owner |-> p, generation |-> g]
NoRenewer == [at |-> "none", pod |-> None, cancel |-> FALSE, lost |-> FALSE,
              draining |-> FALSE]
NewConn == [at |-> "new", owner |-> None, generation |-> 0, acquired |-> FALSE,
            room |-> 0, host |-> 0, watch |-> 0, drains |-> 0]
Gone == [NewConn EXCEPT !.at = "gone"]

is_draining(p) == drain[p] # "no"
Step(c, from) == conn[c].at = from
Become(c, state) == conn' = [conn EXCEPT ![c] = state]
Goto(c, to) == conn' = [conn EXCEPT ![c].at = to]
-----------------------------------------------------------------------------
(* resolve_join and resolve_join_owner_ready *)

(* What a lease found in Redis means for a connection: this pod owns the   *)
(* huddle already, or another one does.                                    *)
Resolved(c, found) ==
    [conn[c] EXCEPT !.at = IF found.owner = PodOf[c] THEN "reuse" ELSE "fence",
                    !.owner = found.owner, !.generation = found.generation]

(* A draining pod takes no join; it is not asked again during the join. *)
Connect(c) ==
    /\ Step(c, "new")
    /\ Goto(c, IF is_draining(PodOf[c]) THEN "gone" ELSE "lookup")
    /\ UNCHANGED <<redis, renewer, registry, drain, halls, faults>>

OwnerOf(c) ==
    /\ Step(c, "lookup")
    /\ IF lease = None THEN Goto(c, "acquire") ELSE Become(c, Resolved(c, lease))
    /\ UNCHANGED <<redis, renewer, registry, drain, halls, faults>>

(* VALIDATE_SCRIPT: the header must match the live lease. *)
Valid(c) == lease = Lease(conn[c].owner, conn[c].generation)

(* The origin's fence before the join is routed to a remote owner. *)
ValidateOwner(c) ==
    /\ Step(c, "fence")
    /\ Become(c, IF Valid(c) THEN [conn[c] EXCEPT !.at = "resolved"] ELSE Gone)
    /\ UNCHANGED <<redis, renewer, registry, drain, halls, faults>>

(* A directory call fails, and with it the join. *)
ResolveFails(c) ==
    /\ conn[c].at \in {"lookup", "acquire", "fence"}
    /\ errors > 0 /\ errors' = errors - 1
    /\ Become(c, Gone)
    /\ UNCHANGED <<redis, renewer, registry, drain, halls, stalls, slow>>

(* Faulty variant: the generation is read but not incremented. *)
Acquire_uncounted(c) ==
    /\ Step(c, "acquire") /\ lease = None
    /\ lease' = Lease(PodOf[c], generation)
    /\ Become(c, [conn[c] EXCEPT !.at = "resolved", !.owner = PodOf[c],
                                 !.generation = generation, !.acquired = TRUE])
    /\ UNCHANGED <<generation, renewer, registry, drain, halls, faults>>

(* ACQUIRE_SCRIPT *)
Acquire(c) ==
    /\ Step(c, "acquire")
    /\ IF lease # None
       THEN Become(c, Resolved(c, lease)) /\ UNCHANGED redis
       ELSE /\ generation < MaxGenerations
            /\ generation' = generation + 1
            /\ lease' = Lease(PodOf[c], generation')
            /\ Become(c, [conn[c] EXCEPT !.at = "resolved", !.owner = PodOf[c],
                                         !.generation = generation',
                                         !.acquired = TRUE])
    /\ UNCHANGED <<renewer, registry, drain, halls, faults>>

(* The registry decides whether a lease another connection acquired may be *)
(* used; otherwise the join is resolved again, or given up in the end.     *)
OwnerReady(c) ==
    /\ Step(c, "reuse")
    /\ \/ registry[PodOf[c]] # 0 /\ Goto(c, "resolved")
       \/ /\ registry[PodOf[c]] = 0
          /\ \E at \in {"lookup", "gone"} : Become(c, [NewConn EXCEPT !.at = at])
    /\ UNCHANGED <<redis, renewer, registry, drain, halls, faults>>
-----------------------------------------------------------------------------
(* Rooms *)

NewRoom == [peers |-> {}, ended |-> FALSE]

GetOrCreate(p) ==
    IF current[p] # 0
    THEN UNCHANGED <<rooms, current>>
    ELSE /\ Len(rooms) < MaxRooms
         /\ rooms' = Append(rooms, NewRoom)
         /\ current' = [current EXCEPT ![p] = Len(rooms')]

Empties(p) == current[p] # 0 /\ rooms[current[p]].peers = {}

(* Remove the room from the manager unless it has peers; a connection that *)
(* holds it keeps it.                                                      *)
cleanup_if_empty(p) ==
    current' = IF Empties(p) THEN [current EXCEPT ![p] = 0] ELSE current

GetRoom(c) ==
    /\ Step(c, "resolved")
    /\ GetOrCreate(PodOf[c])
    /\ conn' = [conn EXCEPT ![c].at = "found", ![c].room = current'[PodOf[c]]]
    /\ UNCHANGED <<redis, renewer, registry, drain, archived, faults>>

(* The channel is read again: archived, or not readable, ends the join.  A *)
(* lease this connection acquired is left to expire.                       *)
CheckChannel(c) ==
    /\ Step(c, "found")
    /\ \/ /\ ~archived /\ Goto(c, IF conn[c].owner = PodOf[c] THEN "admit" ELSE "dial")
          /\ UNCHANGED <<current, errors>>
       \/ /\ archived \/ errors > 0
          /\ errors' = IF archived THEN errors ELSE errors - 1
          /\ cleanup_if_empty(PodOf[c])
          /\ Become(c, Gone)
    /\ UNCHANGED <<redis, renewer, registry, drain, rooms, archived, stalls, slow>>

(* An unsupported version after the channel check, or a full room or one   *)
(* of another version at the admission: the join ends, the room stays.     *)
Refuse(c) ==
    /\ conn[c].at \in {"admit", "dial"}
    /\ Become(c, Gone)
    /\ UNCHANGED <<redis, renewer, registry, drain, halls, faults>>

(* Room::add_peer *)
AddPeer(c) ==
    /\ Step(c, "admit")
    /\ LET r == conn[c].room
       IN  IF rooms[r].ended
           THEN Become(c, Gone) /\ UNCHANGED rooms
           ELSE /\ rooms' = [rooms EXCEPT ![r].peers = @ \cup {c}]
                /\ Goto(c, IF conn[c].acquired THEN "attach" ELSE "watch")
    /\ UNCHANGED <<redis, renewer, registry, drain, current, archived, faults>>
-----------------------------------------------------------------------------
(* The owner registry *)

Spawn(c, cancelled, drained) ==
    [NoRenewer EXCEPT !.at = "running", !.pod = PodOf[c], !.cancel = cancelled,
                      !.draining = drained]

(* attach_signals returns both tokens of a renewer. *)
Watching(c, g) == [conn[c] EXCEPT !.at = "joined", !.watch = g, !.drains = g]

(* attach_signals up to the first check: a draining pod only releases. *)
AttachCheck(c) ==
    /\ Step(c, "attach")
    /\ IF is_draining(PodOf[c])
       THEN /\ renewer' = [renewer EXCEPT ![conn[c].generation] = Spawn(c, TRUE, TRUE)]
            /\ Become(c, Watching(c, conn[c].generation))
       ELSE Goto(c, "publish") /\ UNCHANGED renewer
    /\ UNCHANGED <<redis, registry, drain, halls, faults>>

(* Faulty variant: the entry that is already there is not looked up. *)
AttachLookup_blind(c) ==
    /\ Step(c, "publish")
    /\ renewer' = [renewer EXCEPT ![conn[c].generation] = Spawn(c, FALSE, FALSE)]
    /\ Goto(c, "insert")
    /\ UNCHANGED <<redis, registry, drain, halls, faults>>

(* An entry that is already there wins, and the new lease is released;     *)
(* otherwise the renewer starts before the entry is inserted.              *)
AttachLookup(c) ==
    /\ Step(c, "publish")
    /\ LET kept == registry[PodOf[c]]
       IN  /\ renewer' = [renewer EXCEPT ![conn[c].generation] = Spawn(c, kept # 0, FALSE)]
           /\ IF kept # 0
              THEN Become(c, Watching(c, kept))
              ELSE Goto(c, "insert")
    /\ IF \E d \in Conns : PodOf[d] = PodOf[c] /\ Step(d, "insert")
       THEN slow > 0 /\ slow' = slow - 1
       ELSE UNCHANGED slow
    /\ UNCHANGED <<redis, registry, drain, halls, stalls, errors>>

AttachInsert(c) ==
    /\ Step(c, "insert")
    /\ registry' = [registry EXCEPT ![PodOf[c]] = conn[c].generation]
    /\ Goto(c, "recheck")
    /\ UNCHANGED <<redis, renewer, drain, halls, faults>>

(* remove_if of the entry of generation g, telling the peers or not. *)
Retract(p, g, tell) ==
    IF registry[p] = g
    THEN /\ registry' = [registry EXCEPT ![p] = 0]
         /\ renewer' = [renewer EXCEPT ![g].cancel = TRUE,
                                       ![g].draining = @ \/ tell]
    ELSE UNCHANGED <<registry, renewer>>

(* Faulty variant: the check before publishing is thought to be enough. *)
AttachRecheck_skipped(c) ==
    /\ Step(c, "recheck")
    /\ Become(c, Watching(c, conn[c].generation))
    /\ UNCHANGED <<redis, renewer, registry, drain, halls, faults>>

(* The second check closes the race with drain_all. *)
AttachRecheck(c) ==
    /\ Step(c, "recheck")
    /\ LET p == PodOf[c]
           g == conn[c].generation
       IN  IF is_draining(p)
           THEN /\ registry' = [registry EXCEPT ![p] = IF @ = g THEN 0 ELSE @]
                /\ renewer' = [renewer EXCEPT ![g].cancel = TRUE, ![g].draining = TRUE]
           ELSE UNCHANGED <<registry, renewer>>
    /\ Become(c, Watching(c, conn[c].generation))
    /\ UNCHANGED <<redis, drain, halls, faults>>

(* A peer that uses another connection's lease, of its own pod or at the   *)
(* owner's acceptor, takes the tokens of the entry, if there still is one, *)
(* one after the other.                                                    *)
LostFor(c) ==
    /\ conn[c].at \in {"watch", "dial"}
    /\ Become(c, [conn[c] EXCEPT !.at = IF @ = "watch" THEN "drain_for" ELSE "accept",
                                 !.watch = registry[conn[c].owner]])
    /\ UNCHANGED <<redis, renewer, registry, drain, halls, faults>>

DrainFor(c) ==
    /\ conn[c].at \in {"drain_for", "accept"}
    /\ Become(c, [conn[c] EXCEPT !.at = IF @ = "drain_for" THEN "joined" ELSE "register",
                                 !.drains = registry[conn[c].owner]])
    /\ UNCHANGED <<redis, renewer, registry, drain, halls, faults>>

(* drain_all: the flag first, then every entry. *)
DrainFlag(p) ==
    /\ drain[p] = "no"
    /\ Cardinality({q \in Pods : is_draining(q)}) < MaxDrains
    /\ drain' = [drain EXCEPT ![p] = "flagged"]
    /\ UNCHANGED <<redis, renewer, registry, halls, conn, faults>>

DrainEntries(p) ==
    /\ drain[p] = "flagged"
    /\ drain' = [drain EXCEPT ![p] = "done"]
    /\ IF registry[p] # 0 THEN Retract(p, registry[p], TRUE)
                          ELSE UNCHANGED <<registry, renewer>>
    /\ UNCHANGED <<redis, halls, conn, faults>>
-----------------------------------------------------------------------------
(* The renewer of a generation *)

Holds(g) == lease = Lease(renewer[g].pod, g)

(* Faulty variant: an error ends the renewer without telling the peers. *)
RenewLost_unheard(g) ==
    /\ renewer[g].at = "running"
    /\ \/ ~Holds(g) /\ UNCHANGED errors
       \/ Holds(g) /\ errors > 0 /\ errors' = errors - 1
    /\ renewer' = [renewer EXCEPT ![g].at = "releasing", ![g].lost = ~Holds(g)]
    /\ UNCHANGED <<redis, registry, drain, halls, conn, stalls, slow>>

(* Renewal finds another lease or none, or fails.  A renewal that succeeds *)
(* changes nothing here.                                                   *)
RenewLost(g) ==
    /\ renewer[g].at = "running"
    /\ \/ ~Holds(g) /\ UNCHANGED errors
       \/ Holds(g) /\ errors > 0 /\ errors' = errors - 1
    /\ renewer' = [renewer EXCEPT ![g].at = "releasing", ![g].lost = TRUE]
    /\ UNCHANGED <<redis, registry, drain, halls, conn, stalls, slow>>

RenewCancelled(g) ==
    /\ renewer[g].at = "running" /\ renewer[g].cancel
    /\ renewer' = [renewer EXCEPT ![g].at = "releasing"]
    /\ UNCHANGED <<redis, registry, drain, halls, conn, faults>>

(* Faulty variant: whatever lease is there is deleted. *)
ReleaseLease_unfenced(g) ==
    /\ renewer[g].at = "releasing"
    /\ lease' = None
    /\ renewer' = [renewer EXCEPT ![g].at = "done"]
    /\ UNCHANGED <<generation, registry, drain, halls, conn, faults>>

(* RELEASE_SCRIPT: only the exact lease is deleted; finding another one    *)
(* counts as a loss.  A release that fails leaves the lease to expire.     *)
ReleaseLease(g) ==
    /\ renewer[g].at = "releasing"
    /\ \/ /\ Holds(g)
          /\ lease' = None
          /\ renewer' = [renewer EXCEPT ![g].at = "done"]
          /\ UNCHANGED errors
       \/ /\ ~Holds(g)
          /\ renewer' = [renewer EXCEPT ![g].at = "done", ![g].lost = TRUE]
          /\ UNCHANGED <<lease, errors>>
       \/ /\ errors > 0 /\ errors' = errors - 1
          /\ renewer' = [renewer EXCEPT ![g].at = "done",
                                        ![g].lost = @ \/ ~renewer[g].cancel]
          /\ UNCHANGED lease
    /\ UNCHANGED <<generation, registry, drain, halls, conn, stalls, slow>>

Attaching(c) == /\ conn[c].acquired
                /\ conn[c].at \in {"resolved", "found", "admit", "attach", "publish", "insert"}

(* The lease key expires when nobody renews it, when the renewer is late,  *)
(* or when the join that acquired it has not attached it in time.          *)
Expire ==
    /\ lease # None
    /\ \/ /\ \E c \in Conns : Attaching(c) /\ conn[c].generation = lease.generation
          /\ slow > 0 /\ slow' = slow - 1
          /\ UNCHANGED stalls
       \/ /\ \A c \in Conns : ~(Attaching(c) /\ conn[c].generation = lease.generation)
          /\ IF renewer[lease.generation].at = "running"
             THEN stalls > 0 /\ stalls' = stalls - 1
             ELSE UNCHANGED stalls
          /\ UNCHANGED slow
    /\ lease' = None
    /\ UNCHANGED <<generation, renewer, registry, drain, halls, conn, errors>>
-----------------------------------------------------------------------------
(* A client of another pod: its pod opens a control stream to the owner,   *)
(* whose acceptor admits it into the owner's room, and mirrors it in a     *)
(* room of its own.                                                        *)

(* The owner keeps a peer until its stream closes, also when the client's  *)
(* pod has given up.                                                       *)
Rejected(c) ==
    /\ cleanup_if_empty(PodOf[c])
    /\ Become(c, Gone)

(* A draining owner refuses; another one gets the room before it validates *)
(* the header.                                                             *)
RegisterPeer(c) ==
    /\ Step(c, "register")
    /\ IF is_draining(conn[c].owner)
       THEN Rejected(c) ELSE Goto(c, "host") /\ UNCHANGED current
    /\ UNCHANGED <<redis, renewer, registry, drain, rooms, archived, faults>>

GetHostRoom(c) ==
    /\ Step(c, "host")
    /\ GetOrCreate(conn[c].owner)
    /\ Become(c, [conn[c] EXCEPT !.at = "validate", !.host = current'[conn[c].owner]])
    /\ UNCHANGED <<redis, renewer, registry, drain, archived, faults>>

(* The owner cannot be reached. *)
DialFails(c) ==
    /\ Step(c, "dial")
    /\ errors > 0 /\ errors' = errors - 1
    /\ Rejected(c)
    /\ UNCHANGED <<redis, renewer, registry, drain, rooms, archived, stalls, slow>>

(* Room::add_peer after the fence.  The room may be full or of another     *)
(* version too; a rejection leaves the owner's room.                       *)
RegisterRemotePeer(c) ==
    /\ Step(c, "validate")
    /\ \/ /\ Valid(c) /\ ~rooms[conn[c].host].ended
          /\ rooms' = [rooms EXCEPT ![conn[c].host].peers = @ \cup {c}]
          /\ Goto(c, "mirror")
          /\ UNCHANGED current
       \/ Rejected(c) /\ UNCHANGED rooms
    /\ UNCHANGED <<redis, renewer, registry, drain, archived, faults>>

Hosted(c) == [Gone EXCEPT !.owner = conn[c].owner, !.host = conn[c].host]

(* Room::add_peer_at_index; the mirror may have ended, be full, or be of   *)
(* another version.                                                        *)
AddMirror(c) ==
    /\ Step(c, "mirror")
    /\ \/ /\ ~rooms[conn[c].room].ended
          /\ rooms' = [rooms EXCEPT ![conn[c].room].peers = @ \cup {c}]
          /\ Goto(c, "served")
       \/ Become(c, Hosted(c)) /\ UNCHANGED rooms
    /\ UNCHANGED <<redis, renewer, registry, drain, current, archived, faults>>

(* The client leaves or is told that the owner is gone; a mirror never     *)
(* ends the huddle.                                                        *)
LeaveMirror(c) ==
    /\ Step(c, "served")
    /\ rooms' = [rooms EXCEPT ![conn[c].room].peers = @ \ {c}]
    /\ current' = IF current[PodOf[c]] # 0 /\ rooms'[current[PodOf[c]]].peers = {}
                  THEN [current EXCEPT ![PodOf[c]] = 0] ELSE current
    /\ Become(c, Hosted(c))
    /\ UNCHANGED <<redis, renewer, registry, drain, archived, faults>>

(* The end of serve_control_loop: the peer is removed from the room the    *)
(* owner has now.                                                          *)
StreamEnds(c) ==
    /\ Step(c, "gone") /\ conn[c].host # 0
    /\ LET r == current[conn[c].owner]
       IN  rooms' = IF r = 0 THEN rooms ELSE [rooms EXCEPT ![r].peers = @ \ {c}]
    /\ Become(c, Gone)
    /\ UNCHANGED <<redis, renewer, registry, drain, current, archived, faults>>
-----------------------------------------------------------------------------
(* The end of a local connection *)

Told(c) == \/ conn[c].watch # 0 /\ renewer[conn[c].watch].lost
           \/ conn[c].drains # 0 /\ renewer[conn[c].drains].draining

(* Room::remove_peer_and_check_ended; then archive, or just clean up. *)
Leave(c) ==
    /\ Step(c, "joined")
    /\ LET r == conn[c].room
           left == rooms[r].peers \ {c}
           ends == ~rooms[r].ended /\ left = {}
       IN  /\ rooms' = [rooms EXCEPT ![r].peers = left, ![r].ended = @ \/ ends]
           /\ Goto(c, IF ends THEN "archive" ELSE "cleanup")
    /\ UNCHANGED <<redis, renewer, registry, drain, current, archived, faults>>

AfterCleanup(c) == IF Empties(PodOf[c]) THEN [conn[c] EXCEPT !.at = "release"] ELSE Gone

(* The huddle ends in the database; if that fails, its room lives on. *)
Archive(c) ==
    /\ Step(c, "archive")
    /\ \/ /\ archived' = TRUE
          /\ Goto(c, "cleanup")
          /\ UNCHANGED <<rooms, errors>>
       \/ /\ errors > 0 /\ errors' = errors - 1
          /\ rooms' = [rooms EXCEPT ![conn[c].room].ended = FALSE]
          /\ Become(c, Gone)
          /\ UNCHANGED archived
    /\ UNCHANGED <<redis, renewer, registry, drain, current, stalls, slow>>

Cleanup(c) ==
    /\ Step(c, "cleanup")
    /\ cleanup_if_empty(PodOf[c])
    /\ Become(c, AfterCleanup(c))
    /\ UNCHANGED <<redis, renewer, registry, drain, rooms, archived, faults>>

(* HuddleOwnerRegistry::release, fenced by the generation the connection saw. *)
Release(c) ==
    /\ Step(c, "release")
    /\ Retract(PodOf[c], conn[c].generation, FALSE)
    /\ Become(c, Gone)
    /\ UNCHANGED <<redis, drain, halls, faults>>
-----------------------------------------------------------------------------
Init ==
    /\ lease = None /\ generation = 0
    /\ renewer = [g \in Generations |-> NoRenewer]
    /\ registry = [p \in Pods |-> 0]
    /\ drain = [p \in Pods |-> "no"]
    /\ rooms = <<>> /\ current = [p \in Pods |-> 0]
    /\ archived = FALSE
    /\ conn = [c \in Conns |-> NewConn]
    /\ stalls = MaxStalls /\ slow = MaxSlowJoins /\ errors = MaxErrors

Join(c) ==
    \/ Connect(c) \/ OwnerOf(c) \/ ValidateOwner(c) \/ ResolveFails(c) \/ Acquire(c)
    \/ OwnerReady(c) \/ GetRoom(c) \/ CheckChannel(c)
    \/ Refuse(c) \/ AddPeer(c)
    \/ AttachCheck(c) \/ AttachLookup(c) \/ AttachInsert(c) \/ AttachRecheck(c)
    \/ LostFor(c) \/ DrainFor(c) \/ RegisterPeer(c) \/ GetHostRoom(c)
    \/ DialFails(c) \/ RegisterRemotePeer(c) \/ AddMirror(c)

Part(c) ==
    Leave(c) \/ Archive(c) \/ Cleanup(c) \/ Release(c) \/ LeaveMirror(c) \/ StreamEnds(c)

Renew(g) == RenewLost(g) \/ RenewCancelled(g) \/ ReleaseLease(g)

Next ==
    \/ \E c \in Conns : Join(c) \/ Part(c)
    \/ \E g \in Generations : Renew(g)
    \/ \E p \in Pods : DrainFlag(p) \/ DrainEntries(p)
    \/ Expire

Spec == Init /\ [][Next]_vars

(* Every task runs on: a join and a teardown that can go on do, a renewer  *)
(* notices, Redis drops a key nobody renews, a drain that began is         *)
(* finished.  No one has to leave, and nothing has to fail.                *)
Proceeds(c) ==
    \/ Connect(c) \/ OwnerOf(c) \/ ValidateOwner(c) \/ Acquire(c) \/ OwnerReady(c)
    \/ GetRoom(c) \/ CheckChannel(c) \/ AddPeer(c)
    \/ AttachCheck(c) \/ AttachLookup(c) \/ AttachInsert(c) \/ AttachRecheck(c)
    \/ LostFor(c) \/ DrainFor(c) \/ RegisterPeer(c) \/ GetHostRoom(c)
    \/ RegisterRemotePeer(c) \/ AddMirror(c)

Unrenewed == stalls' = stalls /\ slow' = slow /\ Expire

FairSpec ==
    /\ Spec
    /\ \A c \in Conns : WF_vars(errors' = errors /\ Proceeds(c))
    /\ \A g \in Generations : WF_vars(errors' = errors /\ Renew(g))
    /\ \A p \in Pods : WF_vars(DrainEntries(p))
    /\ WF_vars(Unrenewed)
-----------------------------------------------------------------------------
(* Properties *)

At == {"new", "lookup", "acquire", "fence", "reuse", "resolved", "found", "admit",
       "attach", "publish", "insert", "recheck", "watch", "drain_for", "joined", "archive",
       "cleanup", "release", "dial", "accept", "register", "host", "validate", "mirror",
       "served", "gone"}

RenewerState == [at : {"none", "running", "releasing", "done"}, pod : Pods \cup {None},
                 cancel : BOOLEAN, lost : BOOLEAN, draining : BOOLEAN]
Room == [peers : SUBSET Conns, ended : BOOLEAN]
ConnState(n) == [at : At, owner : Pods \cup {None}, generation : 0..MaxGenerations,
                 acquired : BOOLEAN, room : 0..n, host : 0..n, watch : 0..MaxGenerations,
                 drains : 0..MaxGenerations]

TypeOK ==
    /\ lease \in {None} \cup [owner : Pods, generation : Generations]
    /\ generation \in 0..MaxGenerations
    /\ renewer \in [Generations -> RenewerState]
    /\ registry \in [Pods -> 0..MaxGenerations]
    /\ drain \in [Pods -> {"no", "flagged", "done"}]
    /\ rooms \in Seq(Room)
    /\ current \in [Pods -> 0..Len(rooms)]
    /\ archived \in BOOLEAN
    /\ conn \in [Conns -> ConnState(Len(rooms))]
    /\ stalls \in 0..MaxStalls /\ slow \in 0..MaxSlowJoins /\ errors \in 0..MaxErrors

(* The tokens a joiner takes from the registry are live: the renewer of    *)
(* the entry still runs, or it has already told the loss.  Otherwise a     *)
(* peer would wait for a signal that no task can send.                     *)
RegistryLive ==
    \A p \in Pods : registry[p] # 0 =>
        LET r == renewer[registry[p]]
        IN  r.pod = p /\ ~r.cancel /\ (r.at = "running" \/ r.lost)

(* attach looks the entry up and inserts its own in two steps.  Unless a   *)
(* join was overtaken between them, or its lease expired before it got     *)
(* there, there is one renewer per room: one that nobody has cancelled is  *)
(* the one in the registry, so that release and drain can reach it.        *)
OneRenewer ==
    slow = MaxSlowJoins => \A g \in Generations :
        renewer[g].at = "running" /\ ~renewer[g].cancel =>
            \/ registry[renewer[g].pod] = g
            \/ \E c \in Conns : Step(c, "insert") /\ conn[c].generation = g

(* A renewer that is in time keeps its lease: no release of an older       *)
(* generation, no join and no other pod takes it away.                     *)
OnlyLateLose ==
    stalls = MaxStalls /\ slow = MaxSlowJoins =>
        \A g \in Generations : renewer[g].at = "running" => Holds(g)

(* After drain_all has returned, and once no attach is half way, the pod   *)
(* has no entry, whatever joined meanwhile, and renews no lease, unless a  *)
(* join was overtaken.                                                     *)
DrainedPodIsQuiet ==
    \A p \in Pods :
        /\ drain[p] = "done"
        /\ \A c \in Conns : PodOf[c] = p => ~Step(c, "insert") /\ ~Step(c, "recheck")
        => /\ registry[p] = 0
           /\ slow = MaxSlowJoins => \A g \in Generations :
                renewer[g].pod = p /\ renewer[g].at = "running" => renewer[g].cancel

(* A pod that drains gives up the huddle for good, so that rejoiners find  *)
(* another owner.                                                          *)
DrainedPodLetsGo ==
    \A p \in Pods :
        drain[p] = "flagged" ~> [](lease = None \/ lease.owner # p)

(* An owner peer does not outlive the lease in silence: when the lease its *)
(* tokens stand for is gone, it is told, or its own pod gave the lease up. *)
LossIsTold ==
    \A c \in Conns, g \in Generations :
        conn[c].at \in {"joined", "served"} /\ conn[c].watch = g /\ ~Holds(g)
            ~> Told(c) \/ renewer[g].cancel \/ conn[c].at \notin {"joined", "served"}

(* "So a local owner peer here always gets a real `lost` watcher"          *)
(* (handler.rs 602), even if only while its pod is not draining.           *)
OwnerPeerWatched ==
    \A c \in Conns : Step(c, "joined") /\ ~is_draining(PodOf[c]) => conn[c].watch # 0
=============================================================================
