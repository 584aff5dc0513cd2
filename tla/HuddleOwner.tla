---------------------------- MODULE HuddleOwner ----------------------------
(***************************************************************************)
(* Cross-pod ownership of one huddle: the Redis session directory          *)
(* (tunnel/directory.rs), the join path of a client's audio WebSocket      *)
(* (audio/handler.rs, audio/join.rs), the per-pod owner registry and lease *)
(* renewers, the audio rooms (audio/room.rs), the HuddleControl stream by  *)
(* which another pod registers its client with the owner, and drain.       *)
(*                                                                         *)
(* A connection is one WebSocket: a client that rejoins is another         *)
(* connection.  A lease is named by its generation, and so are the renewer *)
(* minted with it and the three cancellation tokens (cancel, lost, drain)  *)
(* of its registry entry.  A pod restarts under a fresh runtime id, so a   *)
(* crashed pod stays down.  A room is an Arc<Room>: it lives while the map,*)
(* a connection or a registration in progress at its owner holds it.  Peer *)
(* indices, media and roster revisions are not modelled.                   *)
(***************************************************************************)
EXTENDS Integers, FiniteSets

CONSTANTS
    Pods,          \* relay pods (mesh runtime ids)
    Home,          \* the pod the first connection reaches
    NumConns,      \* client connections, each used once
    None,          \* no pod, no room
    MaxGen,        \* bound: generations the counter hands out
    MaxAttempts,   \* OWNER_READY_MAX_ATTEMPTS
    MaxRooms,      \* bound: room instances alive at once on a pod
    MaxFaults,     \* bound: Redis and database errors, stalls past a TTL, crashes
    MaxDrains,     \* bound: pods that are told to drain
    MaxBusy        \* bound: connections with which faults and drains may meet

ASSUME BoundsAssumption ==
    /\ {NumConns, MaxGen, MaxAttempts, MaxRooms} \subseteq Nat \ {0}
    /\ {MaxFaults, MaxDrains, MaxBusy} \subseteq Nat
    /\ Home \in Pods
    /\ None \notin Pods \cup (Pods \X (1..MaxRooms))

VARIABLES
    lease,         \* lease key: the generation it names, 0 when absent
    generation,    \* companion INCR counter, never expires
    ren,           \* generation -> lease material, renewer task and tokens
    pod,           \* pod -> registry entry, drain progress, room map
    rooms,         \* room -> its peers, its ended flag and its version pin
    conn,          \* connection -> handler state
    stream,        \* connection -> its HuddleControl stream to the owner
    archived,      \* the huddle's channel is archived
    spent          \* faults and drains used

vars == <<lease, generation, ren, pod, rooms, conn, stream, archived, spent>>

\* Connections are alike, so they are numbered in the order they arrive, and
\* pods are alike, so the first connection's pod has a name.
Conns == 1..NumConns
Gens == 1..MaxGen
Rooms == Pods \X (1..MaxRooms)

NoRenewer == [pc |-> "none", pod |-> None, cancel |-> FALSE, lost |-> FALSE,
              drain |-> FALSE, quiet |-> FALSE]
NoPod == [up |-> TRUE, drain |-> "off", listed |-> 0, entry |-> 0, room |-> None]
NewRoom == [peers |-> {}, ended |-> FALSE, pinned |-> FALSE]
NoConn == [pc |-> "idle", pod |-> None, own |-> None, gen |-> 0, minted |-> FALSE,
           tries |-> 0, room |-> None, lost |-> 0, drain |-> 0]
NoStream == [pc |-> "none", own |-> None, gen |-> 0, room |-> None, lost |-> 0,
             drain |-> 0, member |-> FALSE, reply |-> "none", bye |-> FALSE,
             fin |-> FALSE]

Init ==
    /\ lease = 0
    /\ generation = 0
    /\ ren = [g \in Gens |-> NoRenewer]
    /\ pod = [p \in Pods |-> NoPod]
    /\ rooms = [r \in Rooms |-> NewRoom]
    /\ conn = [c \in Conns |-> NoConn]
    /\ stream = [c \in Conns |-> NoStream]
    /\ archived = FALSE
    /\ spent = [faults |-> 0, drains |-> 0]

\* Bounds: a connection beyond MaxBusy comes when nothing has gone wrong and
\* nobody else is on the way, and nothing goes wrong from then on.
Calm == /\ spent.faults + spent.drains = 0
        /\ \A c \in Conns : conn[c].pc \in {"idle", "live", "done"}
Crowded == \E c \in Conns : c > MaxBusy /\ conn[c].pc # "idle"
Fault == /\ spent.faults < MaxFaults /\ ~Crowded
         /\ spent' = [spent EXCEPT !.faults = @ + 1]
NoFault == UNCHANGED spent

-----------------------------------------------------------------------------
(* The connection's own steps.                                             *)

At(c, pc) == conn[c].pc = pc
Pod(c) == conn[c].pod
Goto(c, pc) == conn' = [conn EXCEPT ![c].pc = pc]
Finish(c) == conn' = [conn EXCEPT ![c] = [NoConn EXCEPT !.pc = "done"]]

IsDraining(p) == pod[p].drain # "off"
IsLocalOwner(c) == conn[c].own = Pod(c)

\* The Arc<Room> is alive: mapped, or held by a connection or a registration.
Held(r) == \/ pod[r[1]].room = r
           \/ \E c \in Conns : \/ conn[c].room = r
                               \/ stream[c].room = r /\ stream[c].pc \in {"fence", "add"}

\* Names free for a new room: no stream listens to the old one any more.
Unused(p) == {r \in Rooms : /\ r[1] = p /\ ~Held(r)
                            /\ \A c \in Conns : stream[c].room # r}

\* AudioRoomManager::get_or_create: room r is the mapped one, or a new one.
GetOrCreate(p, r) ==
    IF pod[p].room # None
    THEN r = pod[p].room /\ UNCHANGED <<pod, rooms>>
    ELSE /\ r \in Unused(p)
         /\ \A s \in Unused(p) : r[2] <= s[2]
         /\ pod' = [pod EXCEPT ![p].room = r]
         /\ rooms' = [rooms EXCEPT ![r] = NewRoom]

\* AudioRoomManager::cleanup_if_empty.
Empties(p) == pod[p].room # None /\ rooms[pod[p].room].peers = {}
CleanupIfEmpty(p) ==
    pod' = IF Empties(p) THEN [pod EXCEPT ![p].room = None] ELSE pod

\* What a successful lease mint writes: the ACQUIRE script's absent branch.
Mint(p) ==
    /\ generation < MaxGen
    /\ generation' = generation + 1
    /\ lease' = generation + 1
    /\ ren' = [ren EXCEPT ![generation + 1] = [NoRenewer EXCEPT !.pod = p]]

\* A client reaches pod p: the huddle is not archived and the pod not draining.
Join(c, p) ==
    /\ At(c, "idle") /\ pod[p].up /\ ~archived /\ ~IsDraining(p)
    /\ \A d \in 1..c-1 : ~At(d, "idle")
    /\ c = 1 => p = Home
    /\ c <= MaxBusy \/ Calm
    /\ conn' = [conn EXCEPT ![c].pc = "lookup", ![c].pod = p]
    /\ UNCHANGED <<lease, generation, ren, pod, rooms, stream, archived, spent>>

\* resolve_join after a live lease was read: ours, or another pod's.
Resolved(c) ==
    conn' = [conn EXCEPT ![c].own = ren[lease].pod, ![c].gen = lease,
                         ![c].pc = IF ren[lease].pod = Pod(c) THEN "ready" ELSE "validate"]

\* resolve_join: owner_of first, acquire only when nobody owns the huddle.
LookUp(c) ==
    /\ At(c, "lookup")
    /\ IF lease = 0 THEN Goto(c, "acquire") ELSE Resolved(c)
    /\ UNCHANGED <<lease, generation, ren, pod, rooms, stream, archived, spent>>

\* Mutant: the script takes the lease without looking for a live one.
AcquireBlind(c) ==
    /\ At(c, "acquire")
    /\ Mint(Pod(c))
    /\ conn' = [conn EXCEPT ![c].own = Pod(c), ![c].gen = generation + 1,
                            ![c].minted = TRUE, ![c].pc = "room"]
    /\ UNCHANGED <<pod, rooms, stream, archived, spent>>

\* The ACQUIRE script: a live lease wins, otherwise the caller owns a new one.
Acquire(c) ==
    /\ At(c, "acquire")
    /\ IF lease # 0
       THEN Resolved(c) /\ UNCHANGED <<lease, generation, ren>>
       ELSE /\ Mint(Pod(c))
            /\ conn' = [conn EXCEPT ![c].own = Pod(c), ![c].gen = generation + 1,
                                    ![c].minted = TRUE, ![c].pc = "room"]
    /\ UNCHANGED <<pod, rooms, stream, archived, spent>>

\* The script ran and its reply was lost: the join fails, the lease stays.
AcquireReplyLost(c) ==
    /\ At(c, "acquire") /\ lease = 0
    /\ Mint(Pod(c))
    /\ Finish(c)
    /\ Fault
    /\ UNCHANGED <<pod, rooms, stream, archived>>

\* resolve_join_owner_ready: reuse needs a registry entry; otherwise resolve
\* again, a bounded number of times.
OwnerReady(c) ==
    /\ At(c, "ready")
    /\ CASE pod[Pod(c)].entry # 0 -> Goto(c, "room")
         [] pod[Pod(c)].entry = 0 /\ conn[c].tries + 1 < MaxAttempts ->
              conn' = [conn EXCEPT ![c].tries = @ + 1, ![c].pc = "lookup",
                                   ![c].own = None, ![c].gen = 0]
         [] OTHER -> Finish(c)
    /\ UNCHANGED <<lease, generation, ren, pod, rooms, stream, archived, spent>>

\* validate_fenced_header: the live lease names this owner and generation.
Valid(p, g) == lease = g /\ g # 0 /\ ren[g].pod = p

ValidateOwner(c) ==
    /\ At(c, "validate")
    /\ IF Valid(conn[c].own, conn[c].gen) THEN Goto(c, "room") ELSE Finish(c)
    /\ UNCHANGED <<lease, generation, ren, pod, rooms, stream, archived, spent>>

\* A Redis error anywhere on the resolve path rejects the join.
ResolveError(c) ==
    /\ conn[c].pc \in {"lookup", "acquire", "validate"}
    /\ Finish(c)
    /\ Fault
    /\ UNCHANGED <<lease, generation, ren, pod, rooms, stream, archived>>

\* The handler takes its room after the huddle's owner is known.
EnterRoom(c) ==
    /\ At(c, "room")
    /\ \E r \in Rooms :
          /\ GetOrCreate(Pod(c), r)
          /\ conn' = [conn EXCEPT ![c].room = r, ![c].pc = "check"]
    /\ UNCHANGED <<lease, generation, ren, stream, archived, spent>>

\* The archived re-check after the room handle was taken.
CheckChannel(c) ==
    /\ At(c, "check")
    /\ IF archived
       THEN CleanupIfEmpty(Pod(c)) /\ Finish(c)
       ELSE /\ Goto(c, IF IsLocalOwner(c) THEN "admit" ELSE "dial")
            /\ UNCHANGED pod
    /\ UNCHANGED <<lease, generation, ren, rooms, stream, archived, spent>>

CheckError(c) ==
    /\ At(c, "check")
    /\ CleanupIfEmpty(Pod(c))
    /\ Finish(c)
    /\ Fault
    /\ UNCHANGED <<lease, generation, ren, rooms, stream, archived>>

\* An unsupported protocol version returns without cleanup, and so does an
\* admission that finds the room ended, full or pinned to another version: a
\* room that has admitted somebody.
Refuse(c) ==
    /\ \/ At(c, "check") /\ ~archived
       \/ At(c, "admit") /\ rooms[conn[c].room].pinned
    /\ Finish(c)
    /\ UNCHANGED <<lease, generation, ren, pod, rooms, stream, archived, spent>>

AddPeer(c, r) ==
    /\ ~rooms[r].ended
    /\ rooms' = [rooms EXCEPT ![r].peers = @ \cup {c}, ![r].pinned = TRUE]

Admit(c) ==
    /\ At(c, "admit")
    /\ AddPeer(c, conn[c].room)
    /\ Goto(c, IF conn[c].minted THEN "attach" ELSE "signals")
    /\ UNCHANGED <<lease, generation, ren, pod, stream, archived, spent>>

-----------------------------------------------------------------------------
(* HuddleOwnerRegistry::attach_signals and the lease renewer.              *)

\* A renewer whose caller token is already cancelled only releases its lease.
Throwaway(g) == ren' = [ren EXCEPT ![g].pc = "run", ![g].cancel = TRUE]

\* The draining arm, the arm that keeps a live entry, or on to the insert: two
\* lookups of one synchronous call, taken as one step.
Attach(c) ==
    LET p == Pod(c)
        g == conn[c].gen
    IN  /\ At(c, "attach")
        /\ CASE IsDraining(p) ->
                  /\ ren' = [ren EXCEPT ![g].pc = "run", ![g].cancel = TRUE, ![g].drain = TRUE]
                  /\ conn' = [conn EXCEPT ![c].pc = "live", ![c].drain = g]
             [] ~IsDraining(p) /\ pod[p].entry # 0 ->
                  /\ Throwaway(g)
                  /\ conn' = [conn EXCEPT ![c].pc = "live", ![c].lost = pod[p].entry,
                                          ![c].drain = pod[p].entry]
             [] OTHER -> Goto(c, "insert") /\ UNCHANGED ren
        /\ UNCHANGED <<lease, generation, pod, rooms, stream, archived, spent>>

Insert(c) ==
    /\ At(c, "insert")
    /\ ren' = [ren EXCEPT ![conn[c].gen].pc = "run"]
    /\ pod' = [pod EXCEPT ![Pod(c)].entry = conn[c].gen]
    /\ conn' = [conn EXCEPT ![c].pc = "recheck", ![c].lost = conn[c].gen,
                            ![c].drain = conn[c].gen]
    /\ UNCHANGED <<lease, generation, rooms, stream, archived, spent>>

\* remove_if the entry is still this generation's.
Retract(p, g) == pod' = IF pod[p].entry = g THEN [pod EXCEPT ![p].entry = 0] ELSE pod

\* Mutant: no second check.
RecheckNot(c) ==
    /\ At(c, "recheck")
    /\ Goto(c, "live")
    /\ UNCHANGED <<lease, generation, ren, pod, rooms, stream, archived, spent>>

\* The second is_draining check, which closes the race with drain_all.
Recheck(c) ==
    LET g == conn[c].gen
    IN  /\ At(c, "recheck")
        /\ Goto(c, "live")
        /\ IF IsDraining(Pod(c))
           THEN /\ Retract(Pod(c), g)
                /\ ren' = [ren EXCEPT ![g].cancel = TRUE, ![g].drain = TRUE]
           ELSE UNCHANGED <<pod, ren>>
        /\ UNCHANGED <<lease, generation, rooms, stream, archived, spent>>

\* The reuse arm takes whatever lost_for and then drain_for return.
Signals(c) ==
    LET e == pod[Pod(c)].entry
    IN  /\ \/ At(c, "signals") /\ conn' = [conn EXCEPT ![c].pc = "signals2", ![c].lost = e]
           \/ At(c, "signals2") /\ conn' = [conn EXCEPT ![c].pc = "live", ![c].drain = e]
        /\ UNCHANGED <<lease, generation, ren, pod, rooms, stream, archived, spent>>

\* A renewal that finds the lease absent or another's; one that finds its own
\* lease changes nothing.
RenewLost(g) ==
    /\ ren[g].pc = "run" /\ lease # g
    /\ ren' = [ren EXCEPT ![g].pc = "release", ![g].lost = TRUE]
    /\ UNCHANGED <<lease, generation, pod, rooms, conn, stream, archived, spent>>

RenewError(g) ==
    /\ ren[g].pc = "run"
    /\ ren' = [ren EXCEPT ![g].pc = "release", ![g].lost = TRUE]
    /\ Fault
    /\ UNCHANGED <<lease, generation, pod, rooms, conn, stream, archived>>

RenewerCancelled(g) ==
    /\ ren[g].pc = "run" /\ ren[g].cancel
    /\ ren' = [ren EXCEPT ![g].pc = "release", ![g].quiet = TRUE]
    /\ UNCHANGED <<lease, generation, pod, rooms, conn, stream, archived, spent>>

\* The RELEASE script: delete the lease only if it is this owner's generation.
Release(g) ==
    /\ ren[g].pc = "release"
    /\ lease' = IF lease = g THEN 0 ELSE lease
    /\ ren' = [ren EXCEPT ![g].pc = "done", ![g].lost = @ \/ lease # g]
    /\ UNCHANGED <<generation, pod, rooms, conn, stream, archived, spent>>

\* The script did not run, or its reply was lost.
ReleaseError(g) ==
    /\ ren[g].pc = "release"
    /\ lease' \in {lease, IF lease = g THEN 0 ELSE lease}
    /\ ren' = [ren EXCEPT ![g].pc = "done", ![g].lost = @ \/ ~ren[g].quiet]
    /\ Fault
    /\ UNCHANGED <<generation, pod, rooms, conn, stream, archived>>

\* The lease key's TTL runs out.  While a renewer or an attaching connection
\* still holds the lease that takes a stall longer than three renewals.
Kept(g) == \/ ren[g].pc \in {"run", "release"}
           \/ \E c \in Conns : conn[c].minted /\ conn[c].gen = g /\ ren[g].pc = "none"

Expire ==
    /\ lease # 0
    /\ IF Kept(lease) THEN Fault ELSE NoFault
    /\ lease' = 0
    /\ UNCHANGED <<generation, ren, pod, rooms, conn, stream, archived>>

-----------------------------------------------------------------------------
(* Drain (SIGTERM) and crash of a pod.                                     *)

\* The drain watcher sees SIGTERM and calls drain_all, which raises the flag,
\* lists the entries and drains them one by one.
BeginDrain(p) ==
    /\ pod[p].up /\ pod[p].drain = "off"
    /\ spent.drains < MaxDrains /\ ~Crowded
    /\ spent' = [spent EXCEPT !.drains = @ + 1]
    /\ pod' = [pod EXCEPT ![p].drain = "flagged"]
    /\ UNCHANGED <<lease, generation, ren, rooms, conn, stream, archived>>

DrainList(p) ==
    /\ pod[p].drain = "flagged"
    /\ pod' = [pod EXCEPT ![p].drain = IF pod[p].entry = 0 THEN "done" ELSE "listed",
                          ![p].listed = pod[p].entry]
    /\ UNCHANGED <<lease, generation, ren, rooms, conn, stream, archived, spent>>

\* HuddleOwnerRegistry::drain of the listed room, fenced on its generation.
DrainRoom(p) ==
    LET g == pod[p].listed
        hit == pod[p].entry = g
    IN  /\ pod[p].drain = "listed"
        /\ pod' = [pod EXCEPT ![p].drain = "done", ![p].listed = 0,
                              ![p].entry = IF hit THEN 0 ELSE @]
        /\ ren' = IF hit THEN [ren EXCEPT ![g].drain = TRUE, ![g].cancel = TRUE] ELSE ren
        /\ UNCHANGED <<lease, generation, rooms, conn, stream, archived, spent>>

\* The process dies: its tasks, rooms and registry with it; the peers of its
\* streams see them break off.
Crash(p) ==
    /\ pod[p].up
    /\ Fault
    /\ pod' = [pod EXCEPT ![p] = [NoPod EXCEPT !.up = FALSE]]
    /\ ren' = [g \in Gens |-> IF ren[g].pod = p THEN [ren[g] EXCEPT !.pc = "done"] ELSE ren[g]]
    /\ rooms' = [r \in Rooms |-> IF r[1] = p THEN NewRoom ELSE rooms[r]]
    /\ conn' = [c \in Conns |-> IF Pod(c) = p THEN [NoConn EXCEPT !.pc = "done"] ELSE conn[c]]
    /\ stream' = [c \in Conns |->
          IF stream[c].own = p
          THEN [stream[c] EXCEPT !.pc = "broken", !.room = None, !.bye = TRUE]
          ELSE [stream[c] EXCEPT !.fin = @ \/ (Pod(c) = p /\ stream[c].pc # "none")]]
    /\ UNCHANGED <<lease, generation, archived>>

-----------------------------------------------------------------------------
(* Registration of a client with the pod that owns its huddle.             *)

\* dial_remote_owner opens the stream and sends Hello and RegisterPeer.
Dial(c) ==
    /\ At(c, "dial")
    /\ IF pod[conn[c].own].up
       THEN /\ stream' = [stream EXCEPT ![c] = [NoStream EXCEPT !.pc = "hello",
                                                !.own = conn[c].own, !.gen = conn[c].gen]]
            /\ Goto(c, "reply")
            /\ UNCHANGED pod
       ELSE CleanupIfEmpty(Pod(c)) /\ Finish(c) /\ UNCHANGED stream
    /\ UNCHANGED <<lease, generation, ren, rooms, archived, spent>>

\* accept_inbound: the loop's signals are the entry's, if one has landed.
Accept(c) ==
    LET e == pod[stream[c].own].entry
    IN  /\ \/ /\ stream[c].pc = "hello"
              /\ stream' = [stream EXCEPT ![c].pc = "hello2", ![c].lost = e]
           \/ /\ stream[c].pc = "hello2"
              /\ stream' = [stream EXCEPT ![c].pc = "register", ![c].drain = e]
        /\ UNCHANGED <<lease, generation, ren, pod, rooms, conn, archived, spent>>

\* The owner's end of the stream goes: closed, or broken with what was on its way.
Close(c, how) ==
    stream' = [stream EXCEPT ![c] = [@ EXCEPT !.pc = how, !.room = None, !.lost = 0,
                                              !.drain = 0, !.bye = TRUE, !.member = FALSE]]

\* The loop's teardown drops the peer it registered from the room now mapped.
DropPeer(c) ==
    LET r == pod[stream[c].own].room
    IN  rooms' = IF r # None /\ stream[c].member
                 THEN [rooms EXCEPT ![r].peers = @ \ {c}] ELSE rooms

LoopEnds(c) == Close(c, "closed") /\ DropPeer(c)

\* Mutant: a draining owner ignores the frame and keeps the stream.
RegisterIgnored(c) ==
    LET p == stream[c].own
    IN  /\ stream[c].pc = "register"
        /\ IF IsDraining(p)
           THEN stream' = [stream EXCEPT ![c].pc = "serve"] /\ UNCHANGED <<pod, rooms>>
           ELSE \E r \in Rooms :
                  /\ GetOrCreate(p, r)
                  /\ stream' = [stream EXCEPT ![c].pc = "fence", ![c].room = r]
        /\ UNCHANGED <<lease, generation, ren, conn, archived, spent>>

\* RegisterPeer: refused while draining, before the room is looked up.
Register(c) ==
    LET p == stream[c].own
    IN  /\ stream[c].pc = "register"
        /\ IF IsDraining(p)
           THEN LoopEnds(c) /\ UNCHANGED pod
           ELSE \E r \in Rooms :
                  /\ GetOrCreate(p, r)
                  /\ stream' = [stream EXCEPT ![c].pc = "fence", ![c].room = r]
        /\ UNCHANGED <<lease, generation, ren, conn, archived, spent>>

\* The owner's fence check, before the room is touched.
Fence(c) ==
    /\ stream[c].pc = "fence"
    /\ stream' = [stream EXCEPT
          ![c].pc = IF Valid(stream[c].own, stream[c].gen) THEN "add" ELSE "serve",
          ![c].room = IF Valid(stream[c].own, stream[c].gen) THEN @ ELSE None,
          ![c].reply = IF Valid(stream[c].own, stream[c].gen) THEN @ ELSE "rejected"]
    /\ UNCHANGED <<lease, generation, ren, pod, rooms, conn, archived, spent>>

\* A Redis error while fencing, a fault of the stream or a reply that cannot be
\* sent ends the loop.
StreamError(c) ==
    /\ stream[c].pc \in {"hello", "register", "fence", "serve"}
    /\ Close(c, "broken")
    /\ DropPeer(c)
    /\ Fault
    /\ UNCHANGED <<lease, generation, ren, pod, conn, archived>>

\* A roster delta or snapshot that cannot be sent returns from the loop past its
\* teardown: the peer stays in the owner's room.
RosterSendFails(c) ==
    /\ stream[c].pc = "serve" /\ stream[c].member
    /\ Close(c, "broken")
    /\ Fault
    /\ UNCHANGED <<lease, generation, ren, pod, rooms, conn, archived>>

\* register_remote_peer: the loop keeps a roster subscription, not the room.
RegisterPeer(c) ==
    /\ stream[c].pc = "add"
    /\ AddPeer(c, stream[c].room)
    /\ stream' = [stream EXCEPT ![c].pc = "serve", ![c].reply = "registered",
                                ![c].member = TRUE]
    /\ UNCHANGED <<lease, generation, ren, pod, conn, archived, spent>>

RegisterRefused(c) ==
    /\ stream[c].pc = "add"
    /\ rooms[stream[c].room].pinned
    /\ stream' = [stream EXCEPT ![c].pc = "serve", ![c].reply = "rejected", ![c].room = None]
    /\ UNCHANGED <<lease, generation, ren, pod, rooms, conn, archived, spent>>

\* Owner loss, drain, the other side's close, or the end of the room whose
\* roster it follows ends the control loop.
Fired(t) == \/ t.drain # 0 /\ ren[t.drain].drain
            \/ t.lost # 0 /\ ren[t.lost].lost

LoopCloses(c) ==
    /\ stream[c].pc = "serve"
    /\ \/ Fired(stream[c]) \/ stream[c].fin
       \/ stream[c].room # None /\ ~Held(stream[c].room)
    /\ LoopEnds(c)
    /\ UNCHANGED <<lease, generation, ren, pod, conn, archived, spent>>

\* The dialling side reads the reply: admitted here too, at the owner's index.
Registered(c) ==
    /\ At(c, "reply") /\ stream[c].reply = "registered"
    /\ AddPeer(c, conn[c].room)
    /\ Goto(c, "live")
    /\ UNCHANGED <<lease, generation, ren, pod, stream, archived, spent>>

\* Refused by the local room after the owner registered it: a clean close.
MirrorRefused(c) ==
    /\ At(c, "reply") /\ stream[c].reply = "registered"
    /\ rooms[conn[c].room].pinned
    /\ stream' = [stream EXCEPT ![c].fin = TRUE]
    /\ Finish(c)
    /\ UNCHANGED <<lease, generation, ren, pod, rooms, archived, spent>>

\* Rejected by the owner, or no reply: the stream closed before there was one, or
\* broke with it.
DialFails(c) ==
    /\ At(c, "reply")
    /\ \/ stream[c].reply = "rejected" \/ stream[c].pc = "broken"
       \/ stream[c].reply = "none" /\ stream[c].bye
    /\ CleanupIfEmpty(Pod(c))
    /\ stream' = [stream EXCEPT ![c].fin = TRUE]
    /\ Finish(c)
    /\ UNCHANGED <<lease, generation, ren, rooms, archived, spent>>

-----------------------------------------------------------------------------
(* The end of a connection.                                                *)

\* The client leaves or stops answering.  A mirror whose joined message cannot
\* be sent takes the same steps.
Leave(c) ==
    /\ At(c, "live")
    /\ Goto(c, "closing")
    /\ UNCHANGED <<lease, generation, ren, pod, rooms, stream, archived, spent>>

\* The owner watcher, or the reader of the owner's stream, closes the client,
\* which then goes the way of any client that leaves.
TornDown(c) ==
    /\ At(c, "live")
    /\ Fired(conn[c]) \/ (~IsLocalOwner(c) /\ stream[c].bye)
    /\ Goto(c, "closing")
    /\ UNCHANGED <<lease, generation, ren, pod, rooms, stream, archived, spent>>

\* remove_peer on a mirror; remove_peer_and_check_ended on the owner.
RemovePeer(c) ==
    LET r == conn[c].room
        last == IsLocalOwner(c) /\ ~rooms[r].ended /\ rooms[r].peers = {c}
    IN  /\ At(c, "closing")
        /\ rooms' = [rooms EXCEPT ![r].peers = @ \ {c}, ![r].ended = @ \/ last]
        /\ Goto(c, IF last THEN "archive" ELSE "cleanup")
        /\ stream' = [stream EXCEPT ![c].fin = ~IsLocalOwner(c)]
        /\ UNCHANGED <<lease, generation, ren, pod, archived, spent>>

\* The archive failed: the room is open again, and the handler returns.
NotArchived(c) ==
    /\ rooms' = [rooms EXCEPT ![conn[c].room].ended = FALSE]
    /\ Finish(c)

\* archive_channel: a SELECT that refuses a channel that is archived already, then
\* an UPDATE, which succeeds even if another has archived it in between.
ArchiveCheck(c) ==
    /\ At(c, "archive")
    /\ IF archived THEN NotArchived(c) ELSE Goto(c, "update") /\ UNCHANGED rooms
    /\ UNCHANGED <<lease, generation, ren, pod, stream, archived, spent>>

Archive(c) ==
    /\ At(c, "update")
    /\ archived' = TRUE
    /\ Goto(c, "cleanup")
    /\ UNCHANGED <<lease, generation, ren, pod, rooms, stream, spent>>

\* A database error; the UPDATE may have been committed nevertheless.
ArchiveFails(c) ==
    /\ conn[c].pc \in {"archive", "update"}
    /\ NotArchived(c)
    /\ archived' \in {archived, archived \/ At(c, "update")}
    /\ Fault
    /\ UNCHANGED <<lease, generation, ren, pod, stream>>

CleanUp(c) ==
    /\ At(c, "cleanup")
    /\ CleanupIfEmpty(Pod(c))
    /\ IF Empties(Pod(c)) /\ IsLocalOwner(c) THEN Goto(c, "release") ELSE Finish(c)
    /\ UNCHANGED <<lease, generation, ren, rooms, stream, archived, spent>>

\* HuddleOwnerRegistry::release, fenced on the generation this connection saw.
RegistryRelease(c) ==
    LET g == conn[c].gen
    IN  /\ At(c, "release")
        /\ Retract(Pod(c), g)
        /\ ren' = IF pod[Pod(c)].entry = g THEN [ren EXCEPT ![g].cancel = TRUE] ELSE ren
        /\ Finish(c)
        /\ UNCHANGED <<lease, generation, rooms, stream, archived, spent>>

-----------------------------------------------------------------------------

ConnStep(c) ==
    \/ LookUp(c) \/ Acquire(c) \/ OwnerReady(c) \/ ValidateOwner(c) \/ EnterRoom(c)
    \/ CheckChannel(c) \/ Admit(c) \/ Refuse(c) \/ Attach(c) \/ Insert(c)
    \/ Recheck(c) \/ Signals(c) \/ Dial(c) \/ Registered(c) \/ MirrorRefused(c)
    \/ DialFails(c) \/ TornDown(c) \/ RemovePeer(c) \/ ArchiveCheck(c) \/ Archive(c)
    \/ CleanUp(c) \/ RegistryRelease(c)

OwnerStep(c) ==
    \/ Accept(c) \/ Register(c) \/ Fence(c) \/ RegisterPeer(c) \/ RegisterRefused(c)
    \/ LoopCloses(c)

RenewerStep(g) == RenewLost(g) \/ RenewerCancelled(g) \/ Release(g)

DrainStep(p) == DrainList(p) \/ DrainRoom(p)

Next ==
    \/ \E c \in Conns :
          \/ \E p \in Pods : Join(c, p)
          \/ ConnStep(c) \/ OwnerStep(c) \/ Leave(c)
          \/ AcquireReplyLost(c) \/ ResolveError(c) \/ CheckError(c)
          \/ StreamError(c) \/ RosterSendFails(c) \/ ArchiveFails(c)
    \/ \E g \in Gens : RenewerStep(g) \/ RenewError(g) \/ ReleaseError(g)
    \/ \E p \in Pods : BeginDrain(p) \/ DrainStep(p) \/ Crash(p)
    \/ Expire

Spec == Init /\ [][Next]_vars

LiveSpec ==
    /\ Spec
    /\ \A c \in Conns : WF_vars(ConnStep(c)) /\ WF_vars(OwnerStep(c))
    /\ \A g \in Gens : WF_vars(RenewerStep(g))
    /\ \A p \in Pods : WF_vars(DrainStep(p))
    /\ WF_vars(Expire /\ NoFault)

-----------------------------------------------------------------------------
(* Properties.                                                             *)

\* Once drain_all is through its list, the registry holds no huddle of this
\* pod, except one whose attach is between its insert and its second check: a
\* join that passed its draining check before SIGTERM leaves no entry behind.
DrainComplete ==
    \A p \in Pods :
        /\ pod[p].drain = "done"
        /\ \A c \in Conns : Pod(c) = p => conn[c].pc \notin {"insert", "recheck"}
        => pod[p].entry = 0

\* No owner finds its lease lost while Redis answers and nobody stalls: joins
\* that race for the lease, releases of the room just emptied and drains never
\* take the lease from a running renewer, so no client is sent away for a loss
\* that did not happen.
NoLossWithoutFault ==
    spent.faults = 0 =>
        \A g \in Gens : ~ren[g].lost /\ (ren[g].pc = "run" => lease = g)

\* Every join ends: the client is admitted or turned away, whatever drains,
\* crashes and lease losses its pod and the owner go through.
JoinsSettle ==
    \A c \in Conns : At(c, "lookup") ~> conn[c].pc \in {"live", "done"}
=============================================================================
