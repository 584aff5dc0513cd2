---------------------------- MODULE HuddleProofs ----------------------------
(***************************************************************************)
(* Proofs about HuddleOwner, for any number of pods, connections, rooms,   *)
(* generations, faults and drains.                                         *)
(***************************************************************************)
EXTENDS HuddleOwner, TLAPS

MaybePod == Pods \cup {None}
MaybeRoom == Rooms \cup {None}
MaybeGen == 0..MaxGen

Renewer == [pc: {"none", "run", "release", "done"}, pod: MaybePod, cancel: BOOLEAN,
            lost: BOOLEAN, drain: BOOLEAN, quiet: BOOLEAN]
PodState == [up: BOOLEAN, drain: {"off", "flagged", "listed", "done"},
             listed: MaybeGen, entry: MaybeGen, room: MaybeRoom]
Room == [peers: SUBSET Conns, ended: BOOLEAN, pinned: BOOLEAN]
ConnPc == {"idle", "lookup", "acquire", "ready", "validate", "room", "check", "admit",
           "attach", "insert", "recheck", "signals", "signals2", "dial", "reply",
           "live", "closing", "archive", "update", "cleanup", "release", "done"}
Connection == [pc: ConnPc, pod: MaybePod, own: MaybePod, gen: MaybeGen,
               minted: BOOLEAN, tries: Nat, room: MaybeRoom, lost: MaybeGen,
               drain: MaybeGen]
StreamPc == {"none", "hello", "hello2", "register", "fence", "add", "serve", "closed",
             "broken"}
Reply == {"none", "registered", "rejected"}
Stream == [pc: StreamPc, own: MaybePod, gen: MaybeGen, room: MaybeRoom, lost: MaybeGen,
           drain: MaybeGen, member: BOOLEAN, reply: Reply, bye: BOOLEAN, fin: BOOLEAN]

\* Every variable keeps its type.
TypeOK ==
    /\ lease \in MaybeGen /\ generation \in MaybeGen
    /\ ren \in [Gens -> Renewer]
    /\ pod \in [Pods -> PodState]
    /\ rooms \in [Rooms -> Room]
    /\ conn \in [Conns -> Connection]
    /\ stream \in [Conns -> Stream]
    /\ archived \in BOOLEAN
    /\ spent \in [faults: Nat, drains: Nat]

\* Whoever is under way is somewhere: a handler on a pod, a resolved handler's
\* owner, a stream's owner and the holder of every lease minted so far.
Located ==
    /\ lease <= generation
    /\ \A g \in Gens : g <= generation => ren[g].pod \in Pods
    /\ \A c \in Conns : conn[c].pc \notin {"idle", "done"} => conn[c].pod \in Pods
    /\ \A c \in Conns : conn[c].pc \notin {"idle", "lookup", "acquire", "done"}
                           => conn[c].own \in Pods
    /\ \A c \in Conns : stream[c].pc # "none" => stream[c].own \in Pods

-----------------------------------------------------------------------------
(***************************************************************************)
(* Types.                                                                  *)
(***************************************************************************)
\* The initial values, and those a crash or the end of a handler goes back to.
LEMMA FreshTypes ==
    /\ MaxGen \in Nat /\ Gens \subseteq MaybeGen /\ 0 \in MaybeGen
    /\ NoRenewer \in Renewer /\ NoPod \in PodState /\ NewRoom \in Room
    /\ NoConn \in Connection /\ NoStream \in Stream
    /\ [NoConn EXCEPT !.pc = "done"] \in Connection
    /\ [NoPod EXCEPT !.up = FALSE] \in PodState
<1>1. MaxGen \in Nat
    BY BoundsAssumption
<1>2. Gens \subseteq MaybeGen /\ 0 \in MaybeGen
    BY <1>1 DEF Gens, MaybeGen
<1> HIDE DEF MaybeGen
<1>3. NoRenewer \in Renewer
    BY DEF NoRenewer, Renewer, MaybePod
<1>4. NoPod \in PodState /\ [NoPod EXCEPT !.up = FALSE] \in PodState
    BY <1>2 DEF NoPod, PodState, MaybeRoom
<1>5. NewRoom \in Room
    BY DEF NewRoom, Room
<1>6. NoConn \in Connection /\ [NoConn EXCEPT !.pc = "done"] \in Connection
    BY <1>2 DEF NoConn, Connection, ConnPc, MaybePod, MaybeRoom
<1>7. NoStream \in Stream
    BY <1>2 DEF NoStream, Stream, StreamPc, Reply, MaybePod, MaybeRoom
<1> QED BY <1>1, <1>2, <1>3, <1>4, <1>5, <1>6, <1>7

\* A handler moves on, or ends.
LEMMA GotoTypes ==
    ASSUME TypeOK, NEW c \in Conns, NEW pc \in ConnPc, Goto(c, pc)
    PROVE  conn' \in [Conns -> Connection]
BY DEF TypeOK, Goto, Connection

LEMMA FinishTypes ==
    ASSUME TypeOK, NEW c \in Conns, Finish(c)
    PROVE  conn' \in [Conns -> Connection]
BY FreshTypes DEF TypeOK, Finish

\* A fault is counted.
LEMMA FaultTypes ==
    ASSUME TypeOK, Fault
    PROVE  spent' \in [faults: Nat, drains: Nat] /\ spent'.faults # 0
BY DEF TypeOK, Fault

\* get_or_create yields a room of the pod's.
LEMMA GetOrCreateTypes ==
    ASSUME TypeOK, NEW p \in MaybePod, NEW r \in Rooms, GetOrCreate(p, r)
    PROVE  /\ pod' \in [Pods -> PodState] /\ rooms' \in [Rooms -> Room]
           /\ \A q \in Pods : /\ pod'[q].entry = pod[q].entry
                              /\ pod'[q].drain = pod[q].drain
                              /\ pod'[q].listed = pod[q].listed
BY FreshTypes DEF TypeOK, GetOrCreate, PodState, MaybeRoom

\* cleanup_if_empty unmaps a room.
LEMMA CleanupTypes ==
    ASSUME TypeOK, NEW p, CleanupIfEmpty(p)
    PROVE  /\ pod' \in [Pods -> PodState]
           /\ \A q \in Pods : /\ pod'[q].entry = pod[q].entry
                              /\ pod'[q].drain = pod[q].drain
                              /\ pod'[q].listed = pod[q].listed
BY ZenonT(60) DEF TypeOK, CleanupIfEmpty, PodState, MaybeRoom

\* A minted lease takes the next generation.
LEMMA MintTypes ==
    ASSUME TypeOK, NEW p \in MaybePod, Mint(p)
    PROVE  /\ lease' \in MaybeGen /\ generation' \in MaybeGen /\ generation + 1 \in Gens
           /\ ren' \in [Gens -> Renewer]
<1>1. generation + 1 \in Gens /\ generation + 1 \in MaybeGen
    BY FreshTypes DEF TypeOK, Mint, Gens, MaybeGen
<1>2. [NoRenewer EXCEPT !.pod = p] \in Renewer
    BY FreshTypes DEF Renewer
<1>3. lease' \in MaybeGen /\ generation' \in MaybeGen
    BY <1>1 DEF Mint
<1> QED BY <1>1, <1>2, <1>3 DEF TypeOK, Mint

\* A lease that is held names its renewer.
LEMMA ResolvedTypes ==
    ASSUME TypeOK, NEW c \in Conns, Resolved(c), lease # 0
    PROVE  /\ conn' \in [Conns -> Connection]
<1>1. lease \in Gens
    BY FreshTypes DEF TypeOK, MaybeGen, Gens
<1>2. ren[lease].pod \in MaybePod /\ lease \in MaybeGen
    BY <1>1 DEF TypeOK, Renewer
<1>3. {"ready", "validate"} \subseteq ConnPc
    BY DEF ConnPc
<1>4. conn \in [Conns -> Connection]
    BY DEF TypeOK
<1> QED BY ZenonT(60), <1>2, <1>3, <1>4 DEF Resolved, Connection

\* The owner's end of a stream goes, and its peer from the room.
LEMMA CloseTypes ==
    ASSUME TypeOK, NEW c \in Conns, NEW how \in StreamPc, Close(c, how)
    PROVE  stream' \in [Conns -> Stream]
<1>1. stream \in [Conns -> Stream] /\ None \in MaybeRoom
    BY DEF TypeOK, MaybeRoom
<1> QED BY <1>1, FreshTypes DEF Close, Stream

LEMMA DropPeerTypes ==
    ASSUME TypeOK, NEW c \in Conns, DropPeer(c)
    PROVE  rooms' \in [Rooms -> Room]
BY ZenonT(60) DEF TypeOK, DropPeer, Room

LEMMA LoopEndsTypes ==
    ASSUME TypeOK, NEW c \in Conns, LoopEnds(c)
    PROVE  stream' \in [Conns -> Stream] /\ rooms' \in [Rooms -> Room]
BY CloseTypes, DropPeerTypes DEF LoopEnds, StreamPc

\* The archive failed.
LEMMA NotArchivedTypes ==
    ASSUME TypeOK, NEW c \in Conns, NotArchived(c)
    PROVE  rooms' \in [Rooms -> Room] /\ conn' \in [Conns -> Connection]
<1>1. rooms' \in [Rooms -> Room]
    BY ZenonT(60) DEF NotArchived, TypeOK, Room
<1> QED BY <1>1, FinishTypes DEF NotArchived

LEMMA AddPeerTypes ==
    ASSUME TypeOK, NEW c \in Conns, NEW r, AddPeer(c, r)
    PROVE  rooms' \in [Rooms -> Room]
BY ZenonT(60) DEF TypeOK, AddPeer, Room

LEMMA RetractTypes ==
    ASSUME TypeOK, NEW p, NEW g, Retract(p, g)
    PROVE  pod' \in [Pods -> PodState]
BY FreshTypes DEF TypeOK, Retract, PodState


\* The values a handler's and a stream's fields hold.
LEMMA ConnFields ==
    ASSUME TypeOK, NEW c \in Conns
    PROVE  /\ Pod(c) \in MaybePod /\ conn[c].own \in MaybePod
           /\ conn[c].gen \in MaybeGen /\ conn[c].room \in MaybeRoom
           /\ conn[c].tries \in Nat
           /\ stream[c].own \in MaybePod /\ stream[c].gen \in MaybeGen
           /\ \A p \in Pods : pod[p].entry \in MaybeGen
BY DEF TypeOK, Connection, Stream, PodState, Pod

\* The initial state.
LEMMA TypeInit == Init => TypeOK /\ Located
<1> SUFFICES ASSUME Init PROVE TypeOK /\ Located
    OBVIOUS
<1>1. TypeOK
    BY FreshTypes DEF Init, TypeOK
<1>2. Located
    BY FreshTypes DEF Init, Located, NoConn, NoStream, Gens
<1> QED BY <1>1, <1>2

\* Every step of a connection's handler keeps the types.
LEMMA ConnTypes ==
    ASSUME TypeOK, Located, NEW c \in Conns, ConnStep(c)
    PROVE  TypeOK'
<1> USE DEF At
<1>a. conn \in [Conns -> Connection]
    BY DEF TypeOK
<1>b. stream \in [Conns -> Stream]
    BY DEF TypeOK
<1>c. ren \in [Gens -> Renewer]
    BY DEF TypeOK
<1>d. rooms \in [Rooms -> Room]
    BY DEF TypeOK
<1>e. /\ {"room", "lookup", "check", "live", "recheck", "signals2"} \subseteq ConnPc
      /\ None \in MaybePod /\ Rooms \subseteq MaybeRoom
    BY DEF ConnPc, MaybePod, MaybeRoom
<1>1. CASE LookUp(c)
    BY <1>1, ResolvedTypes, GotoTypes DEF LookUp, ConnPc, TypeOK
<1>2. CASE Acquire(c)
    <2>1. CASE lease # 0
        BY <1>2, <2>1, ResolvedTypes DEF Acquire, TypeOK
    <2>2. CASE lease = 0
        <3>1. /\ lease' \in MaybeGen /\ generation' \in MaybeGen
              /\ ren' \in [Gens -> Renewer] /\ generation + 1 \in MaybeGen
            BY <1>2, <2>2, MintTypes, ConnFields, FreshTypes DEF Acquire
        <3>2. conn' \in [Conns -> Connection]
            BY <1>2, <2>2, <3>1, ConnFields DEF Acquire, TypeOK, Connection, ConnPc
        <3> QED BY <1>2, <3>1, <3>2 DEF Acquire, TypeOK
    <2> QED BY <2>1, <2>2
<1>3. CASE OwnerReady(c)
    <2>1. conn' \in [Conns -> Connection]
        <3>1. CASE Goto(c, "room") \/ Finish(c)
            BY <3>1, GotoTypes, FinishTypes DEF ConnPc
        <3>2. CASE conn' = [conn EXCEPT ![c].tries = @ + 1, ![c].pc = "lookup",
                                   ![c].own = None, ![c].gen = 0]
            <4> DEFINE n == conn[c].tries + 1
            <4>1. n \in Nat /\ 0 \in MaybeGen
                BY ConnFields, FreshTypes
            <4>2. conn' = [conn EXCEPT ![c].tries = n, ![c].pc = "lookup",
                                       ![c].own = None, ![c].gen = 0]
                BY <3>2
            <4> HIDE DEF n
            <4>3. [conn[c] EXCEPT !.tries = n, !.pc = "lookup", !.own = None, !.gen = 0]
                     \in Connection
                BY <1>a, <1>e, <4>1 DEF Connection
            <4>4. conn' = [conn EXCEPT ![c] = [conn[c] EXCEPT !.tries = n, !.pc = "lookup",
                                                              !.own = None, !.gen = 0]]
                BY <1>a, <4>2
            <4> QED BY <1>a, <4>3, <4>4
        <3> QED BY <1>3, <3>1, <3>2 DEF OwnerReady
    <2> QED BY <1>3, <2>1 DEF OwnerReady, TypeOK
<1>4. CASE ValidateOwner(c)
    BY <1>4, GotoTypes, FinishTypes DEF ValidateOwner, ConnPc, TypeOK
<1>5. CASE EnterRoom(c)
    <2>1. PICK r \in Rooms : /\ GetOrCreate(Pod(c), r)
                             /\ conn' = [conn EXCEPT ![c].room = r, ![c].pc = "check"]
        BY <1>5 DEF EnterRoom
    <2>2. conn' \in [Conns -> Connection]
        BY <1>a, <1>e, <2>1 DEF Connection
    <2> QED BY <1>5, <2>1, <2>2, GetOrCreateTypes, ConnFields DEF EnterRoom, TypeOK
<1>6. CASE CheckChannel(c)
    BY <1>6, CleanupTypes, FinishTypes, GotoTypes DEF CheckChannel, ConnPc, TypeOK
<1>7. CASE Admit(c)
    BY <1>7, AddPeerTypes, GotoTypes DEF Admit, ConnPc, TypeOK
<1>8. CASE Refuse(c)
    BY <1>8, FinishTypes DEF Refuse, TypeOK
<1>9. CASE Attach(c)
    <2>1. ren' \in [Gens -> Renewer]
        BY <1>9 DEF Attach, Throwaway, TypeOK, Renewer
    <2>2. conn' \in [Conns -> Connection]
        <3>1. Pod(c) \in Pods
            BY <1>9 DEF Attach, Located, Pod
        <3>2. conn[c].gen \in MaybeGen /\ pod[Pod(c)].entry \in MaybeGen
            BY <3>1, ConnFields
        <3> QED BY SMTT(40), <1>9, <3>2, GotoTypes DEF Attach, TypeOK, Connection, ConnPc
    <2> QED BY <1>9, <2>1, <2>2 DEF Attach, TypeOK
<1>10. CASE Insert(c)
    <2>1. ren' \in [Gens -> Renewer]
        BY ZenonT(60), <1>10 DEF Insert, TypeOK, Renewer
    <2>2. pod' \in [Pods -> PodState]
        BY ZenonT(60), <1>10, ConnFields DEF Insert, TypeOK, PodState
    <2>3. conn' \in [Conns -> Connection]
        <3>1. conn[c].gen \in MaybeGen
            BY ConnFields
        <3> QED BY ZenonT(60), <1>a, <1>e, <1>10, <3>1 DEF Insert, Connection
    <2> QED BY <1>10, <2>1, <2>2, <2>3 DEF Insert, TypeOK
<1>11. CASE Recheck(c)
    <2>1. ren' \in [Gens -> Renewer]
        <3>1. CASE ren' = [ren EXCEPT ![conn[c].gen].cancel = TRUE, ![conn[c].gen].drain = TRUE]
            BY ZenonT(60), <1>c, <3>1 DEF Renewer
        <3>2. CASE ren' = ren
            BY <1>c, <3>2
        <3> QED BY <1>11, <3>1, <3>2 DEF Recheck
    <2>2. pod' \in [Pods -> PodState]
        BY <1>11, RetractTypes DEF Recheck, TypeOK
    <2> QED BY <1>11, <2>1, <2>2, GotoTypes DEF Recheck, TypeOK, ConnPc
<1>12. CASE Signals(c)
    <2>1. Pod(c) \in Pods
        BY <1>12 DEF Signals, Located, Pod
    <2>2. pod[Pod(c)].entry \in MaybeGen
        BY <2>1, ConnFields
    <2>3. conn' \in [Conns -> Connection]
        BY SMTT(40), <1>12, <2>2 DEF Signals, TypeOK, Connection, ConnPc
    <2> QED BY <1>12, <2>3 DEF Signals, TypeOK
<1>13. CASE Dial(c)
    <2>1. conn' \in [Conns -> Connection]
        BY <1>13, GotoTypes, FinishTypes DEF Dial, ConnPc
    <2>2. pod' \in [Pods -> PodState]
        BY <1>13, CleanupTypes DEF Dial, TypeOK
    <2>3. stream' \in [Conns -> Stream]
        <3>1. [NoStream EXCEPT !.pc = "hello", !.own = conn[c].own, !.gen = conn[c].gen]
                 \in Stream
            BY FreshTypes, ConnFields DEF Stream, StreamPc
        <3> QED BY <1>13, <3>1 DEF Dial, TypeOK
    <2> QED BY <1>13, <2>1, <2>2, <2>3 DEF Dial, TypeOK
<1>14. CASE Registered(c)
    BY <1>14, AddPeerTypes, GotoTypes DEF Registered, ConnPc, TypeOK
<1>15. CASE MirrorRefused(c)
    <2>1. stream' \in [Conns -> Stream]
        BY ZenonT(60), <1>b, <1>15 DEF MirrorRefused, Stream
    <2> QED BY <1>15, <2>1, FinishTypes DEF MirrorRefused, TypeOK
<1>16. CASE DialFails(c)
    <2>1. stream' \in [Conns -> Stream]
        BY <1>b, <1>16 DEF DialFails, Stream
    <2> QED BY <1>16, <2>1, FinishTypes, CleanupTypes DEF DialFails, TypeOK
<1>17. CASE TornDown(c)
    BY <1>17, GotoTypes DEF TornDown, ConnPc, TypeOK
<1>18. CASE RemovePeer(c)
    <2>1. rooms' \in [Rooms -> Room]
        <3> DEFINE r == conn[c].room
                   b == rooms[r].ended \/ (IsLocalOwner(c) /\ ~rooms[r].ended
                                            /\ rooms[r].peers = {c})
        <3>1. b \in BOOLEAN
            OBVIOUS
        <3>2. rooms' = [rooms EXCEPT ![r].peers = @ \ {c}, ![r].ended = b]
            BY <1>18 DEF RemovePeer
        <3> HIDE DEF b, r
        <3> QED BY <1>d, <3>1, <3>2 DEF Room
    <2>2. stream' \in [Conns -> Stream]
        <3> DEFINE b == ~IsLocalOwner(c)
        <3>1. b \in BOOLEAN
            OBVIOUS
        <3>2. stream' = [stream EXCEPT ![c].fin = b]
            BY <1>18 DEF RemovePeer
        <3> HIDE DEF b
        <3> QED BY <1>b, <3>1, <3>2 DEF Stream
    <2>3. conn' \in [Conns -> Connection]
        BY <1>18, GotoTypes DEF RemovePeer, ConnPc
    <2> QED BY <1>18, <2>1, <2>2, <2>3 DEF RemovePeer, TypeOK
<1>19. CASE Archive(c)
    BY <1>19, GotoTypes DEF Archive, ConnPc, TypeOK
<1>20. CASE CleanUp(c)
    BY <1>20, GotoTypes, FinishTypes, CleanupTypes DEF CleanUp, ConnPc, TypeOK
<1>21. CASE RegistryRelease(c)
    <2>1. ren' \in [Gens -> Renewer]
        BY ZenonT(60), <1>21 DEF RegistryRelease, TypeOK, Renewer
    <2> QED BY <1>21, <2>1, FinishTypes, RetractTypes DEF RegistryRelease, TypeOK
<1>22. CASE ArchiveCheck(c)
    <2>1. CASE NotArchived(c)
        BY <1>22, <2>1, NotArchivedTypes DEF ArchiveCheck, TypeOK
    <2>2. CASE Goto(c, "update") /\ UNCHANGED rooms
        BY <1>22, <2>2, GotoTypes DEF ArchiveCheck, ConnPc, TypeOK
    <2> QED BY <1>22, <2>1, <2>2 DEF ArchiveCheck
<1> QED BY <1>1, <1>2, <1>3, <1>4, <1>5, <1>6, <1>7, <1>8, <1>9, <1>10, <1>11, <1>12,
           <1>13, <1>14, <1>15, <1>16, <1>17, <1>18, <1>19, <1>20, <1>21, <1>22
        DEF ConnStep

\* Every step of the owner's loop of a stream keeps the types.
LEMMA OwnerTypes ==
    ASSUME TypeOK, Located, NEW c \in Conns,
           OwnerStep(c) \/ StreamError(c) \/ RosterSendFails(c)
    PROVE  TypeOK'
<1>a. stream \in [Conns -> Stream]
    BY DEF TypeOK
<1>b. /\ Rooms \subseteq MaybeRoom /\ None \in MaybeRoom
      /\ {"hello2", "register", "fence", "add", "serve"} \subseteq StreamPc
      /\ {"registered", "rejected"} \subseteq Reply
    BY DEF MaybeRoom, StreamPc, Reply
<1>1. CASE Accept(c)
    <2>1. stream[c].own \in Pods
        BY <1>1 DEF Accept, Located
    <2>2. pod[stream[c].own].entry \in MaybeGen
        BY <2>1, ConnFields
    <2>3. stream' \in [Conns -> Stream]
        BY <1>a, <1>b, <1>1, <2>2 DEF Accept, Stream
    <2> QED BY <1>1, <2>3 DEF Accept, TypeOK
<1>2. CASE Register(c)
    <2>1. CASE IsDraining(stream[c].own)
        BY <1>2, <2>1, LoopEndsTypes DEF Register, TypeOK
    <2>2. CASE ~IsDraining(stream[c].own)
        <3>1. PICK r \in Rooms :
                /\ GetOrCreate(stream[c].own, r)
                /\ stream' = [stream EXCEPT ![c].pc = "fence", ![c].room = r]
            BY <1>2, <2>2 DEF Register
        <3>2. stream' \in [Conns -> Stream]
            BY ZenonT(60), <1>a, <1>b, <3>1 DEF Stream
        <3>3. pod' \in [Pods -> PodState] /\ rooms' \in [Rooms -> Room]
            BY <3>1, GetOrCreateTypes, ConnFields
        <3> QED BY <1>2, <3>2, <3>3 DEF Register, TypeOK
    <2> QED BY <2>1, <2>2
<1>3. CASE Fence(c)
    <2> DEFINE ok == Valid(stream[c].own, stream[c].gen)
               s == [stream[c] EXCEPT !.pc = IF ok THEN "add" ELSE "serve",
                                      !.room = IF ok THEN @ ELSE None,
                                      !.reply = IF ok THEN @ ELSE "rejected"]
    <2>1. s \in Stream
        BY <1>a, <1>b DEF Stream
    <2>2. stream' = [stream EXCEPT ![c] = s]
        BY <1>a, <1>3 DEF Fence
    <2> HIDE DEF s
    <2>3. stream' \in [Conns -> Stream]
        BY <1>a, <2>1, <2>2
    <2> QED BY <1>3, <2>3 DEF Fence, TypeOK
<1>4. CASE RegisterPeer(c)
    <2> DEFINE s == [stream[c] EXCEPT !.pc = "serve", !.reply = "registered", !.member = TRUE]
    <2>1. s \in Stream
        BY <1>a, <1>b DEF Stream
    <2>2. stream' = [stream EXCEPT ![c] = s]
        BY <1>a, <1>4 DEF RegisterPeer
    <2> HIDE DEF s
    <2>3. stream' \in [Conns -> Stream]
        BY <1>a, <2>1, <2>2
    <2> QED BY <1>4, <2>3, AddPeerTypes DEF RegisterPeer, TypeOK
<1>5. CASE RegisterRefused(c)
    <2>1. stream' \in [Conns -> Stream]
        BY ZenonT(60), <1>a, <1>b, <1>5 DEF RegisterRefused, Stream
    <2> QED BY <1>5, <2>1 DEF RegisterRefused, TypeOK
<1>6. CASE LoopCloses(c)
    BY <1>6, LoopEndsTypes DEF LoopCloses, TypeOK
<1>7. CASE StreamError(c) \/ RosterSendFails(c)
    <2>1. stream' \in [Conns -> Stream]
        BY <1>7, CloseTypes DEF StreamError, RosterSendFails, StreamPc
    <2>2. rooms' \in [Rooms -> Room]
        BY <1>7, DropPeerTypes DEF StreamError, RosterSendFails, TypeOK
    <2> QED BY <1>7, <2>1, <2>2, FaultTypes DEF StreamError, RosterSendFails, TypeOK
<1> QED BY <1>1, <1>2, <1>3, <1>4, <1>5, <1>6, <1>7 DEF OwnerStep

\* A client arrives or leaves, and the errors of its handler's path.
LEMMA ClientTypes ==
    ASSUME TypeOK, NEW c \in Conns,
           \/ \E p \in Pods : Join(c, p)
           \/ Leave(c) \/ AcquireReplyLost(c) \/ ResolveError(c) \/ CheckError(c)
           \/ ArchiveFails(c)
    PROVE  TypeOK'
<1>a. conn \in [Conns -> Connection]
    BY DEF TypeOK
<1>b. {"lookup", "closing"} \subseteq ConnPc /\ Pods \subseteq MaybePod
    BY DEF ConnPc, MaybePod
<1>1. ASSUME NEW p \in Pods, Join(c, p) PROVE TypeOK'
    <2>1. conn' \in [Conns -> Connection]
        BY <1>a, <1>b, <1>1 DEF Join, Connection
    <2> QED BY <1>1, <2>1 DEF Join, TypeOK
<1>2. CASE Leave(c)
    BY <1>b, <1>2, GotoTypes DEF Leave, TypeOK
<1>3. CASE AcquireReplyLost(c)
    <2>1. /\ lease' \in MaybeGen /\ generation' \in MaybeGen /\ ren' \in [Gens -> Renewer]
        BY <1>3, MintTypes, ConnFields DEF AcquireReplyLost
    <2> QED BY <1>3, <2>1, FinishTypes, FaultTypes DEF AcquireReplyLost, TypeOK
<1>4. CASE ResolveError(c)
    BY <1>4, FinishTypes, FaultTypes DEF ResolveError, TypeOK
<1>5. CASE CheckError(c)
    BY <1>5, FinishTypes, FaultTypes, CleanupTypes DEF CheckError, TypeOK
<1>6. CASE ArchiveFails(c)
    <2>1. archived' \in BOOLEAN
        BY <1>6 DEF ArchiveFails, At, TypeOK
    <2> QED BY <1>6, <2>1, NotArchivedTypes, FaultTypes DEF ArchiveFails, TypeOK
<1> QED BY <1>1, <1>2, <1>3, <1>4, <1>5, <1>6

\* A renewer's steps, and the lease's own expiry.
LEMMA RenewerTypes ==
    ASSUME TypeOK, NEW g \in Gens,
           RenewerStep(g) \/ RenewError(g) \/ ReleaseError(g) \/ Expire
    PROVE  TypeOK'
<1>a. ren \in [Gens -> Renewer]
    BY DEF TypeOK
<1>1. CASE RenewLost(g)
    <2>1. ren' \in [Gens -> Renewer]
        BY ZenonT(60), <1>a, <1>1 DEF RenewLost, Renewer
    <2> QED BY <1>1, <2>1 DEF RenewLost, TypeOK
<1>2. CASE RenewerCancelled(g)
    <2>1. ren' \in [Gens -> Renewer]
        BY ZenonT(60), <1>a, <1>2 DEF RenewerCancelled, Renewer
    <2> QED BY <1>2, <2>1 DEF RenewerCancelled, TypeOK
<1>3. CASE Release(g)
    <2> DEFINE b == ren[g].lost \/ lease # g
    <2>1. ren' = [ren EXCEPT ![g].pc = "done", ![g].lost = b] /\ b \in BOOLEAN
        BY <1>3 DEF Release
    <2> HIDE DEF b
    <2>2. ren' \in [Gens -> Renewer]
        BY <1>a, <2>1 DEF Renewer
    <2>3. lease' \in MaybeGen
        BY <1>3, FreshTypes DEF Release, TypeOK
    <2> QED BY <1>3, <2>2, <2>3 DEF Release, TypeOK
<1>4. CASE RenewError(g)
    <2>1. ren' \in [Gens -> Renewer]
        BY ZenonT(60), <1>a, <1>4 DEF RenewError, Renewer
    <2> QED BY <1>4, <2>1, FaultTypes DEF RenewError, TypeOK
<1>5. CASE ReleaseError(g)
    <2> DEFINE b == ren[g].lost \/ ~ren[g].quiet
    <2>1. ren' = [ren EXCEPT ![g].pc = "done", ![g].lost = b] /\ b \in BOOLEAN
        BY <1>5 DEF ReleaseError
    <2> HIDE DEF b
    <2>2. ren' \in [Gens -> Renewer]
        BY <1>a, <2>1 DEF Renewer
    <2>3. lease' \in MaybeGen
        BY <1>5, FreshTypes DEF ReleaseError, TypeOK
    <2> QED BY <1>5, <2>2, <2>3, FaultTypes DEF ReleaseError, TypeOK
<1>6. CASE Expire
    BY <1>6, FreshTypes, FaultTypes DEF Expire, NoFault, TypeOK
<1> QED BY <1>1, <1>2, <1>3, <1>4, <1>5, <1>6 DEF RenewerStep

\* Drain and crash.
LEMMA PodTypes ==
    ASSUME TypeOK, Located, NEW p \in Pods, BeginDrain(p) \/ DrainStep(p) \/ Crash(p)
    PROVE  TypeOK'
<1>a. ren \in [Gens -> Renewer]
    BY DEF TypeOK
<1>b. pod \in [Pods -> PodState]
    BY DEF TypeOK
<1>c. stream \in [Conns -> Stream]
    BY DEF TypeOK
<1>1. CASE BeginDrain(p)
    <2>1. pod' \in [Pods -> PodState]
        BY <1>b, <1>1 DEF BeginDrain, PodState
    <2>2. spent' \in [faults: Nat, drains: Nat]
        BY <1>1 DEF BeginDrain, TypeOK
    <2> QED BY <1>1, <2>1, <2>2 DEF BeginDrain, TypeOK
<1>2. CASE DrainList(p)
    <2>1. pod' \in [Pods -> PodState]
        BY ZenonT(60), <1>b, <1>2 DEF DrainList, PodState
    <2> QED BY <1>2, <2>1 DEF DrainList, TypeOK
<1>3. CASE DrainRoom(p)
    <2>1. pod' \in [Pods -> PodState]
        BY <1>b, <1>3, FreshTypes DEF DrainRoom, PodState
    <2>2. ren' \in [Gens -> Renewer]
        BY ZenonT(60), <1>a, <1>3 DEF DrainRoom, Renewer
    <2> QED BY <1>3, <2>1, <2>2 DEF DrainRoom, TypeOK
<1>4. CASE Crash(p)
    <2>1. pod' \in [Pods -> PodState]
        BY <1>b, <1>4, FreshTypes DEF Crash
    <2>2. ren' \in [Gens -> Renewer]
        BY <1>a, <1>4 DEF Crash, Renewer
    <2>3. rooms' \in [Rooms -> Room]
        BY <1>4, FreshTypes DEF Crash, TypeOK
    <2>4. conn' \in [Conns -> Connection]
        BY <1>4, FreshTypes DEF Crash, TypeOK
    <2>5. stream' \in [Conns -> Stream]
        <3> SUFFICES ASSUME NEW c \in Conns PROVE stream'[c] \in Stream
            BY <1>4 DEF Crash
        <3>1. stream[c] \in Stream /\ None \in MaybeRoom /\ "broken" \in StreamPc
            BY <1>c DEF MaybeRoom, StreamPc
        <3> DEFINE b == stream[c].fin \/ (Pod(c) = p /\ stream[c].pc # "none")
        <3>2. b \in BOOLEAN
            OBVIOUS
        <3>3. CASE stream[c].own = p
            BY <1>4, <3>1, <3>3 DEF Crash, Stream
        <3>4. CASE stream[c].own # p
            <4>1. stream'[c] = [stream[c] EXCEPT !.fin = b]
                BY <1>4, <3>4 DEF Crash
            <4> HIDE DEF b
            <4> QED BY <3>1, <3>2, <4>1 DEF Stream
        <3> QED BY <3>3, <3>4
    <2> QED BY <1>4, <2>1, <2>2, <2>3, <2>4, <2>5, FaultTypes DEF Crash, TypeOK
<1> QED BY <1>1, <1>2, <1>3, <1>4 DEF DrainStep

-----------------------------------------------------------------------------
(***************************************************************************)
(* Whoever is under way is somewhere.                                      *)
(***************************************************************************)
\* A step that leaves the leases alone and moves one connection at most.
LEMMA Moved ==
    ASSUME Located, NEW c \in Conns, UNCHANGED <<lease, generation>>,
           \A g \in Gens : ren'[g].pod = ren[g].pod,
           \A d \in Conns \ {c} : conn'[d] = conn[d],
           conn'[c].pc \notin {"idle", "done"} => conn'[c].pod \in Pods,
           conn'[c].pc \notin {"idle", "lookup", "acquire", "done"} => conn'[c].own \in Pods,
           \A d \in Conns : stream'[d].pc # "none" => stream'[d].own \in Pods
    PROVE  Located'
BY DEF Located

\* Only the program counter changes, or everything is forgotten.
LEMMA GotoFacts ==
    ASSUME TypeOK, NEW c \in Conns, NEW pc, Goto(c, pc)
    PROVE  /\ \A d \in Conns \ {c} : conn'[d] = conn[d]
           /\ conn'[c] = [conn[c] EXCEPT !.pc = pc]
           /\ conn'[c].pc = pc /\ conn'[c].pod = conn[c].pod /\ conn'[c].own = conn[c].own
           /\ conn'[c].gen = conn[c].gen /\ conn'[c].minted = conn[c].minted
<1>1. conn \in [Conns -> Connection] /\ conn[c] \in Connection
    BY DEF TypeOK
<1>2. conn' = [conn EXCEPT ![c] = [conn[c] EXCEPT !.pc = pc]]
    BY <1>1 DEF Goto
<1> QED BY <1>1, <1>2 DEF Connection

LEMMA FinishFacts ==
    ASSUME TypeOK, NEW c \in Conns, Finish(c)
    PROVE  /\ \A d \in Conns \ {c} : conn'[d] = conn[d]
           /\ conn'[c].pc = "done" /\ ~conn'[c].minted
BY DEF TypeOK, Finish, NoConn

\* A step that only moves the handler on.
LEMMA GotoLocated ==
    ASSUME TypeOK, Located, NEW c \in Conns, NEW pc, Goto(c, pc),
           conn[c].pc \notin {"idle", "done"},
           conn[c].pc \in {"lookup", "acquire"} => pc \in {"lookup", "acquire"},
           UNCHANGED <<lease, generation>>,
           \A g \in Gens : ren'[g].pod = ren[g].pod,
           \A d \in Conns : stream'[d].pc # "none" => stream'[d].own \in Pods
    PROVE  Located'
<1>1. conn[c].pod \in Pods
    BY DEF Located
<1>2. pc \notin {"lookup", "acquire"} => conn[c].own \in Pods
    BY DEF Located
<1>3. /\ \A d \in Conns \ {c} : conn'[d] = conn[d]
      /\ conn'[c].pc = pc /\ conn'[c].pod = conn[c].pod /\ conn'[c].own = conn[c].own
    BY GotoFacts
<1>4. conn'[c].pc \notin {"idle", "lookup", "acquire", "done"} => conn'[c].own \in Pods
    BY <1>2, <1>3
<1> QED BY <1>1, <1>3, <1>4, Moved

\* A step that ends the handler.
LEMMA FinishLocated ==
    ASSUME TypeOK, Located, NEW c \in Conns, Finish(c),
           UNCHANGED <<lease, generation>>,
           \A g \in Gens : ren'[g].pod = ren[g].pod,
           \A d \in Conns : stream'[d].pc # "none" => stream'[d].own \in Pods
    PROVE  Located'
BY FinishFacts, Moved

\* What a live lease names.
LEMMA ResolvedLocated ==
    ASSUME TypeOK, Located, NEW c \in Conns, Resolved(c), lease # 0,
           conn[c].pc \notin {"idle", "done"},
           UNCHANGED <<lease, generation, ren, stream>>
    PROVE  /\ Located'
           /\ \A d \in Conns \ {c} : conn'[d] = conn[d]
           /\ conn'[c].pc \in {"ready", "validate"} /\ conn'[c].minted = conn[c].minted
<1>1. lease \in Gens /\ lease <= generation
    BY FreshTypes DEF TypeOK, Located, Gens, MaybeGen
<1>2. ren[lease].pod \in Pods /\ conn[c].pod \in Pods
    BY <1>1 DEF Located
<1>3. conn \in [Conns -> Connection] /\ conn[c] \in Connection
    BY DEF TypeOK
<1>4. /\ \A d \in Conns \ {c} : conn'[d] = conn[d]
      /\ conn'[c].pod = conn[c].pod /\ conn'[c].own = ren[lease].pod
      /\ conn'[c].minted = conn[c].minted
      /\ conn'[c].pc \in {"ready", "validate"}
    BY <1>3 DEF Resolved, Connection
<1> QED BY <1>2, <1>4, Moved DEF Located

\* Minting a lease for a pod.
LEMMA MintLocated ==
    ASSUME TypeOK, Located, NEW p \in Pods, Mint(p)
    PROVE  /\ lease' <= generation'
           /\ \A g \in Gens : g <= generation' => ren'[g].pod \in Pods
           /\ \A g \in Gens : g # generation + 1 => ren'[g] = ren[g]
           /\ ren'[generation + 1] = [NoRenewer EXCEPT !.pod = p]
<1>0. p \in MaybePod /\ generation \in MaybeGen
    BY DEF MaybePod, TypeOK
<1>1. /\ generation \in Nat /\ generation + 1 \in Gens /\ generation + 1 \in Nat
      /\ generation' = generation + 1 /\ lease' = generation + 1
    <2>1. generation + 1 \in Gens
        BY <1>0, MintTypes
    <2>2. generation \in Nat
        BY <1>0, FreshTypes DEF MaybeGen
    <2> QED BY <2>1, <2>2 DEF Mint
<1>2. /\ \A g \in Gens : g # generation + 1 => ren'[g] = ren[g]
      /\ ren'[generation + 1] = [NoRenewer EXCEPT !.pod = p]
    BY <1>1 DEF Mint, TypeOK
<1>3. [NoRenewer EXCEPT !.pod = p].pod = p
    BY DEF NoRenewer
<1>4. ASSUME NEW g \in Gens, g <= generation', g # generation + 1
      PROVE  g <= generation
    BY <1>1, <1>4, FreshTypes DEF Gens
<1>5. ASSUME NEW g \in Gens, g <= generation' PROVE ren'[g].pod \in Pods
    <2>1. CASE g = generation + 1
        BY <1>2, <1>3, <2>1
    <2>2. CASE g # generation + 1
        BY <1>2, <1>4, <1>5, <2>2 DEF Located
    <2> QED BY <2>1, <2>2
<1>6. lease' <= generation'
    BY <1>1
<1> QED BY <1>2, <1>5, <1>6

\* No token of a renewer says where it is.
LEMMA RenewersStay ==
    ASSUME TypeOK, NEW g,
           \/ ren' = [ren EXCEPT ![g].pc = "run", ![g].cancel = TRUE, ![g].drain = TRUE]
           \/ ren' = [ren EXCEPT ![g].pc = "run", ![g].cancel = TRUE]
           \/ ren' = [ren EXCEPT ![g].pc = "run"]
           \/ ren' = [ren EXCEPT ![g].cancel = TRUE, ![g].drain = TRUE]
           \/ ren' = [ren EXCEPT ![g].drain = TRUE, ![g].cancel = TRUE]
           \/ ren' = [ren EXCEPT ![g].cancel = TRUE]
           \/ ren' = ren
    PROVE  /\ \A h \in Gens : ren'[h].pod = ren[h].pod /\ ren'[h].lost = ren[h].lost
           /\ \A h \in Gens \ {g} : ren'[h] = ren[h]
           /\ \A h \in Gens : ren'[h].pc # ren[h].pc => h = g /\ ren'[h].pc = "run"
<1>1. ren \in [Gens -> Renewer]
    BY DEF TypeOK
<1> QED BY <1>1 DEF Renewer

\* Every step of a connection's handler.
LEMMA ConnLocated ==
    ASSUME TypeOK, Located, NEW c \in Conns, ConnStep(c) \/ ArchiveFails(c)
    PROVE  Located'
<1> USE DEF At
<1>a. \A d \in Conns : stream[d].pc # "none" => stream[d].own \in Pods
    BY DEF Located
<1>b. conn[c] \in Connection /\ conn \in [Conns -> Connection]
    BY DEF TypeOK
<1>c. stream[c] \in Stream /\ stream \in [Conns -> Stream]
    BY DEF TypeOK
<1>1. CASE LookUp(c)
    BY <1>1, <1>a, ResolvedLocated, GotoLocated DEF LookUp
<1>2. CASE Acquire(c)
    <2>1. CASE lease # 0
        BY <1>2, <2>1, ResolvedLocated DEF Acquire
    <2>2. CASE lease = 0
        <3>1. Pod(c) \in Pods /\ Mint(Pod(c))
            BY <1>2, <2>2 DEF Acquire, Located, Pod
        <3>2. lease' <= generation' /\ \A g \in Gens : g <= generation' => ren'[g].pod \in Pods
            BY <3>1, MintLocated
        <3>3. /\ \A d \in Conns \ {c} : conn'[d] = conn[d]
              /\ conn'[c].pod = Pod(c) /\ conn'[c].own = Pod(c)
            BY <1>b, <1>2, <2>2 DEF Acquire, Connection, Pod
        <3> QED BY <1>2, <3>1, <3>2, <3>3 DEF Acquire, Located
    <2> QED BY <2>1, <2>2
<1>3. CASE OwnerReady(c)
    <2>1. CASE Goto(c, "room")
        BY <1>a, <1>3, <2>1, GotoLocated DEF OwnerReady
    <2>2. CASE Finish(c)
        BY <1>a, <1>3, <2>2, FinishLocated DEF OwnerReady
    <2>3. CASE conn' = [conn EXCEPT ![c].tries = @ + 1, ![c].pc = "lookup",
                                   ![c].own = None, ![c].gen = 0]
        <3>1. /\ \A d \in Conns \ {c} : conn'[d] = conn[d]
              /\ conn'[c].pod = conn[c].pod /\ conn'[c].pc = "lookup"
            BY <1>b, <2>3 DEF Connection
        <3>2. conn[c].pod \in Pods
            BY <1>3 DEF OwnerReady, Located
        <3> QED BY <1>a, <1>3, <3>1, <3>2, Moved DEF OwnerReady
    <2> QED BY <1>3, <2>1, <2>2, <2>3 DEF OwnerReady
<1>4. CASE ValidateOwner(c)
    BY <1>a, <1>4, GotoLocated, FinishLocated DEF ValidateOwner
<1>5. CASE EnterRoom(c)
    <2>1. PICK r \in Rooms : conn' = [conn EXCEPT ![c].room = r, ![c].pc = "check"]
        BY <1>5 DEF EnterRoom
    <2>2. /\ \A d \in Conns \ {c} : conn'[d] = conn[d]
          /\ conn'[c].pod = conn[c].pod /\ conn'[c].own = conn[c].own
        BY <1>b, <2>1 DEF Connection
    <2>3. conn[c].pod \in Pods /\ conn[c].own \in Pods
        BY <1>5 DEF EnterRoom, Located
    <2> QED BY <1>a, <1>5, <2>2, <2>3, Moved DEF EnterRoom
<1>6. CASE CheckChannel(c)
    BY <1>a, <1>6, GotoLocated, FinishLocated DEF CheckChannel
<1>7. CASE Admit(c)
    BY <1>a, <1>7, GotoLocated DEF Admit
<1>8. CASE Refuse(c)
    BY <1>a, <1>8, FinishLocated DEF Refuse
<1>9. CASE Attach(c)
    <2>1. \A g \in Gens : ren'[g].pod = ren[g].pod
        BY <1>9, RenewersStay DEF Attach, Throwaway
    <2>2. /\ \A d \in Conns \ {c} : conn'[d] = conn[d]
          /\ conn'[c].pod = conn[c].pod /\ conn'[c].own = conn[c].own
        BY <1>b, <1>9 DEF Attach, Connection, Goto
    <2>3. conn[c].pod \in Pods /\ conn[c].own \in Pods
        BY <1>9 DEF Attach, Located
    <2> QED BY <1>a, <1>9, <2>1, <2>2, <2>3, Moved DEF Attach
<1>10. CASE Insert(c)
    <2>1. \A g \in Gens : ren'[g].pod = ren[g].pod
        BY <1>10, RenewersStay DEF Insert
    <2>2. /\ \A d \in Conns \ {c} : conn'[d] = conn[d]
          /\ conn'[c].pod = conn[c].pod /\ conn'[c].own = conn[c].own
        BY <1>b, <1>10 DEF Insert, Connection
    <2>3. conn[c].pod \in Pods /\ conn[c].own \in Pods
        BY <1>10 DEF Insert, Located
    <2> QED BY <1>a, <1>10, <2>1, <2>2, <2>3, Moved DEF Insert
<1>11. CASE Recheck(c)
    <2>1. \A g \in Gens : ren'[g].pod = ren[g].pod
        BY <1>11, RenewersStay DEF Recheck
    <2> QED BY <1>a, <1>11, <2>1, GotoLocated DEF Recheck
<1>12. CASE Signals(c)
    <2>1. /\ \A d \in Conns \ {c} : conn'[d] = conn[d]
          /\ conn'[c].pod = conn[c].pod /\ conn'[c].own = conn[c].own
        BY <1>b, <1>12 DEF Signals, Connection
    <2>2. conn[c].pod \in Pods /\ conn[c].own \in Pods
        BY <1>12 DEF Signals, Located
    <2> QED BY <1>a, <1>12, <2>1, <2>2, Moved DEF Signals
<1>13. CASE Dial(c)
    <2>1. conn[c].own \in Pods
        BY <1>13 DEF Dial, Located
    <2>2. \A d \in Conns : stream'[d].pc # "none" => stream'[d].own \in Pods
        BY <1>a, <1>c, <1>13, <2>1 DEF Dial, NoStream
    <2> QED BY <1>13, <2>2, GotoLocated, FinishLocated DEF Dial
<1>14. CASE Registered(c)
    BY <1>a, <1>14, GotoLocated DEF Registered
<1>15. CASE MirrorRefused(c)
    <2>1. \A d \in Conns : stream'[d].pc # "none" => stream'[d].own \in Pods
        BY <1>a, <1>c, <1>15 DEF MirrorRefused, Stream
    <2> QED BY <1>15, <2>1, FinishLocated DEF MirrorRefused
<1>16. CASE DialFails(c)
    <2>1. \A d \in Conns : stream'[d].pc # "none" => stream'[d].own \in Pods
        BY <1>a, <1>c, <1>16 DEF DialFails, Stream
    <2> QED BY <1>16, <2>1, FinishLocated DEF DialFails
<1>17. CASE TornDown(c)
    BY <1>a, <1>17, GotoLocated DEF TornDown
<1>18. CASE RemovePeer(c)
    <2>1. \A d \in Conns : stream'[d].pc # "none" => stream'[d].own \in Pods
        BY <1>a, <1>c, <1>18 DEF RemovePeer, Stream
    <2> QED BY <1>18, <2>1, GotoLocated DEF RemovePeer
<1>19. CASE Archive(c)
    BY <1>a, <1>19, GotoLocated DEF Archive
<1>20. CASE CleanUp(c)
    BY <1>a, <1>20, GotoLocated, FinishLocated DEF CleanUp
<1>21. CASE RegistryRelease(c)
    <2>1. \A g \in Gens : ren'[g].pod = ren[g].pod
        BY <1>21, RenewersStay DEF RegistryRelease
    <2> QED BY <1>a, <1>21, <2>1, FinishLocated DEF RegistryRelease
<1>22. CASE ArchiveCheck(c)
    BY <1>a, <1>22, GotoLocated, FinishLocated DEF ArchiveCheck, NotArchived
<1>23. CASE ArchiveFails(c)
    BY <1>a, <1>23, FinishLocated DEF ArchiveFails, NotArchived
<1> QED BY <1>1, <1>2, <1>3, <1>4, <1>5, <1>6, <1>7, <1>8, <1>9, <1>10, <1>11, <1>12,
           <1>13, <1>14, <1>15, <1>16, <1>17, <1>18, <1>19, <1>20, <1>21, <1>22, <1>23
        DEF ConnStep

\* The owner's loop moves no handler and its stream nowhere.
LEMMA OwnerMoves ==
    ASSUME TypeOK, NEW c \in Conns, OwnerStep(c) \/ StreamError(c) \/ RosterSendFails(c)
    PROVE  /\ UNCHANGED <<lease, generation, ren, conn>>
           /\ \A d \in Conns : /\ stream'[d].own = stream[d].own
                               /\ stream'[d].pc # "none" => stream[d].pc # "none"
<1>a. stream \in [Conns -> Stream]
    BY DEF TypeOK
<1>1. CASE Accept(c)
    BY <1>a, <1>1 DEF Accept, Stream
<1>2. CASE Register(c)
    <2>0. stream[c].pc = "register" /\ UNCHANGED <<lease, generation, ren, conn>>
        BY <1>2 DEF Register
    <2>1. CASE LoopEnds(c)
        BY <1>a, <2>0, <2>1 DEF LoopEnds, Close, Stream
    <2>2. CASE \E r \in Rooms : stream' = [stream EXCEPT ![c].pc = "fence", ![c].room = r]
        BY <1>a, <2>0, <2>2 DEF Stream
    <2> QED BY <1>2, <2>1, <2>2 DEF Register
<1>3. CASE Fence(c)
    <2> DEFINE ok == Valid(stream[c].own, stream[c].gen)
               s == [stream[c] EXCEPT !.pc = IF ok THEN "add" ELSE "serve",
                                      !.room = IF ok THEN @ ELSE None,
                                      !.reply = IF ok THEN @ ELSE "rejected"]
    <2>1. s.own = stream[c].own
        BY <1>a DEF Stream
    <2>2. stream' = [stream EXCEPT ![c] = s] /\ stream[c].pc # "none"
        BY <1>a, <1>3 DEF Fence
    <2> HIDE DEF s
    <2> QED BY <1>a, <1>3, <2>1, <2>2 DEF Fence
<1>4. CASE RegisterPeer(c)
    BY <1>a, <1>4 DEF RegisterPeer, Stream
<1>5. CASE RegisterRefused(c)
    BY <1>a, <1>5 DEF RegisterRefused, Stream
<1>6. CASE LoopCloses(c)
    BY <1>a, <1>6 DEF LoopCloses, LoopEnds, Close, Stream
<1>7. CASE StreamError(c) \/ RosterSendFails(c)
    <2>1. Close(c, "broken") /\ UNCHANGED <<lease, generation, ren, conn>>
        BY <1>7 DEF StreamError, RosterSendFails
    <2>2. stream[c].pc # "none"
        BY <1>7 DEF StreamError, RosterSendFails
    <2> QED BY <1>a, <2>1, <2>2 DEF Close, Stream
<1> QED BY <1>1, <1>2, <1>3, <1>4, <1>5, <1>6, <1>7 DEF OwnerStep

\* The renewers' and Redis' own steps move no connection.
LEMMA RenewerMoves ==
    ASSUME TypeOK, NEW g \in Gens,
           RenewerStep(g) \/ RenewError(g) \/ ReleaseError(g) \/ Expire
    PROVE  /\ UNCHANGED <<generation, pod, conn, stream>>
           /\ lease' \in {lease, 0}
           /\ \A h \in Gens : ren'[h].pod = ren[h].pod
<1>a. ren \in [Gens -> Renewer]
    BY DEF TypeOK
<1>1. CASE RenewLost(g)
    BY <1>a, <1>1 DEF RenewLost, Renewer
<1>2. CASE RenewerCancelled(g)
    BY <1>a, <1>2 DEF RenewerCancelled, Renewer
<1>3. CASE Release(g)
    BY <1>a, <1>3 DEF Release, Renewer
<1>4. CASE RenewError(g)
    BY <1>a, <1>4 DEF RenewError, Renewer
<1>5. CASE ReleaseError(g)
    BY <1>a, <1>5 DEF ReleaseError, Renewer
<1>6. CASE Expire
    BY <1>6 DEF Expire
<1> QED BY <1>1, <1>2, <1>3, <1>4, <1>5, <1>6 DEF RenewerStep

\* Every step keeps everybody somewhere.
LEMMA LocatedNext ==
    ASSUME TypeOK, Located, Next
    PROVE  Located'
<1> USE DEF At
<1>a. \A d \in Conns : stream[d].pc # "none" => stream[d].own \in Pods
    BY DEF Located
<1>b. conn \in [Conns -> Connection]
    BY DEF TypeOK
<1>1. ASSUME NEW c \in Conns, NEW p \in Pods, Join(c, p) PROVE Located'
    <2>1. /\ \A d \in Conns \ {c} : conn'[d] = conn[d]
          /\ conn'[c].pod = p /\ conn'[c].pc = "lookup"
        BY <1>b, <1>1 DEF Join, Connection
    <2> QED BY <1>a, <1>1, <2>1, Moved DEF Join
<1>2. ASSUME NEW c \in Conns, ConnStep(c) \/ ArchiveFails(c) PROVE Located'
    BY <1>2, ConnLocated
<1>3. ASSUME NEW c \in Conns, OwnerStep(c) \/ StreamError(c) \/ RosterSendFails(c)
      PROVE  Located'
    BY <1>3, OwnerMoves DEF Located
<1>4. ASSUME NEW c \in Conns, Leave(c) PROVE Located'
    BY <1>a, <1>4, GotoLocated DEF Leave
<1>5. ASSUME NEW c \in Conns, AcquireReplyLost(c) PROVE Located'
    <2>1. Pod(c) \in Pods
        BY <1>5 DEF AcquireReplyLost, Located, Pod
    <2>2. lease' <= generation' /\ \A g \in Gens : g <= generation' => ren'[g].pod \in Pods
        BY <1>5, <2>1, MintLocated DEF AcquireReplyLost
    <2>3. (\A d \in Conns \ {c} : conn'[d] = conn[d]) /\ conn'[c].pc = "done"
        BY <1>5, FinishFacts DEF AcquireReplyLost
    <2> QED BY <1>5, <2>2, <2>3 DEF AcquireReplyLost, Located
<1>6. ASSUME NEW c \in Conns, ResolveError(c) PROVE Located'
    BY <1>a, <1>6, FinishLocated DEF ResolveError
<1>7. ASSUME NEW c \in Conns, CheckError(c) PROVE Located'
    BY <1>a, <1>7, FinishLocated DEF CheckError
<1>8. ASSUME NEW g \in Gens,
             RenewerStep(g) \/ RenewError(g) \/ ReleaseError(g) \/ Expire
      PROVE  Located'
    <2>1. lease' <= generation'
        BY <1>8, RenewerMoves, FreshTypes DEF Located, TypeOK, MaybeGen
    <2> QED BY <1>8, <2>1, RenewerMoves DEF Located
<1>9. ASSUME NEW p \in Pods, BeginDrain(p) PROVE Located'
    BY <1>9 DEF BeginDrain, Located
<1>10. ASSUME NEW p \in Pods, DrainList(p) PROVE Located'
    BY <1>10 DEF DrainList, Located
<1>11. ASSUME NEW p \in Pods, DrainRoom(p) PROVE Located'
    <2>1. \A g \in Gens : ren'[g].pod = ren[g].pod
        BY <1>11, RenewersStay DEF DrainRoom
    <2> QED BY <1>11, <2>1 DEF DrainRoom, Located
<1>12. ASSUME NEW p \in Pods, Crash(p) PROVE Located'
    <2>1. \A g \in Gens : ren'[g].pod = ren[g].pod
        <3>1. \A g \in Gens : ren[g] \in Renewer
            BY DEF TypeOK
        <3> QED BY <1>12, <3>1 DEF Crash, Renewer
    <2>2. \A c \in Conns : conn'[c] = conn[c] \/ conn'[c].pc = "done"
        BY <1>12 DEF Crash, NoConn
    <2>3. \A c \in Conns : stream'[c].pc # "none" => stream'[c].own \in Pods
        <3> SUFFICES ASSUME NEW c \in Conns, stream'[c].pc # "none"
                     PROVE  stream'[c].own \in Pods
            OBVIOUS
        <3>1. stream[c] \in Stream
            BY DEF TypeOK
        <3>2. stream'[c].own = stream[c].own
            BY <1>12, <3>1 DEF Crash, Stream
        <3>3. CASE stream[c].own = p
            BY <3>2, <3>3
        <3>4. CASE stream[c].own # p
            <4>1. stream'[c].pc = stream[c].pc
                BY <1>12, <3>1, <3>4 DEF Crash, Stream
            <4> QED BY <1>a, <3>2, <4>1
        <3> QED BY <3>3, <3>4
    <2> QED BY <1>12, <2>1, <2>2, <2>3 DEF Crash, Located
<1>13. CASE Expire
    <2>1. 1 \in Gens
        BY BoundsAssumption DEF Gens
    <2> QED BY <1>8, <1>13, <2>1
<1> QED BY <1>1, <1>2, <1>3, <1>4, <1>5, <1>6, <1>7, <1>8, <1>9, <1>10, <1>11, <1>12,
           <1>13 DEF Next, DrainStep

\* Every step keeps the types.
LEMMA TypeNext ==
    ASSUME TypeOK, Located, Next
    PROVE  TypeOK'
<1>1. ASSUME NEW c \in Conns, ConnStep(c) PROVE TypeOK'
    BY <1>1, ConnTypes
<1>2. ASSUME NEW c \in Conns, OwnerStep(c) \/ StreamError(c) \/ RosterSendFails(c)
      PROVE  TypeOK'
    BY <1>2, OwnerTypes
<1>3. ASSUME NEW c \in Conns,
             \/ \E p \in Pods : Join(c, p)
             \/ Leave(c) \/ AcquireReplyLost(c) \/ ResolveError(c) \/ CheckError(c)
             \/ ArchiveFails(c)
      PROVE  TypeOK'
    BY <1>3, ClientTypes
<1>4. ASSUME NEW g \in Gens, RenewerStep(g) \/ RenewError(g) \/ ReleaseError(g)
      PROVE  TypeOK'
    BY <1>4, RenewerTypes
<1>5. ASSUME NEW p \in Pods, BeginDrain(p) \/ DrainStep(p) \/ Crash(p) PROVE TypeOK'
    BY <1>5, PodTypes
<1>6. CASE Expire
    <2>1. 1 \in Gens
        BY BoundsAssumption DEF Gens
    <2> QED BY <1>6, <2>1, RenewerTypes
<1> QED BY <1>1, <1>2, <1>3, <1>4, <1>5, <1>6 DEF Next

-----------------------------------------------------------------------------
(***************************************************************************)
(* Drain.  DrainComplete is not inductive: two joins may be between their  *)
(* insert and their second check, and only one of them finds its own       *)
(* generation in the entry.  What is: once drain_all has listed the        *)
(* entries, one that it will not remove belongs to a join whose second     *)
(* check is to come.                                                       *)
(***************************************************************************)
Rechecking(p) ==
    \E c \in Conns : /\ conn[c].pc = "recheck" /\ conn[c].pod = p
                     /\ conn[c].gen = pod[p].entry

DrainInv ==
    \A p \in Pods : \/ pod[p].entry = 0
                    \/ pod[p].drain \in {"off", "flagged"}
                    \/ pod[p].drain = "listed" /\ pod[p].entry = pod[p].listed
                    \/ Rechecking(p)

\* What the invariant says of the registry.
LEMMA DrainImplies == DrainInv => DrainComplete
BY DEF DrainInv, Rechecking, DrainComplete, Pod

\* A step that leaves the registry alone and the joins before their second
\* check where they are.
LEMMA DrainKept ==
    ASSUME DrainInv,
           \A p \in Pods : /\ pod'[p].entry \in {pod[p].entry, 0}
                           /\ pod'[p].drain = pod[p].drain
                           /\ pod'[p].listed = pod[p].listed,
           \A c \in Conns : conn[c].pc = "recheck" => conn'[c] = conn[c]
    PROVE  DrainInv'
BY DEF DrainInv, Rechecking

\* retract and release empty the registry or leave it alone.
LEMMA RetractFacts ==
    ASSUME TypeOK, NEW p \in Pods, NEW g, Retract(p, g)
    PROVE  \A q \in Pods : /\ pod'[q].entry = IF q = p /\ pod[p].entry = g THEN 0
                                               ELSE pod[q].entry
                           /\ pod'[q].drain = pod[q].drain
                           /\ pod'[q].listed = pod[q].listed
<1>1. pod \in [Pods -> PodState]
    BY DEF TypeOK
<1> QED BY <1>1 DEF Retract, PodState

\* Every step of a handler.
LEMMA ConnDrain ==
    ASSUME TypeOK, Located, DrainInv, NEW c \in Conns, ConnStep(c) \/ ArchiveFails(c)
    PROVE  DrainInv'
<1> USE DEF At
<1>b. conn[c] \in Connection /\ conn \in [Conns -> Connection]
    BY DEF TypeOK
<1>p. pod \in [Pods -> PodState]
    BY DEF TypeOK
<1>s. ASSUME conn[c].pc # "recheck", \A d \in Conns \ {c} : conn'[d] = conn[d], pod' = pod
      PROVE  DrainInv'
    BY <1>s, DrainKept
<1>1. CASE LookUp(c)
    BY <1>1, <1>b, <1>s DEF LookUp, Resolved, Goto
<1>2. CASE Acquire(c)
    BY <1>2, <1>b, <1>s DEF Acquire, Resolved
<1>3. CASE OwnerReady(c)
    BY <1>3, <1>b, <1>s DEF OwnerReady, Goto, Finish
<1>4. CASE ValidateOwner(c)
    BY <1>4, <1>b, <1>s DEF ValidateOwner, Goto, Finish
<1>5. CASE EnterRoom(c)
    <2>1. PICK r \in Rooms : /\ GetOrCreate(Pod(c), r)
                             /\ conn' = [conn EXCEPT ![c].room = r, ![c].pc = "check"]
        BY <1>5 DEF EnterRoom
    <2>2. \A p \in Pods : /\ pod'[p].entry = pod[p].entry
                          /\ pod'[p].drain = pod[p].drain
                          /\ pod'[p].listed = pod[p].listed
        BY <2>1, GetOrCreateTypes, ConnFields
    <2>3. \A d \in Conns : conn[d].pc = "recheck" => conn'[d] = conn[d]
        BY <1>5, <1>b, <2>1 DEF EnterRoom
    <2> QED BY <2>2, <2>3, DrainKept
<1>6. CASE CheckChannel(c)
    <2>1. \A d \in Conns : conn[d].pc = "recheck" => conn'[d] = conn[d]
        BY <1>6, <1>b DEF CheckChannel, Goto, Finish
    <2> QED BY <1>6, <2>1, CleanupTypes, DrainKept DEF CheckChannel
<1>7. CASE Admit(c)
    BY <1>7, <1>b, <1>s DEF Admit, Goto
<1>8. CASE Refuse(c)
    BY <1>8, <1>b, <1>s DEF Refuse, Finish
<1>9. CASE Attach(c)
    BY <1>9, <1>b, <1>s DEF Attach, Goto
<1>10. CASE Insert(c)
    <2>1. PICK q \in Pods : q = conn[c].pod /\ q = Pod(c)
        BY <1>10 DEF Insert, Located, Pod
    <2>2. /\ conn'[c].pc = "recheck" /\ conn'[c].pod = q /\ conn'[c].gen = conn[c].gen
          /\ \A d \in Conns \ {c} : conn'[d] = conn[d]
        BY <1>10, <1>b, <2>1 DEF Insert, Connection
    <2>3. pod'[q].entry = conn[c].gen /\ \A p \in Pods \ {q} : pod'[p] = pod[p]
        BY <1>10, <1>p, <2>1 DEF Insert, PodState
    <2>4. Rechecking(q)'
        BY <2>2, <2>3 DEF Rechecking
    <2>5. \A p \in Pods \ {q} : Rechecking(p) => Rechecking(p)'
        BY ZenonT(60), <1>10, <2>2, <2>3 DEF Rechecking, Insert
    <2> QED BY <2>3, <2>4, <2>5 DEF DrainInv
<1>11. CASE Recheck(c)
    <2>1. Pod(c) = conn[c].pod /\ conn[c].pod \in Pods
        BY <1>11 DEF Recheck, Located, Pod
    <2>2. \A d \in Conns \ {c} : conn'[d] = conn[d]
        BY <1>11, <1>b DEF Recheck, Goto
    <2>3. CASE IsDraining(Pod(c))
        <3>1. \A q \in Pods : /\ pod'[q].entry = IF q = Pod(c) /\ pod[q].entry = conn[c].gen
                                                  THEN 0 ELSE pod[q].entry
                              /\ pod'[q].drain = pod[q].drain
                              /\ pod'[q].listed = pod[q].listed
            <4>1. Retract(Pod(c), conn[c].gen) /\ Pod(c) \in Pods
                BY <1>11, <2>1, <2>3 DEF Recheck
            <4> QED BY <4>1, RetractFacts
        <3>2. ASSUME NEW p \in Pods, Rechecking(p) PROVE pod'[p].entry = 0 \/ Rechecking(p)'
            <4>1. PICK d \in Conns : /\ conn[d].pc = "recheck" /\ conn[d].pod = p
                                     /\ conn[d].gen = pod[p].entry
                BY <3>2 DEF Rechecking
            <4>2. CASE d = c
                BY <2>1, <3>1, <4>1, <4>2
            <4>3. CASE d # c
                BY <2>2, <3>1, <4>1, <4>3 DEF Rechecking
            <4> QED BY <4>2, <4>3
        <3> QED BY <3>1, <3>2 DEF DrainInv
    <2>4. CASE ~IsDraining(Pod(c))
        <3>1. pod' = pod
            BY <1>11, <2>4 DEF Recheck
        <3>2. pod[conn[c].pod].drain = "off"
            BY <2>1, <2>4 DEF IsDraining
        <3>3. ASSUME NEW p \in Pods, p # conn[c].pod, Rechecking(p) PROVE Rechecking(p)'
            BY <2>2, <3>1, <3>3 DEF Rechecking
        <3> QED BY <3>1, <3>2, <3>3 DEF DrainInv
    <2> QED BY <2>3, <2>4
<1>12. CASE Signals(c)
    BY <1>12, <1>b, <1>s DEF Signals
<1>13. CASE Dial(c)
    <2>1. \A d \in Conns : conn[d].pc = "recheck" => conn'[d] = conn[d]
        BY <1>13, <1>b DEF Dial, Goto, Finish
    <2> QED BY <1>13, <2>1, CleanupTypes, DrainKept DEF Dial
<1>14. CASE Registered(c)
    BY <1>14, <1>b, <1>s DEF Registered, Goto
<1>15. CASE MirrorRefused(c)
    BY <1>15, <1>b, <1>s DEF MirrorRefused, Finish
<1>16. CASE DialFails(c)
    <2>1. \A d \in Conns : conn[d].pc = "recheck" => conn'[d] = conn[d]
        BY <1>16, <1>b DEF DialFails, Finish
    <2> QED BY <1>16, <2>1, CleanupTypes, DrainKept DEF DialFails
<1>17. CASE TornDown(c)
    BY <1>17, <1>b, <1>s DEF TornDown, Goto
<1>18. CASE RemovePeer(c)
    BY <1>18, <1>b, <1>s DEF RemovePeer, Goto
<1>19. CASE Archive(c)
    BY <1>19, <1>b, <1>s DEF Archive, Goto
<1>20. CASE CleanUp(c)
    <2>1. \A d \in Conns : conn[d].pc = "recheck" => conn'[d] = conn[d]
        BY <1>20, <1>b DEF CleanUp, Goto, Finish
    <2> QED BY <1>20, <2>1, CleanupTypes, DrainKept DEF CleanUp
<1>21. CASE RegistryRelease(c)
    <2>1. Pod(c) \in Pods
        BY <1>21 DEF RegistryRelease, Located, Pod
    <2>2. \A d \in Conns : conn[d].pc = "recheck" => conn'[d] = conn[d]
        BY <1>21, <1>b DEF RegistryRelease, Finish
    <2>3. \A q \in Pods : /\ pod'[q].entry \in {pod[q].entry, 0}
                          /\ pod'[q].drain = pod[q].drain
                          /\ pod'[q].listed = pod[q].listed
        BY <1>21, <2>1, RetractFacts DEF RegistryRelease
    <2> QED BY <2>2, <2>3, DrainKept
<1>22. CASE ArchiveCheck(c)
    BY <1>22, <1>b, <1>s DEF ArchiveCheck, NotArchived, Goto, Finish
<1>23. CASE ArchiveFails(c)
    BY <1>23, <1>b, <1>s DEF ArchiveFails, NotArchived, Finish
<1> QED BY <1>1, <1>2, <1>3, <1>4, <1>5, <1>6, <1>7, <1>8, <1>9, <1>10, <1>11, <1>12,
           <1>13, <1>14, <1>15, <1>16, <1>17, <1>18, <1>19, <1>20, <1>21, <1>22, <1>23
        DEF ConnStep

\* Every step keeps the drain invariant.
LEMMA DrainNext ==
    ASSUME TypeOK, Located, DrainInv, Next
    PROVE  DrainInv'
<1> USE DEF At
<1>b. conn \in [Conns -> Connection]
    BY DEF TypeOK
<1>p. pod \in [Pods -> PodState]
    BY DEF TypeOK
<1>1. ASSUME NEW c \in Conns, NEW p \in Pods, Join(c, p) PROVE DrainInv'
    BY <1>b, <1>1, DrainKept DEF Join
<1>2. ASSUME NEW c \in Conns, ConnStep(c) \/ ArchiveFails(c) PROVE DrainInv'
    BY <1>2, ConnDrain
<1>3. ASSUME NEW c \in Conns, OwnerStep(c) \/ StreamError(c) \/ RosterSendFails(c)
      PROVE  DrainInv'
    <2>1. UNCHANGED conn
        BY <1>3, OwnerMoves
    <2>2. \A p \in Pods : /\ pod'[p].entry = pod[p].entry
                          /\ pod'[p].drain = pod[p].drain
                          /\ pod'[p].listed = pod[p].listed
        <3>1. CASE Register(c)
            <4>1. CASE \E r \in Rooms : GetOrCreate(stream[c].own, r)
                BY <4>1, GetOrCreateTypes, ConnFields
            <4> QED BY <3>1, <4>1 DEF Register
        <3>2. CASE ~Register(c)
            BY <1>3, <3>2 DEF OwnerStep, StreamError, RosterSendFails, Accept, Fence,
                              RegisterPeer, RegisterRefused, LoopCloses
        <3> QED BY <3>1, <3>2
    <2> QED BY <2>1, <2>2, DrainKept
<1>4. ASSUME NEW c \in Conns, Leave(c) \/ AcquireReplyLost(c) \/ ResolveError(c)
      PROVE  DrainInv'
    BY <1>b, <1>4, DrainKept DEF Leave, AcquireReplyLost, ResolveError, Goto, Finish
<1>5. ASSUME NEW c \in Conns, CheckError(c) PROVE DrainInv'
    <2>1. \A d \in Conns : conn[d].pc = "recheck" => conn'[d] = conn[d]
        BY <1>b, <1>5 DEF CheckError, Finish
    <2> QED BY <1>5, <2>1, CleanupTypes, DrainKept DEF CheckError
<1>6. ASSUME NEW g \in Gens,
             RenewerStep(g) \/ RenewError(g) \/ ReleaseError(g) \/ Expire
      PROVE  DrainInv'
    BY <1>6, RenewerMoves, DrainKept
<1>7. CASE Expire
    <2>1. 1 \in Gens
        BY BoundsAssumption DEF Gens
    <2> QED BY <1>6, <1>7, <2>1
<1>8. ASSUME NEW p \in Pods, BeginDrain(p) PROVE DrainInv'
    <2>1. pod'[p].drain = "flagged" /\ \A q \in Pods \ {p} : pod'[q] = pod[q]
        BY <1>p, <1>8 DEF BeginDrain, PodState
    <2>2. UNCHANGED conn
        BY <1>8 DEF BeginDrain
    <2> QED BY <2>1, <2>2 DEF DrainInv, Rechecking
<1>9. ASSUME NEW p \in Pods, DrainList(p) PROVE DrainInv'
    <2>1. /\ pod'[p].entry = pod[p].entry /\ pod'[p].listed = pod[p].entry
          /\ pod'[p].drain = IF pod[p].entry = 0 THEN "done" ELSE "listed"
          /\ \A q \in Pods \ {p} : pod'[q] = pod[q]
        BY <1>p, <1>9 DEF DrainList, PodState
    <2>2. UNCHANGED conn /\ pod[p].drain = "flagged"
        BY <1>9 DEF DrainList
    <2> QED BY <2>1, <2>2 DEF DrainInv, Rechecking
<1>10. ASSUME NEW p \in Pods, DrainRoom(p) PROVE DrainInv'
    <2>1. /\ pod'[p].entry = IF pod[p].entry = pod[p].listed THEN 0 ELSE pod[p].entry
          /\ \A q \in Pods \ {p} : pod'[q] = pod[q]
        BY <1>p, <1>10 DEF DrainRoom, PodState
    <2>2. UNCHANGED conn /\ pod[p].drain = "listed"
        BY <1>10 DEF DrainRoom
    <2> QED BY <2>1, <2>2 DEF DrainInv, Rechecking
<1>11. ASSUME NEW p \in Pods, Crash(p) PROVE DrainInv'
    <2>1. pod'[p].entry = 0 /\ \A q \in Pods \ {p} : pod'[q] = pod[q]
        BY <1>p, <1>11 DEF Crash, NoPod
    <2>2. \A c \in Conns : conn[c].pod # p => conn'[c] = conn[c]
        BY <1>11 DEF Crash, Pod
    <2> QED BY <2>1, <2>2 DEF DrainInv, Rechecking
<1> QED BY <1>1, <1>2, <1>3, <1>4, <1>5, <1>6, <1>7, <1>8, <1>9, <1>10, <1>11
        DEF Next, DrainStep

\* Every variable keeps its type and whoever is under way is somewhere.
THEOREM HuddleTypes == Spec => [](TypeOK /\ Located)
<1>1. TypeOK /\ Located /\ [Next]_vars => TypeOK' /\ Located'
    <2>1. CASE Next
        BY <2>1, TypeNext, LocatedNext
    <2>2. CASE UNCHANGED vars
        BY <2>2 DEF vars, TypeOK, Located
    <2> QED BY <2>1, <2>2
<1> QED BY <1>1, TypeInit, PTL DEF Spec

\* drain_all leaves no huddle in the registry, whatever joins race with it:
\* the second is_draining check of attach_signals removes what it missed.
THEOREM DrainCompletes == Spec => []DrainComplete
<1>1. Init => DrainInv
    BY DEF Init, DrainInv, NoPod
<1>2. TypeOK /\ Located /\ DrainInv /\ [Next]_vars => DrainInv'
    <2>1. CASE UNCHANGED vars
        BY <2>1 DEF vars, DrainInv, Rechecking
    <2> QED BY <2>1, DrainNext
<1> QED BY <1>1, <1>2, HuddleTypes, DrainImplies, PTL DEF Spec

-----------------------------------------------------------------------------
(***************************************************************************)
(* Leases.  While no fault has happened, a lease that somebody keeps (a    *)
(* renewer that runs or is to release it, or the join that minted it and   *)
(* has not attached yet) is the one in Redis, and nobody else mints one.   *)
(***************************************************************************)
\* A join that minted a lease and is still to attach it.
Attaching(c) == conn[c].minted /\ conn[c].pc \in {"room", "check", "admit", "attach", "insert"}

LossInv ==
    /\ \A g \in Gens : /\ ~ren[g].lost
                       /\ ren[g].pc \in {"run", "release"} => lease = g
                       /\ ren[g].pc # "none" => g <= generation
    /\ \A c \in Conns : conn[c].minted => conn[c].gen \in Gens /\ conn[c].gen <= generation
    /\ \A c \in Conns : conn[c].pc \in {"attach", "insert"} => conn[c].minted
    /\ \A c \in Conns : conn[c].pc \in {"idle", "lookup", "acquire", "ready", "validate"}
                           => ~conn[c].minted
    /\ \A c \in Conns : Attaching(c) => ren[conn[c].gen].pc = "none"
    /\ \A c \in Conns : conn[c].minted /\ ren[conn[c].gen].pc = "none"
                           => lease = conn[c].gen
    /\ \A c, d \in Conns : conn[c].minted /\ conn[d].minted /\ conn[c].gen = conn[d].gen
                              => c = d

\* A fault rules nothing out any more.
FaultFree == spent.faults = 0 => LossInv

LEMMA LossImplies == FaultFree => NoLossWithoutFault
BY DEF FaultFree, LossInv, NoLossWithoutFault

\* A step that leaves the leases alone and lets handlers move on, end, or
\* resolve again, but not to an attachment of a lease they did not mint.
LEMMA LossKept ==
    ASSUME LossInv, UNCHANGED <<lease, generation>>,
           \A g \in Gens : ren'[g].pc = ren[g].pc /\ ren'[g].lost = ren[g].lost,
           \A c \in Conns :
              \/ conn'[c] = conn[c]
              \/ ~conn'[c].minted /\ conn'[c].pc \notin {"attach", "insert"}
              \/ /\ conn'[c].minted = conn[c].minted /\ conn'[c].gen = conn[c].gen
                 /\ conn'[c].pc \in {"attach", "insert"} => conn[c].minted
                 /\ Attaching(c)' => Attaching(c)
                 /\ conn'[c].pc \in {"idle", "lookup", "acquire", "ready", "validate"}
                       => ~conn[c].minted
    PROVE  LossInv'
BY DEF LossInv, Attaching

\* Moving on, where no lease is minted or attached.
LEMMA LossGoto ==
    ASSUME TypeOK, LossInv, NEW c \in Conns, NEW pc, Goto(c, pc),
           UNCHANGED <<lease, generation>>,
           \A g \in Gens : ren'[g].pc = ren[g].pc /\ ren'[g].lost = ren[g].lost,
           pc \in {"attach", "insert"} => conn[c].minted,
           pc \in {"room", "check", "admit", "attach", "insert"} =>
               conn[c].pc \in {"room", "check", "admit", "attach", "insert"} \/ ~conn[c].minted,
           pc \in {"idle", "lookup", "acquire", "ready", "validate"} => ~conn[c].minted
    PROVE  LossInv'
<1>1. /\ \A d \in Conns \ {c} : conn'[d] = conn[d]
      /\ conn'[c].pc = pc /\ conn'[c].gen = conn[c].gen /\ conn'[c].minted = conn[c].minted
    BY GotoFacts
<1>2. Attaching(c)' => Attaching(c)
    BY <1>1 DEF Attaching
<1> QED BY <1>1, <1>2, LossKept

LEMMA LossFinish ==
    ASSUME TypeOK, LossInv, NEW c \in Conns, Finish(c), UNCHANGED <<lease, generation>>,
           \A g \in Gens : ren'[g].pc = ren[g].pc /\ ren'[g].lost = ren[g].lost
    PROVE  LossInv'
BY FinishFacts, LossKept

\* The winner of the ACQUIRE script: nobody else keeps a lease.
LEMMA LossMint ==
    ASSUME TypeOK, Located, LossInv, NEW c \in Conns, At(c, "acquire"), lease = 0, Mint(Pod(c)),
           conn' = [conn EXCEPT ![c].own = Pod(c), ![c].gen = generation + 1,
                                ![c].minted = TRUE, ![c].pc = "room"]
    PROVE  LossInv'
<1> DEFINE n == generation + 1
<1>1. /\ generation \in Nat /\ n \in Gens /\ n \in Nat /\ lease' = n /\ generation' = n
      /\ Gens \subseteq Nat \ {0}
    <2>1. n \in Gens
        BY MintTypes, ConnFields
    <2>2. generation \in Nat /\ Gens \subseteq Nat \ {0}
        BY FreshTypes DEF TypeOK, MaybeGen, Gens
    <2> QED BY <2>1, <2>2 DEF Mint
<1>2. /\ \A g \in Gens : g # n => ren'[g] = ren[g]
      /\ ren'[n].pc = "none" /\ ~ren'[n].lost
    <2>1. Pod(c) \in Pods
        BY DEF At, Located, Pod
    <2> QED BY <2>1, MintLocated DEF NoRenewer
<1>3. /\ \A d \in Conns \ {c} : conn'[d] = conn[d]
      /\ conn'[c].gen = n /\ conn'[c].minted /\ conn'[c].pc = "room"
    <2>1. conn \in [Conns -> Connection]
        BY DEF TypeOK
    <2> QED BY <2>1 DEF Connection
<1> HIDE DEF n
<1>4. \A g \in Gens : g <= generation => g # n /\ g <= n
    BY <1>1 DEF n
<1>5. \A g \in Gens : ren[g].pc \notin {"run", "release"}
    BY <1>1 DEF LossInv
<1>6. \A d \in Conns : conn[d].minted => conn[d].gen # n /\ conn[d].gen <= n
    BY <1>4 DEF LossInv
<1>7. \A d \in Conns : conn[d].minted => ren[conn[d].gen].pc # "none"
    BY <1>1 DEF LossInv
<1>8. \A g \in Gens : /\ ~ren'[g].lost /\ ren'[g].pc \notin {"run", "release"}
                      /\ ren'[g].pc # "none" => g <= generation'
    BY <1>1, <1>2, <1>4, <1>5 DEF LossInv
<1>9. \A d \in Conns : conn'[d].minted => conn'[d].gen \in Gens /\ conn'[d].gen <= generation'
    <2> SUFFICES ASSUME NEW d \in Conns, conn'[d].minted
                 PROVE  conn'[d].gen \in Gens /\ conn'[d].gen <= generation'
        OBVIOUS
    <2>1. CASE d = c
        BY <1>1, <1>3, <2>1
    <2>2. CASE d # c
        BY <1>1, <1>3, <1>6, <2>2 DEF LossInv
    <2> QED BY <2>1, <2>2
<1>10. \A d \in Conns : /\ conn'[d].pc \in {"attach", "insert"} => conn'[d].minted
                        /\ conn'[d].pc \in {"idle", "lookup", "acquire", "ready", "validate"}
                               => ~conn'[d].minted
    BY <1>3 DEF LossInv
<1>11. \A d \in Conns : conn'[d].minted /\ d # c => ren'[conn'[d].gen].pc # "none"
    <2> SUFFICES ASSUME NEW d \in Conns, conn'[d].minted, d # c
                 PROVE  ren'[conn'[d].gen].pc # "none"
        OBVIOUS
    <2>1. conn'[d] = conn[d] /\ conn[d].minted
        BY <1>3
    <2>2. conn[d].gen \in Gens /\ conn[d].gen # n
        BY <1>6, <2>1 DEF LossInv
    <2> QED BY <1>2, <1>7, <2>1, <2>2
<1>12. \A d \in Conns : Attaching(d)' => ren'[conn'[d].gen].pc = "none"
    <2>1. \A d \in Conns : d # c => ~Attaching(d)'
        BY <1>3, <1>7 DEF LossInv, Attaching
    <2> QED BY <1>2, <1>3, <2>1
<1>13. \A d, e \in Conns : conn'[d].minted /\ conn'[e].minted /\ conn'[d].gen = conn'[e].gen
                             => d = e
    <2> SUFFICES ASSUME NEW d \in Conns, NEW e \in Conns, conn'[d].minted, conn'[e].minted,
                        conn'[d].gen = conn'[e].gen
                 PROVE  d = e
        OBVIOUS
    <2>1. CASE d # c /\ e # c
        BY ZenonT(60), <1>3, <2>1 DEF LossInv
    <2>2. CASE d = c /\ e # c
        BY <1>3, <1>6, <2>2
    <2>3. CASE d # c /\ e = c
        BY <1>3, <1>6, <2>3
    <2> QED BY <2>1, <2>2, <2>3
<1> QED BY <1>1, <1>3, <1>8, <1>9, <1>10, <1>11, <1>12, <1>13 DEF LossInv

\* Attaching the lease the join minted: its renewer runs from now on.
LEMMA LossAttach ==
    ASSUME TypeOK, LossInv, NEW c \in Conns, conn[c].pc \in {"attach", "insert"},
           UNCHANGED <<lease, generation>>,
           \A g \in Gens \ {conn[c].gen} : ren'[g] = ren[g],
           ren'[conn[c].gen].pc = "run" /\ ~ren'[conn[c].gen].lost,
           \A d \in Conns \ {c} : conn'[d] = conn[d],
           conn'[c].minted = conn[c].minted /\ conn'[c].gen = conn[c].gen,
           conn'[c].pc \in {"live", "recheck"}
    PROVE  LossInv'
<1> DEFINE g == conn[c].gen
<1>1. conn[c].minted /\ g \in Gens /\ g <= generation /\ ren[g].pc = "none" /\ lease = g
    BY DEF LossInv, Attaching
<1>2. \A d \in Conns \ {c} : conn[d].minted => conn[d].gen # g
    BY <1>1 DEF LossInv
<1> HIDE DEF g
<1>3. \A h \in Gens : h = g \/ ren'[h] = ren[h]
    BY DEF g
<1>4. ren'[g].pc = "run" /\ ~ren'[g].lost /\ conn'[c].gen = g
    BY DEF g
<1>5. \A h \in Gens : /\ ~ren'[h].lost
                      /\ ren'[h].pc \in {"run", "release"} => lease' = h
                      /\ ren'[h].pc # "none" => h <= generation'
    BY <1>1, <1>3, <1>4 DEF LossInv
<1>6. \A d \in Conns \ {c} : conn[d].minted => ren'[conn[d].gen] = ren[conn[d].gen]
    BY <1>2, <1>3 DEF LossInv
<1>7. \A d \in Conns : Attaching(d)' => ren'[conn'[d].gen].pc = "none"
    BY <1>4, <1>6 DEF LossInv, Attaching
<1>8. \A d \in Conns : conn'[d].minted /\ ren'[conn'[d].gen].pc = "none"
                         => lease' = conn'[d].gen
    BY <1>4, <1>6 DEF LossInv
<1>9. \A d \in Conns : /\ conn'[d].minted = conn[d].minted /\ conn'[d].gen = conn[d].gen
                       /\ conn'[d].pc = conn[d].pc \/ conn'[d].pc \in {"live", "recheck"}
    OBVIOUS
<1> QED BY <1>5, <1>7, <1>8, <1>9 DEF LossInv

\* Every step of a handler, without a fault.
LEMMA ConnLoss ==
    ASSUME TypeOK, Located, LossInv, NEW c \in Conns, ConnStep(c) \/ ArchiveFails(c)
    PROVE  LossInv'
<1> USE DEF At
<1>b. conn[c] \in Connection /\ conn \in [Conns -> Connection]
    BY DEF TypeOK
<1>r. ren' = ren => \A g \in Gens : ren'[g].pc = ren[g].pc /\ ren'[g].lost = ren[g].lost
    OBVIOUS
<1>m. conn[c].pc \in {"idle", "lookup", "acquire", "ready", "validate"} => ~conn[c].minted
    BY DEF LossInv
<1>1. CASE LookUp(c)
    <2>1. CASE lease = 0
        BY <1>1, <1>r, <1>m, <2>1, LossGoto DEF LookUp
    <2>2. CASE lease # 0
        <3>1. /\ \A d \in Conns \ {c} : conn'[d] = conn[d]
              /\ conn'[c].pc \in {"ready", "validate"} /\ ~conn'[c].minted
            BY <1>1, <1>m, <2>2, ResolvedLocated DEF LookUp
        <3> QED BY <1>1, <1>r, <3>1, LossKept DEF LookUp
    <2> QED BY <2>1, <2>2
<1>2. CASE Acquire(c)
    <2>1. CASE lease = 0
        BY <1>2, <2>1, LossMint DEF Acquire
    <2>2. CASE lease # 0
        <3>1. /\ \A d \in Conns \ {c} : conn'[d] = conn[d]
              /\ conn'[c].pc \in {"ready", "validate"} /\ ~conn'[c].minted
            BY <1>2, <1>m, <2>2, ResolvedLocated DEF Acquire
        <3> QED BY <1>2, <1>r, <2>2, <3>1, LossKept DEF Acquire
    <2> QED BY <2>1, <2>2
<1>3. CASE OwnerReady(c)
    <2>1. CASE Goto(c, "room")
        BY <1>3, <1>r, <1>m, <2>1, LossGoto DEF OwnerReady
    <2>2. CASE Finish(c)
        BY <1>3, <1>r, <2>2, LossFinish DEF OwnerReady
    <2>3. CASE conn' = [conn EXCEPT ![c].tries = @ + 1, ![c].pc = "lookup",
                                   ![c].own = None, ![c].gen = 0]
        <3>1. /\ \A d \in Conns \ {c} : conn'[d] = conn[d]
              /\ conn'[c].minted = conn[c].minted /\ conn'[c].pc = "lookup"
            BY <1>b, <2>3 DEF Connection
        <3>2. ~conn[c].minted
            BY <1>3, <1>m DEF OwnerReady
        <3> QED BY <1>3, <1>r, <3>1, <3>2, LossKept DEF OwnerReady
    <2> QED BY <1>3, <2>1, <2>2, <2>3 DEF OwnerReady
<1>4. CASE ValidateOwner(c)
    BY <1>4, <1>r, <1>m, LossGoto, LossFinish DEF ValidateOwner
<1>5. CASE EnterRoom(c)
    <2>1. PICK r \in Rooms : conn' = [conn EXCEPT ![c].room = r, ![c].pc = "check"]
        BY <1>5 DEF EnterRoom
    <2>2. /\ \A d \in Conns \ {c} : conn'[d] = conn[d]
          /\ conn'[c].minted = conn[c].minted /\ conn'[c].gen = conn[c].gen
          /\ conn'[c].pc = "check"
        BY <1>b, <2>1 DEF Connection
    <2>3. Attaching(c)' => Attaching(c)
        BY <1>5, <2>2 DEF EnterRoom, Attaching
    <2> QED BY <1>5, <1>r, <2>2, <2>3, LossKept DEF EnterRoom
<1>6. CASE CheckChannel(c)
    BY <1>6, <1>r, LossGoto, LossFinish DEF CheckChannel
<1>7. CASE Admit(c)
    BY <1>7, <1>r, LossGoto DEF Admit
<1>8. CASE Refuse(c)
    BY <1>8, <1>r, LossFinish DEF Refuse
<1>9. CASE Attach(c)
    <2>1. CASE conn' = [conn EXCEPT ![c].pc = "insert"] /\ ren' = ren
        <3>1. Goto(c, "insert") /\ conn[c].minted
            BY <1>9, <2>1 DEF Goto, Attach, LossInv
        <3> QED BY <1>9, <1>r, <2>1, <3>1, LossGoto DEF Attach
    <2>2. CASE ~(conn' = [conn EXCEPT ![c].pc = "insert"] /\ ren' = ren)
        <3>1. conn[c].minted /\ conn[c].gen \in Gens
            BY <1>9 DEF Attach, LossInv
        <3>2. /\ \A d \in Conns \ {c} : conn'[d] = conn[d]
              /\ conn'[c].minted = conn[c].minted /\ conn'[c].gen = conn[c].gen
              /\ conn'[c].pc = "live"
            BY <1>9, <1>b, <2>2 DEF Attach, Goto, Connection
        <3>3. \/ ren' = [ren EXCEPT ![conn[c].gen].pc = "run", ![conn[c].gen].cancel = TRUE,
                                    ![conn[c].gen].drain = TRUE]
              \/ ren' = [ren EXCEPT ![conn[c].gen].pc = "run", ![conn[c].gen].cancel = TRUE]
            BY <1>9, <2>2 DEF Attach, Throwaway, Goto
        <3>4. /\ \A g \in Gens \ {conn[c].gen} : ren'[g] = ren[g]
              /\ ren'[conn[c].gen].pc = "run" /\ ~ren'[conn[c].gen].lost
            <4>1. ren \in [Gens -> Renewer] /\ ~ren[conn[c].gen].lost
                BY <3>1 DEF TypeOK, LossInv
            <4> QED BY <3>1, <3>3, <4>1 DEF Renewer
        <3> QED BY <1>9, <3>2, <3>4, LossAttach DEF Attach
    <2> QED BY <2>1, <2>2
<1>10. CASE Insert(c)
    <2>1. conn[c].minted /\ conn[c].gen \in Gens
        BY <1>10 DEF Insert, LossInv
    <2>2. /\ \A d \in Conns \ {c} : conn'[d] = conn[d]
          /\ conn'[c].minted = conn[c].minted /\ conn'[c].gen = conn[c].gen
          /\ conn'[c].pc = "recheck"
        BY <1>10, <1>b DEF Insert, Connection
    <2>3. /\ \A g \in Gens \ {conn[c].gen} : ren'[g] = ren[g]
          /\ ren'[conn[c].gen].pc = "run" /\ ~ren'[conn[c].gen].lost
        <3>1. ren \in [Gens -> Renewer] /\ ~ren[conn[c].gen].lost
            BY <2>1 DEF TypeOK, LossInv
        <3> QED BY <1>10, <2>1, <3>1 DEF Insert, Renewer
    <2> QED BY <1>10, <2>2, <2>3, LossAttach DEF Insert
<1>11. CASE Recheck(c)
    <2>1. \A g \in Gens : ren'[g].pc = ren[g].pc /\ ren'[g].lost = ren[g].lost
        <3>1. ren \in [Gens -> Renewer]
            BY DEF TypeOK
        <3>2. CASE ren' = [ren EXCEPT ![conn[c].gen].cancel = TRUE, ![conn[c].gen].drain = TRUE]
            BY <3>1, <3>2 DEF Renewer
        <3> QED BY <1>11, <3>2 DEF Recheck
    <2> QED BY <1>11, <2>1, LossGoto DEF Recheck
<1>12. CASE Signals(c)
    <2>1. /\ \A d \in Conns \ {c} : conn'[d] = conn[d]
          /\ conn'[c].minted = conn[c].minted /\ conn'[c].gen = conn[c].gen
          /\ conn'[c].pc \in {"signals2", "live"}
        BY <1>b, <1>12 DEF Signals, Connection
    <2>2. ~Attaching(c)'
        BY <2>1 DEF Attaching
    <2> QED BY <1>12, <1>r, <2>1, <2>2, LossKept DEF Signals
<1>13. CASE Dial(c)
    BY <1>13, <1>r, LossGoto, LossFinish DEF Dial
<1>14. CASE Registered(c)
    BY <1>14, <1>r, LossGoto DEF Registered
<1>15. CASE MirrorRefused(c)
    BY <1>15, <1>r, LossFinish DEF MirrorRefused
<1>16. CASE DialFails(c)
    BY <1>16, <1>r, LossFinish DEF DialFails
<1>17. CASE TornDown(c)
    BY <1>17, <1>r, LossGoto DEF TornDown
<1>18. CASE RemovePeer(c)
    BY <1>18, <1>r, LossGoto DEF RemovePeer
<1>19. CASE Archive(c)
    BY <1>19, <1>r, LossGoto DEF Archive
<1>20. CASE CleanUp(c)
    BY <1>20, <1>r, LossGoto, LossFinish DEF CleanUp
<1>21. CASE RegistryRelease(c)
    <2>1. \A g \in Gens : ren'[g].pc = ren[g].pc /\ ren'[g].lost = ren[g].lost
        <3>1. ren \in [Gens -> Renewer]
            BY DEF TypeOK
        <3> QED BY <1>21, <3>1 DEF RegistryRelease, Renewer
    <2> QED BY <1>21, <2>1, LossFinish DEF RegistryRelease
<1>22. CASE ArchiveCheck(c)
    BY <1>22, <1>r, LossGoto, LossFinish DEF ArchiveCheck, NotArchived
<1>23. CASE ArchiveFails(c)
    BY <1>23, <1>r, LossFinish DEF ArchiveFails, NotArchived
<1> QED BY <1>1, <1>2, <1>3, <1>4, <1>5, <1>6, <1>7, <1>8, <1>9, <1>10, <1>11, <1>12,
           <1>13, <1>14, <1>15, <1>16, <1>17, <1>18, <1>19, <1>20, <1>21, <1>22, <1>23
        DEF ConnStep

\* A renewer that finds its own lease, and one that gives it back.
LEMMA RenewerLoss ==
    ASSUME TypeOK, LossInv, NEW g \in Gens, RenewerStep(g)
    PROVE  LossInv'
<1>a. ren \in [Gens -> Renewer]
    BY DEF TypeOK
<1>b. Gens \subseteq Nat \ {0}
    BY FreshTypes DEF Gens
<1>1. CASE RenewLost(g)
    BY <1>1 DEF RenewLost, LossInv
<1>2. CASE RenewerCancelled(g)
    <2>1. /\ \A h \in Gens \ {g} : ren'[h] = ren[h]
          /\ ren'[g].pc = "release" /\ ren'[g].lost = ren[g].lost
        BY <1>a, <1>2 DEF RenewerCancelled, Renewer
    <2>2. UNCHANGED <<lease, generation, conn>> /\ ren[g].pc = "run"
        BY <1>2 DEF RenewerCancelled
    <2> QED BY <2>1, <2>2 DEF LossInv, Attaching
<1>3. CASE Release(g)
    <2>1. lease = g /\ ~ren[g].lost /\ g # 0 /\ ren[g].pc = "release" /\ g <= generation
        BY <1>b, <1>3 DEF Release, LossInv
    <2>2. /\ \A h \in Gens \ {g} : ren'[h] = ren[h]
          /\ ren'[g].pc = "done" /\ ~ren'[g].lost
        BY <1>a, <1>3, <2>1 DEF Release, Renewer
    <2>3. UNCHANGED <<generation, conn>> /\ lease' = 0
        BY <1>3, <2>1 DEF Release
    <2>4. \A h \in Gens : /\ ~ren'[h].lost /\ ren'[h].pc \notin {"run", "release"}
                          /\ ren'[h].pc # "none" => h <= generation
        BY <2>1, <2>2 DEF LossInv
    <2>5. \A c \in Conns : conn[c].minted => ren[conn[c].gen].pc # "none"
        BY <2>1 DEF LossInv
    <2>6. \A c \in Conns : conn[c].minted => ren'[conn[c].gen].pc # "none"
        BY <2>2, <2>5 DEF LossInv
    <2>7. \A c \in Conns : ~Attaching(c)
        BY <2>5 DEF LossInv, Attaching
    <2> QED BY <2>3, <2>4, <2>6, <2>7 DEF LossInv, Attaching
<1> QED BY <1>1, <1>2, <1>3 DEF RenewerStep

\* The lease runs out when nobody keeps it.
LEMMA ExpireLoss ==
    ASSUME TypeOK, LossInv, Expire, spent'.faults = 0
    PROVE  LossInv'
<1>1. lease # 0 /\ lease' = 0 /\ UNCHANGED <<generation, ren, conn>>
    BY DEF Expire
<1>2. ~Kept(lease)
    BY FaultTypes DEF Expire
<1>3. \A h \in Gens : ren[h].pc \notin {"run", "release"}
    BY <1>2 DEF LossInv, Kept
<1>4. \A c \in Conns : conn[c].minted => ren[conn[c].gen].pc # "none"
    BY <1>2 DEF LossInv, Kept
<1> QED BY <1>1, <1>3, <1>4 DEF LossInv, Attaching

\* Every step without a fault so far.
LEMMA LossNext ==
    ASSUME TypeOK, Located, FaultFree, Next
    PROVE  FaultFree'
<1> SUFFICES ASSUME spent'.faults = 0 PROVE LossInv'
    BY DEF FaultFree
<1>f. ~Fault
    BY FaultTypes
<1>b. conn \in [Conns -> Connection]
    BY DEF TypeOK
<1>s. ASSUME LossInv, UNCHANGED <<lease, generation, ren, conn>> PROVE LossInv'
    BY <1>s, LossKept
<1>1. ASSUME NEW c \in Conns, NEW p \in Pods, Join(c, p) PROVE LossInv'
    <2>1. LossInv
        BY <1>1 DEF Join, FaultFree
    <2>2. /\ \A d \in Conns \ {c} : conn'[d] = conn[d]
          /\ conn'[c].minted = conn[c].minted /\ conn'[c].pc = "lookup"
        BY <1>b, <1>1 DEF Join, Connection
    <2>3. ~conn[c].minted
        BY <1>1, <2>1 DEF Join, At, LossInv
    <2> QED BY <1>1, <2>1, <2>2, <2>3, LossKept DEF Join
<1>2. ASSUME NEW c \in Conns, ConnStep(c) \/ ArchiveFails(c) PROVE LossInv'
    <2>1. UNCHANGED spent
        BY <1>2, <1>f DEF ConnStep, LookUp, Acquire, OwnerReady, ValidateOwner, EnterRoom,
              CheckChannel, Admit, Refuse, Attach, Insert, Recheck, Signals, Dial,
              Registered, MirrorRefused, DialFails, TornDown, RemovePeer, ArchiveCheck,
              Archive, CleanUp, RegistryRelease, ArchiveFails
    <2> QED BY <1>2, <2>1, ConnLoss DEF FaultFree
<1>3. ASSUME NEW c \in Conns, OwnerStep(c) \/ StreamError(c) \/ RosterSendFails(c)
      PROVE  LossInv'
    <2>1. UNCHANGED spent
        BY <1>3, <1>f DEF OwnerStep, StreamError, RosterSendFails, Accept, Register,
              Fence, RegisterPeer, RegisterRefused, LoopCloses
    <2> QED BY <1>3, <1>s, <2>1, OwnerMoves DEF FaultFree
<1>4. ASSUME NEW c \in Conns, Leave(c) PROVE LossInv'
    BY <1>4, LossGoto DEF Leave, FaultFree
<1>5. ASSUME NEW c \in Conns, AcquireReplyLost(c) \/ ResolveError(c) \/ CheckError(c)
      PROVE  LossInv'
    BY <1>5, <1>f DEF AcquireReplyLost, ResolveError, CheckError
<1>6. ASSUME NEW g \in Gens, RenewerStep(g) PROVE LossInv'
    <2>1. UNCHANGED spent
        BY <1>6 DEF RenewerStep, RenewLost, RenewerCancelled, Release
    <2> QED BY <1>6, <2>1, RenewerLoss DEF FaultFree
<1>7. ASSUME NEW g \in Gens, RenewError(g) \/ ReleaseError(g) PROVE LossInv'
    BY <1>7, <1>f DEF RenewError, ReleaseError
<1>8. CASE Expire
    <2>1. spent' = spent
        BY <1>8, <1>f DEF Expire, NoFault
    <2> QED BY <1>8, <2>1, ExpireLoss DEF FaultFree
<1>9. ASSUME NEW p \in Pods, BeginDrain(p) PROVE LossInv'
    <2>1. spent.faults = 0
        BY <1>9 DEF BeginDrain, TypeOK
    <2> QED BY <1>9, <1>s, <2>1 DEF BeginDrain, FaultFree
<1>10. ASSUME NEW p \in Pods, DrainList(p) PROVE LossInv'
    BY <1>10, <1>s DEF DrainList, FaultFree
<1>11. ASSUME NEW p \in Pods, DrainRoom(p) PROVE LossInv'
    <2>1. \A g \in Gens : ren'[g].pc = ren[g].pc /\ ren'[g].lost = ren[g].lost
        <3>1. ren \in [Gens -> Renewer]
            BY DEF TypeOK
        <3> QED BY <1>11, <3>1 DEF DrainRoom, Renewer
    <2> QED BY <1>11, <2>1, LossKept DEF DrainRoom, FaultFree
<1>12. ASSUME NEW p \in Pods, Crash(p) PROVE LossInv'
    BY <1>12, <1>f DEF Crash
<1> QED BY <1>1, <1>2, <1>3, <1>4, <1>5, <1>6, <1>7, <1>8, <1>9, <1>10, <1>11, <1>12
        DEF Next, DrainStep

\* While Redis answers and nobody stalls, no owner finds its lease lost: the
\* lease in Redis is the one its renewer keeps.
THEOREM NoSpuriousLoss == Spec => []NoLossWithoutFault
<1>1. Init => FaultFree
    BY FreshTypes DEF Init, FaultFree, LossInv, Attaching, NoRenewer, NoConn
<1>2. TypeOK /\ Located /\ FaultFree /\ [Next]_vars => FaultFree'
    <2>1. CASE UNCHANGED vars
        BY <2>1 DEF vars, FaultFree, LossInv, Attaching
    <2> QED BY <2>1, LossNext
<1> QED BY <1>1, <1>2, HuddleTypes, LossImplies, PTL DEF Spec
=============================================================================
