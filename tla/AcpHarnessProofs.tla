--------------------------- MODULE AcpHarnessProofs ---------------------------
(***************************************************************************)
(* Type correctness of the agent harness, for every number of agents,      *)
(* channels and events and every bound.  The first half is what every      *)
(* operation of the event queue preserves: the type of the queue, and what *)
(* it does to in_flight_channels.  The second half cites those lemmas and  *)
(* never looks inside an operation.                                        *)
(***************************************************************************)
EXTENDS AcpHarness, SequenceTheorems, TLAPS

-----------------------------------------------------------------------------
(***************************************************************************)
(* Helpers on one channel's deque.                                         *)
(***************************************************************************)
\* The part of a deque that SubSeq keeps is a deque, whichever part it is.
LEMMA SubSeqType ==
    ASSUME NEW s \in Seq(Events), NEW m \in Nat \ {0}, NEW n \in Int, n <= Len(s)
    PROVE  SubSeq(s, m, n) \in Seq(Events)
<1>1. \A i \in m..n : s[i] \in Events
    BY LenProperties, ElementOfSeq
<1> QED
    BY <1>1, SubSeqProperties

\* The elements of a deque are events.
LEMMA RangeType ==
    ASSUME NEW s \in Seq(Events)
    PROVE  Range(s) \subseteq Events
BY DEF Range

\* pop_back until the cap is met leaves a deque.
LEMMA TrimBackType ==
    ASSUME NEW s \in Seq(Events)
    PROVE  /\ TrimBack(s) \in Seq(Events)
           /\ Trimmed(s) \subseteq Events
<1>1. SeqMin(Len(s), MaxPending) \in Int /\ SeqMin(Len(s), MaxPending) <= Len(s)
    BY QueueAssumption DEF SeqMin
<1>2. TrimBack(s) \in Seq(Events)
    BY <1>1, SubSeqType DEF TrimBack
<1>3. SubSeq(s, MaxPending + 1, Len(s)) \in Seq(Events)
    BY SubSeqType, QueueAssumption
<1> QED
    BY <1>2, <1>3, RangeType DEF Trimmed

\* Removing an event leaves a deque.
LEMMA WithoutType ==
    ASSUME NEW s \in Seq(Events), NEW e
    PROVE  Without(s, e) \in Seq(Events)
<1>1. CASE e \in Range(s)
    <2> DEFINE i == CHOOSE j \in DOMAIN s : s[j] = e
    <2>1. i \in 1..Len(s)
        BY <1>1 DEF Range
    <2> HIDE DEF i
    <2>2. SubSeq(s, 1, i - 1) \in Seq(Events)
        BY <2>1, SubSeqType
    <2>3. SubSeq(s, i + 1, Len(s)) \in Seq(Events)
        BY <2>1, SubSeqType
    <2>4. SubSeq(s, 1, i - 1) \o SubSeq(s, i + 1, Len(s)) \in Seq(Events)
        BY <2>2, <2>3, ConcatProperties
    <2> QED
        BY <1>1, <2>4 DEF Without, i
<1>2. CASE e \notin Range(s)
    BY <1>2 DEF Without
<1> QED
    BY <1>1, <1>2

\* Sorting a deque gives a deque.
LEMMA StableSortsType ==
    ASSUME NEW s \in Seq(Events), NEW t \in StableSorts(s)
    PROVE  t \in Seq(Events)
<1>1. PICK p \in [1..Len(s) -> 1..Len(s)] : t = [i \in 1..Len(s) |-> s[p[i]]]
    BY DEF StableSorts, StableOrders
<1>2. \A i \in 1..Len(s) : s[p[i]] \in Events
    BY ElementOfSeq
<1> QED
    BY <1>1, <1>2

-----------------------------------------------------------------------------
(***************************************************************************)
(* The operations.                                                         *)
(***************************************************************************)
\* EventQueue::new
LEMMA NewQueueType == NewQueue \in QueueState
BY DEF NewQueue, QueueState, Throttle, CancelReason

\* push
LEMMA PushType ==
    ASSUME NEW Q \in QueueState, NEW c \in Channels, NEW e \in Events
    PROVE  /\ Push(Q, c, e) \in QueueState
           /\ Push(Q, c, e).inFlight = Q.inFlight
           /\ Push(Q, c, e).overdue = Q.overdue
           /\ PushDrops(Q, c, e) \subseteq Events
<1>1. Q.queues[c] \in Seq(Events)
    BY DEF QueueState
<1>2. Len(Q.queues[c]) >= MaxPending => /\ Tail(Q.queues[c]) \in Seq(Events)
                                        /\ Head(Q.queues[c]) \in Events
    BY <1>1, HeadTailProperties, EmptySeq, QueueAssumption
<1>3. Append(IF Len(Q.queues[c]) >= MaxPending THEN Tail(Q.queues[c]) ELSE Q.queues[c], e)
        \in Seq(Events)
    BY <1>1, <1>2
<1> QED
    BY <1>2, <1>3 DEF Push, PushDrops, QueueState

\* The expiry of overdue channels in flush_next and has_flushable_work: only
\* overdue channels leave in_flight_channels.
LEMMA ExpireInFlightType ==
    ASSUME NEW Q \in QueueState
    PROVE  /\ ExpireInFlight(Q) \in QueueState
           /\ ExpireInFlight(Q).inFlight = Q.inFlight \ Q.overdue
           /\ ExpireInFlight(Q).overdue = {}
           /\ ExpireDrops(Q) \subseteq Events
<1>1. \A c \in Channels : /\ Q.withheld[c] \o Q.queues[c] \in Seq(Events)
                          /\ TrimBack(Q.withheld[c] \o Q.queues[c]) \in Seq(Events)
                          /\ Trimmed(Q.withheld[c] \o Q.queues[c]) \subseteq Events
    BY ConcatProperties, TrimBackType DEF QueueState
<1>2. ExpireDrops(Q) \subseteq Events
    BY <1>1 DEF ExpireDrops, QueueState
<1>3. CASE Q.overdue = {}
    BY <1>2, <1>3 DEF ExpireInFlight, QueueState
<1>4. CASE Q.overdue # {}
    <2> DEFINE qs == [c \in Channels |-> IF c \in Q.overdue
                                        THEN TrimBack(Q.withheld[c] \o Q.queues[c])
                                        ELSE Q.queues[c]]
               ws == [c \in Channels |-> IF c \in Q.overdue THEN << >> ELSE Q.withheld[c]]
    <2>1. qs \in [Channels -> Seq(Events)] /\ ws \in [Channels -> Seq(Events)]
        BY <1>1, EmptySeq DEF QueueState
    <2>2. ExpireInFlight(Q) = [Q EXCEPT !.inFlight = @ \ Q.overdue, !.overdue = {},
                                        !.queues = qs, !.withheld = ws]
        BY <1>4 DEF ExpireInFlight
    <2> HIDE DEF qs, ws
    <2> QED
        BY <1>2, <2>1, <2>2 DEF QueueState
<1> QED
    BY <1>3, <1>4

\* flush_next, from `queues`: the batch is well formed and the channel is now
\* in flight with a fresh deadline.
LEMMA FlushType ==
    ASSUME NEW Q \in QueueState, NEW c \in Channels,
           NEW sorted \in StableSorts(Drained(Q, c))
    PROVE  /\ FlushedBatch(Q, c, sorted) \in FlushBatch
           /\ AfterFlush(Q, c) \in QueueState
           /\ AfterFlush(Q, c).inFlight = Q.inFlight \cup {c}
           /\ AfterFlush(Q, c).overdue = Q.overdue \ {c}
<1> DEFINE s == Q.queues[c]
<1>1. s \in Seq(Events) /\ Len(s) \in Nat
    BY LenProperties DEF QueueState
<1>2. SeqMin(MaxBatch, Len(s)) \in Nat /\ SeqMin(MaxBatch, Len(s)) <= Len(s)
    BY <1>1, QueueAssumption DEF SeqMin
<1>3. Drained(Q, c) \in Seq(Events) /\ Len(Drained(Q, c)) \in Nat
    BY <1>1, <1>2, SubSeqType, LenProperties DEF Drained
<1>4. SubSeq(s, Len(Drained(Q, c)) + 1, Len(s)) \in Seq(Events)
    BY <1>1, <1>3, SubSeqType
<1>5. sorted \in Seq(Events)
    BY <1>3, StableSortsType
<1>6. FlushedBatch(Q, c, sorted) \in FlushBatch
    BY <1>5 DEF FlushedBatch, FlushBatch, QueueState, CancelReason
<1> QED
    BY <1>4, <1>6, EmptySeq DEF AfterFlush, QueueState, CancelReason

\* flush_next, from the cancelled batches.
LEMMA CancelledFlushType ==
    ASSUME NEW Q \in QueueState, NEW c \in Channels
    PROVE  /\ CancelledBatch(Q, c) \in FlushBatch
           /\ AfterCancelledFlush(Q, c) \in QueueState
           /\ AfterCancelledFlush(Q, c).inFlight = Q.inFlight \cup {c}
           /\ AfterCancelledFlush(Q, c).overdue = Q.overdue \ {c}
<1>1. CancelledBatch(Q, c) \in FlushBatch
    BY EmptySeq DEF CancelledBatch, FlushBatch, QueueState
<1> QED
    BY <1>1, EmptySeq DEF AfterCancelledFlush, QueueState, CancelReason

\* mark_complete releases the channel and no other.
LEMMA MarkCompleteType ==
    ASSUME NEW Q \in QueueState, NEW c \in Channels
    PROVE  /\ MarkComplete(Q, c) \in QueueState
           /\ MarkComplete(Q, c).inFlight = Q.inFlight \ {c}
           /\ MarkComplete(Q, c).overdue = Q.overdue \ {c}
BY DEF MarkComplete, QueueState, Throttle

\* A batch's events, in front of a channel's queue.
LEMMA PutBackType ==
    ASSUME NEW Q \in QueueState, NEW c \in Channels, NEW b \in FlushBatch
    PROVE  /\ TrimBack(b.events \o Q.queues[c]) \in Seq(Events)
           /\ Trimmed(b.events \o Q.queues[c]) \subseteq Events
           /\ BatchEvents(b) \subseteq Events
<1>1. b.events \o Q.queues[c] \in Seq(Events)
    BY ConcatProperties DEF QueueState, FlushBatch
<1>2. BatchEvents(b) \subseteq Events
    BY RangeType DEF BatchEvents, FlushBatch
<1> QED
    BY <1>1, <1>2, TrimBackType

\* requeue never touches in_flight_channels: its caller must mark_complete.
LEMMA RequeueType ==
    ASSUME NEW Q \in QueueState, NEW c \in Channels, NEW b \in FlushBatch
    PROVE  /\ Requeue(Q, c, b) \in QueueState
           /\ Requeue(Q, c, b).inFlight = Q.inFlight
           /\ Requeue(Q, c, b).overdue = Q.overdue
           /\ RequeueDrops(Q, c, b) \subseteq Events
<1>1. RequeueDrops(Q, c, b) \subseteq Events
    BY PutBackType DEF RequeueDrops
<1>2. CASE DeadLetters(Q, c)
    BY <1>1, <1>2 DEF Requeue, QueueState, Throttle
<1>3. CASE ~DeadLetters(Q, c)
    <2> DEFINE rs == [Q.retries EXCEPT ![c] = @ + 1]
               qs == [Q.queues EXCEPT ![c] = TrimBack(b.events \o @)]
               ts == [Q.throttle EXCEPT ![c] = "active"]
    <2>1. rs \in [Channels -> Nat] /\ ts \in [Channels -> Throttle]
        BY DEF QueueState, Throttle
    <2>2. qs \in [Channels -> Seq(Events)]
        BY PutBackType DEF QueueState
    <2>3. Requeue(Q, c, b) = [Q EXCEPT !.retries = rs, !.queues = qs, !.throttle = ts]
        BY <1>3 DEF Requeue, QueueState
    <2> HIDE DEF rs, qs, ts
    <2> QED
        BY <1>1, <2>1, <2>2, <2>3 DEF QueueState
<1> QED
    BY <1>2, <1>3

\* requeue_preserve_timestamps
LEMMA RequeuePreserveTimestampsType ==
    ASSUME NEW Q \in QueueState, NEW c \in Channels, NEW b \in FlushBatch
    PROVE  /\ RequeuePreserveTimestamps(Q, c, b) \in QueueState
           /\ RequeuePreserveTimestamps(Q, c, b).inFlight = Q.inFlight
           /\ RequeuePreserveTimestamps(Q, c, b).overdue = Q.overdue
BY PutBackType DEF RequeuePreserveTimestamps, QueueState

\* requeue_as_cancelled
LEMMA RequeueAsCancelledType ==
    ASSUME NEW Q \in QueueState, NEW c \in Channels, NEW b \in FlushBatch
    PROVE  /\ RequeueAsCancelled(Q, c, b) \in QueueState
           /\ RequeueAsCancelled(Q, c, b).inFlight = Q.inFlight
           /\ RequeueAsCancelled(Q, c, b).overdue = Q.overdue
<1>1. Q.cancelled[c] \in Seq(Events) /\ b.cancelled \in Seq(Events) /\ b.events \in Seq(Events)
    BY DEF QueueState, FlushBatch
<1>2. Q.cancelled[c] \o b.cancelled \in Seq(Events)
    BY <1>1, ConcatProperties
<1>3. Q.cancelled[c] \o b.cancelled \o b.events \in Seq(Events)
    BY <1>1, <1>2, ConcatProperties
<1> QED
    BY <1>3 DEF RequeueAsCancelled, QueueState, FlushBatch, CancelReason

\* drain_channel keeps the in-flight entries.
LEMMA DrainChannelType ==
    ASSUME NEW Q \in QueueState, NEW c \in Channels
    PROVE  /\ DrainChannel(Q, c) \in QueueState
           /\ DrainChannel(Q, c).inFlight = Q.inFlight
           /\ DrainChannel(Q, c).overdue = Q.overdue
           /\ DrainDrops(Q, c) \subseteq Events
<1>1. DrainDrops(Q, c) \subseteq Events
    BY RangeType DEF DrainDrops, QueueState
<1> QED
    BY <1>1, EmptySeq DEF DrainChannel, QueueState, Throttle, CancelReason

\* mark_native_steer_pending
LEMMA MarkNativeSteerPendingType ==
    ASSUME NEW Q \in QueueState, NEW c \in Channels, NEW e \in Events
    PROVE  /\ MarkNativeSteerPending(Q, c, e) \in QueueState
           /\ MarkNativeSteerPending(Q, c, e).inFlight = Q.inFlight
           /\ MarkNativeSteerPending(Q, c, e).overdue = Q.overdue
<1>1. Without(Q.queues[c], e) \in Seq(Events) /\ Append(Q.withheld[c], e) \in Seq(Events)
    BY WithoutType DEF QueueState
<1> QED
    BY <1>1 DEF MarkNativeSteerPending, QueueState

\* release_native_steer
LEMMA ReleaseNativeSteerType ==
    ASSUME NEW Q \in QueueState, NEW c \in Channels, NEW e \in Events
    PROVE  /\ ReleaseNativeSteer(Q, c, e) \in QueueState
           /\ ReleaseNativeSteer(Q, c, e).inFlight = Q.inFlight
           /\ ReleaseNativeSteer(Q, c, e).overdue = Q.overdue
           /\ ReleaseDrops(Q, c, e) \subseteq Events
<1>1. <<e>> \o Q.queues[c] \in Seq(Events)
    BY ConcatProperties DEF QueueState
<1>2. Without(Q.withheld[c], e) \in Seq(Events)
    BY WithoutType DEF QueueState
<1>3. ReleaseDrops(Q, c, e) \subseteq Events
    BY <1>1, TrimBackType DEF ReleaseDrops
<1>4. TrimBack(<<e>> \o Q.queues[c]) \in Seq(Events)
    BY <1>1, TrimBackType
<1> QED
    BY <1>2, <1>3, <1>4 DEF ReleaseNativeSteer, QueueState

\* remove_event
LEMMA RemoveEventType ==
    ASSUME NEW Q \in QueueState, NEW c \in Channels, NEW e \in Events
    PROVE  /\ RemoveEvent(Q, c, e) \in QueueState
           /\ RemoveEvent(Q, c, e).inFlight = Q.inFlight
           /\ RemoveEvent(Q, c, e).overdue = Q.overdue
<1>1. Without(Q.queues[c], e) \in Seq(Events) /\ Without(Q.withheld[c], e) \in Seq(Events)
    BY WithoutType DEF QueueState
<1> QED
    BY <1>1 DEF RemoveEvent, QueueState

\* extend_in_flight_deadline, compact_expired_state and the passage of time.
LEMMA ClockType ==
    ASSUME NEW Q \in QueueState, NEW c \in Channels
    PROVE  /\ ExtendInFlightDeadline(Q, c) \in QueueState
           /\ ExtendInFlightDeadline(Q, c).inFlight = Q.inFlight
           /\ ExtendInFlightDeadline(Q, c).overdue = Q.overdue \ {c}
           /\ ThrottleElapsed(Q, c) \in QueueState
           /\ ThrottleElapsed(Q, c).inFlight = Q.inFlight
           /\ ThrottleElapsed(Q, c).overdue = Q.overdue
           /\ DeadlinePassed(Q, c) \in QueueState
           /\ DeadlinePassed(Q, c).inFlight = Q.inFlight
<1>1. /\ ExtendInFlightDeadline(Q, c) \in QueueState
      /\ ExtendInFlightDeadline(Q, c).inFlight = Q.inFlight
      /\ ExtendInFlightDeadline(Q, c).overdue = Q.overdue \ {c}
    BY DEF ExtendInFlightDeadline, QueueState
<1>2. /\ ThrottleElapsed(Q, c) \in QueueState
      /\ ThrottleElapsed(Q, c).inFlight = Q.inFlight
      /\ ThrottleElapsed(Q, c).overdue = Q.overdue
    BY DEF ThrottleElapsed, QueueState, Throttle
<1>3. /\ DeadlinePassed(Q, c) \in QueueState
      /\ DeadlinePassed(Q, c).inFlight = Q.inFlight
    BY DEF DeadlinePassed, QueueState
<1> QED
    BY <1>1, <1>2, <1>3

\* compact_expired_state
LEMMA CompactExpiredStateType ==
    ASSUME NEW Q \in QueueState
    PROVE  /\ CompactExpiredState(Q) \in QueueState
           /\ CompactExpiredState(Q).inFlight = Q.inFlight
           /\ CompactExpiredState(Q).overdue = Q.overdue
<1> DEFINE th == [c \in Channels |-> IF Q.throttle[c] = "active" THEN "active" ELSE "none"]
           rc == [c \in Channels |-> IF \/ Q.throttle[c] = "active"
                                        \/ Q.queues[c] # << >>
                                        \/ c \in Q.inFlight
                                     THEN Q.retries[c] ELSE 0]
<1>1. th \in [Channels -> Throttle] /\ rc \in [Channels -> Nat]
    BY DEF QueueState, Throttle
<1>2. CompactExpiredState(Q) = [Q EXCEPT !.throttle = th, !.retries = rc]
    BY DEF CompactExpiredState
<1> HIDE DEF th, rc
<1> QED
    BY <1>1, <1>2 DEF QueueState

-----------------------------------------------------------------------------
(***************************************************************************)
(* Type correctness.  TypeOK alone is not inductive: a steer answered by a *)
(* heartbeat task would post an ack without a channel.  Steers only reach  *)
(* tasks that have a channel, which HeartbeatQuiet adds.                   *)
(***************************************************************************)
\* A heartbeat task never has a steer to answer.
HeartbeatQuiet ==
    \A a \in Agents : task[a].ch = NoChannel => task[a].wire = NoEvent /\ task[a].buf = NoEvent

TypeInv == TypeOK /\ HeartbeatQuiet

\* An empty slot has a well-typed task record.
LEMMA NoTaskType == NoTask \in Task
BY EmptySeq DEF NoTask, Task, EmptyBatch, FlushBatch, CancelReason, Outcomes

\* The initial states are well typed.
LEMMA TypeInit == Init => TypeInv
<1> SUFFICES ASSUME Init PROVE TypeInv
    OBVIOUS
<1>1. q \in QueueState
    BY NewQueueType DEF Init
<1>2. task \in [Agents -> Task]
    BY NoTaskType DEF Init
<1>3. HeartbeatQuiet
    BY DEF Init, HeartbeatQuiet, NoTask
<1> QED
    BY <1>1, <1>2, <1>3 DEF Init, TypeInv, TypeOK, Ack

\* The acks a task posts when its read loop ends are well typed.
LEMMA NeutralAcksType ==
    ASSUME TypeInv, NEW a \in Agents
    PROVE  NeutralAcks(task[a]) \subseteq Ack
BY DEF TypeInv, TypeOK, HeartbeatQuiet, NeutralAcks, Ack, Task, NoEvent

\* record_crash keeps the types of the slot's circuit.
LEMMA RecordCrashType ==
    ASSUME TypeInv, NEW a \in Agents, RecordCrash(a)
    PROVE  /\ crashes' \in [Agents -> Nat]
           /\ circuit' \in [Agents -> {"closed", "open", "cooled"}]
           /\ respawn' \in [Agents -> {"no", "running", "ok", "failed"}]
BY HarnessAssumption DEF RecordCrash, TypeInv, TypeOK

\* The queue and the dropped events after a turn's result are well typed.
LEMMA ResultType ==
    ASSUME TypeInv, NEW t \in Task, t.ch \in Channels
    PROVE  /\ ResultQueue(t) \in QueueState
           /\ ResultQueue(t).inFlight = q.inFlight
           /\ ResultQueue(t).overdue = q.overdue
           /\ ResultDrops(t) \subseteq Events
<1>1. t.batch \in FlushBatch /\ q \in QueueState
    BY DEF Task, TypeInv, TypeOK
<1>2. /\ ResultQueue(t) \in QueueState
      /\ ResultQueue(t).inFlight = q.inFlight
      /\ ResultQueue(t).overdue = q.overdue
    BY <1>1, RequeueAsCancelledType, RequeueType DEF ResultQueue
<1>3. ResultDrops(t) \subseteq Events
    BY <1>1, RequeueType, PutBackType DEF ResultDrops
<1> QED
    BY <1>2, <1>3

-----------------------------------------------------------------------------
(***************************************************************************)
(* One lemma per group of actions.                                         *)
(***************************************************************************)
\* A turn starts, or its batch goes back to the queue.
LEMMA DispatchBatchType ==
    ASSUME TypeInv, NEW c \in Channels, NEW b \in FlushBatch, NEW flushed \in QueueState,
           DispatchBatch(c, b, flushed), pc = "dispatch"
    PROVE  TypeInv'
<1>1. UNCHANGED <<sessions, respawn, circuit, crashes, envVars, fails>>
    BY DEF DispatchBatch
<1>2. merged' \subseteq Events
    <2>1. Range(b.cancelled) \subseteq Events
        BY RangeType DEF FlushBatch
    <2> QED
        BY <2>1 DEF DispatchBatch, TypeInv, TypeOK
<1>3. ExpireDrops(q) \subseteq Events
    BY ExpireInFlightType DEF TypeInv, TypeOK
<1>4. CASE \E a \in Claimable(c) : StartTurn(c, b, flushed, a)
    <2>1. PICK a \in Claimable(c) : StartTurn(c, b, flushed, a)
        BY <1>4
    <2>2. a \in Agents
        BY DEF Claimable, TypeInv, TypeOK
    <2>3. [NoTask EXCEPT !.phase = "run", !.ch = c, !.batch = b] \in Task
        BY NoTaskType DEF Task
    <2>4. task' \in [Agents -> Task]
        BY <2>1, <2>3 DEF StartTurn, TypeInv, TypeOK
    <2>5. HeartbeatQuiet'
        BY <2>1, <2>2 DEF StartTurn, HeartbeatQuiet, TypeInv, TypeOK, NoTask
    <2> QED
        BY <1>1, <1>2, <1>3, <2>1, <2>4, <2>5 DEF StartTurn, TypeInv, TypeOK, envVars
<1>5. CASE PoolExhausted(c, b, flushed)
    <2>1. q' \in QueueState
        BY <1>5, RequeuePreserveTimestampsType, MarkCompleteType DEF PoolExhausted
    <2>2. settled' \subseteq Events
        BY <1>3, <1>5, PutBackType DEF PoolExhausted, TypeInv, TypeOK
    <2> QED
        BY <1>1, <1>2, <1>5, <2>1, <2>2 DEF PoolExhausted, TypeInv, TypeOK, envVars, HeartbeatQuiet
<1> QED
    BY <1>4, <1>5 DEF DispatchBatch
\* The top of the loop and dispatch_pending.
LEMMA LoopType ==
    ASSUME TypeInv,
           \/ TopLazy \/ TopSkip \/ Maintenance \/ CollectRespawns
           \/ DispatchQueued \/ DispatchCancelled \/ DispatchDone \/ ReapDone
    PROVE  TypeInv'
<1> USE DEF TypeInv
<1> DEFINE live == ExpireInFlight(q)
<1>1. live \in QueueState /\ ExpireDrops(q) \subseteq Events
    BY ExpireInFlightType DEF TypeOK
<1>2. CASE TopLazy
    BY <1>1, <1>2 DEF TopLazy, TypeOK, HeartbeatQuiet, poolVars
<1>3. CASE TopSkip
    BY <1>3 DEF TopSkip, TypeOK, HeartbeatQuiet, poolVars, envVars, history
<1>4. CASE Maintenance
    <2>1. CompactExpiredState(q) \in QueueState
        BY CompactExpiredStateType DEF TypeOK
    <2>2. /\ ExpireInFlight(CompactExpiredState(q)) \in QueueState
          /\ ExpireDrops(CompactExpiredState(q)) \subseteq Events
        BY <2>1, ExpireInFlightType
    <2>3. q' \in QueueState /\ settled' \subseteq Events
        BY <1>4, <2>2 DEF Maintenance, TypeOK
    <2>4. /\ respawn' \in [Agents -> {"no", "running", "ok", "failed"}]
          /\ crashes' \in [Agents -> Nat]
          /\ circuit' \in [Agents -> {"closed", "open", "cooled"}]
        BY <1>4, HarnessAssumption DEF Maintenance, TypeOK
    <2> QED
        BY <1>4, <2>3, <2>4 DEF Maintenance, TypeOK, HeartbeatQuiet, envVars
<1>5. CASE CollectRespawns
    BY <1>5 DEF CollectRespawns, TypeOK, HeartbeatQuiet, envVars, history
<1>6. CASE DispatchQueued
    <2>0. PICK c \in Channels : \E sorted \in StableSorts(Drained(live, c)) :
              DispatchBatch(c, FlushedBatch(live, c, sorted), AfterFlush(live, c))
        BY <1>6 DEF DispatchQueued, OldestFlushable, Flushable
    <2>1. PICK sorted \in StableSorts(Drained(live, c)) :
              DispatchBatch(c, FlushedBatch(live, c, sorted), AfterFlush(live, c))
        BY <2>0
    <2>2. FlushedBatch(live, c, sorted) \in FlushBatch /\ AfterFlush(live, c) \in QueueState
        BY <1>1, FlushType
    <2> HIDE DEF live
    <2> QED
        BY <1>6, <2>1, <2>2, DispatchBatchType DEF DispatchQueued
<1>7. CASE DispatchCancelled
    <2>1. PICK c \in Channels :
              DispatchBatch(c, CancelledBatch(live, c), AfterCancelledFlush(live, c))
        BY <1>7 DEF DispatchCancelled, CancelledReady
    <2>2. CancelledBatch(live, c) \in FlushBatch /\ AfterCancelledFlush(live, c) \in QueueState
        BY <1>1, CancelledFlushType
    <2> HIDE DEF live
    <2> QED
        BY <1>7, <2>1, <2>2, DispatchBatchType DEF DispatchCancelled
<1>8. CASE DispatchDone
    BY <1>1, <1>8 DEF DispatchDone, TypeOK, HeartbeatQuiet, poolVars, envVars
<1>9. CASE ReapDone
    BY <1>9 DEF ReapDone, ThenDispatch, TypeOK, HeartbeatQuiet, poolVars, envVars, history
<1> QED
    BY <1>2, <1>3, <1>4, <1>5, <1>6, <1>7, <1>8, <1>9

\* The retry history stays a counter per event.
LEMMA CountFailureType ==
    ASSUME TypeInv, NEW b, CountFailure(b)
    PROVE  fails' \in [Events -> Nat]
BY DEF CountFailure, TypeInv, TypeOK

\* A result or a panic is handled.
LEMMA ResultHandlersType ==
    ASSUME TypeInv, NEW a \in Agents, HandlePromptResult(a) \/ RecoverPanickedAgent(a)
    PROVE  TypeInv'
<1> USE DEF TypeInv
<1> DEFINE t == task[a]
<1>1. t \in Task /\ t.ch \in Channels \cup {NoChannel} /\ t.batch \in FlushBatch /\ q \in QueueState
    BY DEF TypeOK, Task
<1>2. ASSUME task' = [task EXCEPT ![a] = NoTask]
      PROVE  task' \in [Agents -> Task] /\ HeartbeatQuiet'
    BY <1>2, NoTaskType DEF TypeOK, HeartbeatQuiet, NoTask
<1>3. CASE HandlePromptResult(a)
    <2>1. q' \in QueueState /\ settled' \subseteq Events /\ fails' \in [Events -> Nat]
        <3>1. CASE t.ch = NoChannel
            BY <1>3, <3>1 DEF HandlePromptResult, TypeOK
        <3>2. CASE t.ch # NoChannel
            <4>1. t.ch \in Channels
                BY <1>1, <3>2
            <4>2. /\ q' = MarkComplete(ResultQueue(t), t.ch)
                  /\ settled' = settled \cup ResultDrops(t)
                  /\ CountFailure(t.batch) \/ UNCHANGED fails
                BY <1>3, <3>2 DEF HandlePromptResult
            <4>3. ResultQueue(t) \in QueueState /\ ResultDrops(t) \subseteq Events
                BY <1>1, <4>1, ResultType
            <4>4. fails' \in [Events -> Nat]
                BY <4>2, CountFailureType DEF TypeOK
            <4> QED
                BY <4>1, <4>2, <4>3, <4>4, MarkCompleteType DEF TypeOK
        <3> QED
            BY <3>1, <3>2
    <2>2. /\ idle' \subseteq Agents
          /\ sessions' \in [Agents -> SUBSET Channels]
          /\ crashes' \in [Agents -> Nat]
          /\ circuit' \in [Agents -> {"closed", "open", "cooled"}]
          /\ respawn' \in [Agents -> {"no", "running", "ok", "failed"}]
          /\ pc' \in {"exit", "reap"}
        <3>1. CASE t.out \in Healthy
            BY <1>3, <3>1 DEF HandlePromptResult, StripRemoved, TypeOK
        <3>2. CASE t.out \notin Healthy
            BY <1>3, <3>2, RecordCrashType DEF HandlePromptResult, TypeOK
        <3> QED
            BY <3>1, <3>2
    <2>3. heartbeat' \in BOOLEAN
        BY <1>3 DEF HandlePromptResult, HeartbeatAfter
    <2> QED
        BY <1>2, <1>3, <2>1, <2>2, <2>3 DEF HandlePromptResult, TypeOK
<1>4. CASE RecoverPanickedAgent(a)
    <2> DEFINE requeued == t.ch # NoChannel /\ DedupMode = "Queue" /\ t.ch \notin removed
    <2>1. /\ q' = IF t.ch = NoChannel THEN q
                  ELSE MarkComplete(IF requeued THEN Requeue(q, t.ch, t.batch) ELSE q, t.ch)
          /\ settled' = settled \cup (IF requeued THEN RequeueDrops(q, t.ch, t.batch)
                                                  ELSE BatchEvents(t.batch))
          /\ CountFailure(t.batch) \/ UNCHANGED fails
        BY <1>4 DEF RecoverPanickedAgent
    <2>2. fails' \in [Events -> Nat]
        BY <2>1, CountFailureType DEF TypeOK
    <2>3. t.ch \in Channels => /\ Requeue(q, t.ch, t.batch) \in QueueState
                               /\ RequeueDrops(q, t.ch, t.batch) \subseteq Events
        BY <1>1, RequeueType
    <2>4. BatchEvents(t.batch) \subseteq Events
        BY <1>1, RangeType DEF BatchEvents, FlushBatch
    <2>5. q' \in QueueState
        BY <1>1, <2>1, <2>3, MarkCompleteType
    <2>6. settled' \subseteq Events
        BY <1>1, <2>1, <2>3, <2>4 DEF TypeOK
    <2>7. /\ crashes' \in [Agents -> Nat]
          /\ circuit' \in [Agents -> {"closed", "open", "cooled"}]
          /\ respawn' \in [Agents -> {"no", "running", "ok", "failed"}]
        BY <1>4, RecordCrashType DEF RecoverPanickedAgent
    <2>8. heartbeat' \in BOOLEAN
        BY <1>4 DEF RecoverPanickedAgent, HeartbeatAfter
    <2>9. /\ pc' \in {"exit", "reap", "dispatch"} /\ ret' \in {ret, "top"}
          /\ sessions' \in [Agents -> SUBSET Channels]
        BY <1>4 DEF RecoverPanickedAgent, ThenDispatch, TypeOK
    <2> QED
        BY <1>2, <1>4, <2>2, <2>5, <2>6, <2>7, <2>8, <2>9 DEF RecoverPanickedAgent, TypeOK
<1> QED
    BY <1>3, <1>4
\* A steer or a control signal leaves a well-typed task table, and reaches
\* only tasks that have a channel.
LEMMA SignalType ==
    ASSUME TypeInv, NEW c \in Channels, NEW a \in TasksOf(c), NEW s \in Signals
    PROVE  /\ a \in Agents /\ task[a].ch = c /\ task[a].phase # "none"
           /\ Signalled(task[a], s) \in Task
           /\ Signalled(task[a], s).ch = c
           /\ Signalled(task[a], s).phase = task[a].phase
           /\ Signalled(task[a], s).batch = task[a].batch
           /\ Signalled(task[a], s).wire = task[a].wire
           /\ Signalled(task[a], s).buf = task[a].buf
<1>1. a \in Agents /\ task[a].ch = c /\ task[a].phase # "none" /\ task[a] \in Task
    BY DEF TasksOf, Busy, TypeInv, TypeOK
<1> QED
    BY <1>1 DEF Signalled, Task

\* The relay arm: a new event, with or without a steer.
LEMMA ReceiveEventType ==
    ASSUME TypeInv, NEW c \in Channels, ReceiveEvent(c)
    PROVE  TypeInv'
<1> USE DEF TypeInv
<1> DEFINE e == arrived + 1
           pushed == Push(q, c, e)
<1>1. e \in Events /\ e \in Nat /\ arrived' = e
    BY QueueAssumption DEF ReceiveEvent
<1>2. pushed \in QueueState /\ PushDrops(q, c, e) \subseteq Events
    BY <1>1, PushType DEF TypeOK
<1> HIDE DEF e, pushed
<1>3. settled' \subseteq Events
    BY <1>2 DEF ReceiveEvent, TypeOK, e
<1>4. q' \in QueueState /\ task' \in [Agents -> Task] /\ HeartbeatQuiet'
    <2>1. CASE q' = pushed /\ UNCHANGED task
        BY <1>2, <2>1 DEF TypeOK, HeartbeatQuiet
    <2>2. ASSUME NEW s \in ModeGateSignals, NEW a \in TasksOf(c), NativeSteerAccepted(a, s),
                 task' = [task EXCEPT ![a].buf = e],
                 q' = MarkNativeSteerPending(pushed, c, e)
          PROVE  q' \in QueueState /\ task' \in [Agents -> Task] /\ HeartbeatQuiet'
        <3>1. q' \in QueueState
            BY <1>1, <1>2, <2>2, MarkNativeSteerPendingType
        <3>2. a \in Agents /\ task[a].ch = c /\ c # NoChannel
            BY HarnessAssumption DEF TasksOf, Busy
        <3>3. task' \in [Agents -> Task]
            BY <1>1, <2>2, <3>2 DEF TypeOK, Task
        <3>4. HeartbeatQuiet'
            BY <2>2, <3>2 DEF TypeOK, HeartbeatQuiet, Task
        <3> QED
            BY <3>1, <3>3, <3>4
    <2>3. ASSUME NEW s \in ModeGateSignals, NEW a \in TasksOf(c),
                 task' = [task EXCEPT ![a] = IF s = "none" THEN @ ELSE Signalled(@, s)],
                 q' = pushed
          PROVE  q' \in QueueState /\ task' \in [Agents -> Task] /\ HeartbeatQuiet'
        <3>1. s = "none" \/ s \in Signals
            BY HarnessAssumption DEF ModeGateSignals, Signals
        <3>2. a \in Agents /\ task[a].ch = c /\ c # NoChannel
            BY HarnessAssumption DEF TasksOf, Busy
        <3>3. CASE s = "none"
            BY <1>2, <2>3, <3>2, <3>3 DEF TypeOK, HeartbeatQuiet
        <3>4. CASE s \in Signals
            <4>1. Signalled(task[a], s) \in Task /\ Signalled(task[a], s).ch = c
                BY <3>4, SignalType
            <4>2. s # "none"
                BY <3>4 DEF Signals
            <4> QED
                BY <1>2, <2>3, <3>2, <4>1, <4>2 DEF TypeOK, HeartbeatQuiet
        <3> QED
            BY <3>1, <3>3, <3>4
    <2> QED
        BY <2>1, <2>2, <2>3 DEF ReceiveEvent, e, pushed
<1>5. pc' \in {"dispatch", "top"} /\ ret' \in {"top", ret}
    BY DEF ReceiveEvent, ThenDispatch, ThenTop
<1> QED
    BY <1>1, <1>3, <1>4, <1>5 DEF ReceiveEvent, TypeOK

\* The steer-ack arm.
LEMMA HandleSteerAckType ==
    ASSUME TypeInv, NEW m \in acks, HandleSteerAck(m)
    PROVE  TypeInv'
<1> USE DEF TypeInv
<1>1. m.ch \in Channels /\ m.ev \in Events /\ q \in QueueState
    BY DEF TypeOK, Ack
<1>2. q' \in QueueState /\ settled' \subseteq Events
    <2>1. CASE m.kind = "success"
        <3>1. ExtendInFlightDeadline(q, m.ch) \in QueueState
            BY <1>1, ClockType
        <3> QED
            BY <1>1, <2>1, <3>1, RemoveEventType DEF HandleSteerAck, TypeOK
    <2>2. CASE m.kind # "success"
        BY <1>1, <2>2, ReleaseNativeSteerType DEF HandleSteerAck, TypeOK
    <2> QED
        BY <2>1, <2>2
<1>3. task' \in [Agents -> Task] /\ HeartbeatQuiet'
    <2>1. CASE UNCHANGED task
        BY <2>1 DEF TypeOK, HeartbeatQuiet
    <2>2. ASSUME NEW a \in TasksOf(m.ch), task' = [task EXCEPT ![a] = Signalled(@, "Steer")]
          PROVE  task' \in [Agents -> Task] /\ HeartbeatQuiet'
        <3>1. /\ a \in Agents /\ m.ch # NoChannel
              /\ Signalled(task[a], "Steer") \in Task
              /\ Signalled(task[a], "Steer").ch = m.ch
            BY <1>1, SignalType, HarnessAssumption DEF Signals
        <3> QED
            BY <2>2, <3>1 DEF TypeOK, HeartbeatQuiet
    <2> QED
        BY <2>1, <2>2 DEF HandleSteerAck
<1> QED
    BY <1>2, <1>3 DEF HandleSteerAck, ThenDispatch, TypeOK

\* Owner controls.
LEMMA ControlType ==
    ASSUME TypeInv, NEW c \in Channels, NEW s \in Controls,
           OwnerControl(c, s)
    PROVE  TypeInv'
<1> USE DEF TypeInv
<1>1. s \in Signals /\ c # NoChannel
    BY HarnessAssumption DEF Signals
<1>2. spent' \in [faults: Nat, controls: Nat, changes: Nat, hangs: Nat]
    BY DEF OwnerControl, TypeOK
<1>3. sessions' \in [Agents -> SUBSET Channels]
    BY DEF OwnerControl, TypeOK
<1>4. task' \in [Agents -> Task] /\ HeartbeatQuiet'
    <2>1. CASE UNCHANGED task
        BY <2>1 DEF TypeOK, HeartbeatQuiet
    <2>2. ASSUME NEW a \in TasksOf(c), task' = [task EXCEPT ![a] = Signalled(@, s)]
          PROVE  task' \in [Agents -> Task] /\ HeartbeatQuiet'
        <3>1. /\ a \in Agents
              /\ Signalled(task[a], s) \in Task
              /\ Signalled(task[a], s).ch = c
            BY <1>1, SignalType
        <3> QED
            BY <1>1, <2>2, <3>1 DEF TypeOK, HeartbeatQuiet
    <2> QED
        BY <2>1, <2>2 DEF OwnerControl
<1> QED
    BY <1>2, <1>3, <1>4 DEF OwnerControl, ThenTop, TypeOK, history

\* Membership notifications.
LEMMA MembershipType ==
    ASSUME TypeInv, NEW c \in Channels, MemberRemoved(c) \/ MemberAdded(c)
    PROVE  TypeInv'
<1> USE DEF TypeInv
<1>1. CASE MemberRemoved(c)
    <2>1. q' \in QueueState /\ settled' \subseteq Events
        BY <1>1, DrainChannelType DEF MemberRemoved, TypeOK
    <2>2. spent' \in [faults: Nat, controls: Nat, changes: Nat, hangs: Nat]
        BY <1>1 DEF MemberRemoved, TypeOK
    <2>3. sessions' \in [Agents -> SUBSET Channels]
        BY <1>1 DEF MemberRemoved, TypeOK
    <2> QED
        BY <1>1, <2>1, <2>2, <2>3 DEF MemberRemoved, ThenTop, TypeOK, HeartbeatQuiet
<1>2. CASE MemberAdded(c)
    <2>1. spent' \in [faults: Nat, controls: Nat, changes: Nat, hangs: Nat]
        BY <1>2 DEF MemberAdded, TypeOK
    <2> QED
        BY <1>2, <2>1 DEF MemberAdded, ThenTop, TypeOK, HeartbeatQuiet, poolVars, history
<1> QED
    BY <1>1, <1>2

\* Timers, sleep and wake.
LEMMA TimerType ==
    ASSUME TypeInv,
           \/ TimerTick \/ HeartbeatTick \/ IdlePoolSleep
           \/ WakeSucceeded \/ WakeFailed \/ WakeRetryDue
    PROVE  TypeInv'
<1> USE DEF TypeInv
<1>1. CASE TimerTick
    BY <1>1 DEF TimerTick, ThenTop, TypeOK, HeartbeatQuiet, poolVars, envVars, history
<1>2. CASE HeartbeatTick
    <2>1. q' \in QueueState /\ settled' \subseteq Events
        BY <1>2, ExpireInFlightType DEF HeartbeatTick, TypeOK
    <2>2. /\ task' \in [Agents -> Task] /\ HeartbeatQuiet'
          /\ idle' \subseteq Agents /\ heartbeat' \in BOOLEAN
        <3>1. CASE UNCHANGED <<task, idle, heartbeat>>
            BY <3>1 DEF TypeOK, HeartbeatQuiet
        <3>2. ASSUME NEW a \in idle,
                     task' = [task EXCEPT ![a] = [NoTask EXCEPT !.phase = "run"]],
                     idle' = idle \ {a}, heartbeat' = TRUE
              PROVE  /\ task' \in [Agents -> Task] /\ HeartbeatQuiet'
                     /\ idle' \subseteq Agents /\ heartbeat' \in BOOLEAN
            <4>1. [NoTask EXCEPT !.phase = "run"] \in Task
                BY NoTaskType DEF Task
            <4>2. HeartbeatQuiet'
                BY <3>2 DEF TypeOK, HeartbeatQuiet, NoTask
            <4> QED
                BY <3>2, <4>1, <4>2 DEF TypeOK
        <3> QED
            BY <1>2, <3>1, <3>2 DEF HeartbeatTick
    <2>3. pc' \in {"dispatch", "top"} /\ ret' \in {"top", ret}
        BY <1>2 DEF HeartbeatTick, ThenDispatch, ThenTop
    <2> QED
        BY <1>2, <2>1, <2>2, <2>3 DEF HeartbeatTick, TypeOK
<1>3. CASE IdlePoolSleep
    BY <1>3 DEF IdlePoolSleep, ThenTop, TypeOK, HeartbeatQuiet, history
<1>4. CASE WakeSucceeded
    BY <1>4 DEF WakeSucceeded, ThenDispatch, TypeOK, HeartbeatQuiet, history
<1>5. CASE WakeFailed
    <2>1. spent' \in [faults: Nat, controls: Nat, changes: Nat, hangs: Nat]
        BY <1>5 DEF WakeFailed, TypeOK
    <2> QED
        BY <1>5, <2>1 DEF WakeFailed, ThenTop, TypeOK, HeartbeatQuiet, poolVars, history
<1>6. CASE WakeRetryDue
    BY <1>6 DEF WakeRetryDue, ThenTop, TypeOK, HeartbeatQuiet, poolVars, history
<1> QED
    BY <1>1, <1>2, <1>3, <1>4, <1>5, <1>6
\* send_prompt_result: the end of a turn, however it ends.
LEMMA SendPromptResultType ==
    ASSUME TypeInv, NEW a \in Agents, NEW o \in Outcomes, NEW kept \in BOOLEAN,
           NEW reason \in CancelReason, SendPromptResult(a, o, kept, reason),
           spent' \in [faults: Nat, controls: Nat, changes: Nat, hangs: Nat]
    PROVE  TypeInv'
<1> USE DEF TypeInv
<1>1. acks' \subseteq Ack
    BY NeutralAcksType DEF SendPromptResult, TypeOK
<1>2. task' \in [Agents -> Task] /\ HeartbeatQuiet'
    <2>1. task' = [task EXCEPT ![a].phase = "done", ![a].out = o, ![a].kept = kept,
                               ![a].batch.reason = reason,
                               ![a].wire = NoEvent, ![a].buf = NoEvent]
        BY DEF SendPromptResult
    <2>2. task[a] \in Task /\ task[a].batch \in FlushBatch
        BY DEF TypeOK, Task
    <2> DEFINE b == [task[a].batch EXCEPT !.reason = reason]
               t == [task[a] EXCEPT !.phase = "done", !.out = o, !.kept = kept,
                                    !.batch = b, !.wire = NoEvent, !.buf = NoEvent]
    <2>3. b \in FlushBatch
        BY <2>2 DEF FlushBatch
    <2>4. task' = [task EXCEPT ![a] = t]
        BY <2>1, <2>2 DEF TypeOK, Task, FlushBatch
    <2>5. t \in Task /\ t.wire = NoEvent /\ t.buf = NoEvent
        <3> HIDE DEF b
        <3> QED
            BY <2>2, <2>3 DEF Task, NoEvent
    <2> HIDE DEF t
    <2> QED
        BY <2>4, <2>5 DEF TypeOK, HeartbeatQuiet
<1>3. sessions' \in [Agents -> SUBSET Channels]
    <2>1. PICK s \in SessionsAfter(a, o) : sessions' = [sessions EXCEPT ![a] = s]
        BY DEF SendPromptResult
    <2>2. task[a].ch \in Channels \cup {NoChannel} /\ sessions[a] \subseteq Channels
        BY DEF TypeOK, Task
    <2>3. s \subseteq Channels
        BY <2>2 DEF SessionsAfter
    <2> QED
        BY <2>1, <2>3 DEF TypeOK
<1> QED
    BY <1>1, <1>2, <1>3 DEF SendPromptResult, loopVars, history, TypeOK

\* The steps of a prompt task.
LEMMA TaskStepType ==
    ASSUME TypeInv, NEW a \in Agents,
           \/ FinishTurn(a) \/ TakeControl(a) \/ FinishCancelled(a) \/ PanicTask(a)
           \/ \E o \in Failures : FailTurn(a, o)
           \/ \E o \in {"drainTimeout", "exited", "appError", "authError"} : FailCancelled(a, o)
           \/ WriteSteer(a)
           \/ \E kind \in {"success", "fallback", "reject"} : AnswerSteer(a, kind)
    PROVE  TypeInv'
<1> USE DEF TypeInv
<1>1. /\ task[a] \in Task /\ task[a].batch.reason \in CancelReason
      /\ KeepBatch(task[a]) \in BOOLEAN /\ CancelKeeps(task[a]) \in BOOLEAN
      /\ CancelReasonOf(task[a]) \in CancelReason
    BY DEF TypeOK, Task, FlushBatch, KeepBatch, CancelKeeps, CancelReasonOf, CancelReason
<1>2. spent' = [spent EXCEPT !.faults = @ + 1] \/ UNCHANGED spent
        => spent' \in [faults: Nat, controls: Nat, changes: Nat, hangs: Nat]
    BY DEF TypeOK
<1>3. CASE FinishTurn(a)
    BY <1>1, <1>2, <1>3, SendPromptResultType DEF FinishTurn, Outcomes
<1>4. CASE FinishCancelled(a)
    BY <1>1, <1>2, <1>4, SendPromptResultType DEF FinishCancelled, Outcomes
<1>5. ASSUME NEW o \in Failures, FailTurn(a, o) PROVE TypeInv'
    BY <1>1, <1>2, <1>5, SendPromptResultType DEF FailTurn, Outcomes, Failures
<1>6. ASSUME NEW o \in {"drainTimeout", "exited", "appError", "authError"}, FailCancelled(a, o)
      PROVE  TypeInv'
    BY <1>1, <1>2, <1>6, SendPromptResultType DEF FailCancelled, Outcomes
<1>7. ASSUME NEW p \in {"cancelling", "panicked"},
             task' = [task EXCEPT ![a].phase = p, ![a].wire = NoEvent, ![a].buf = NoEvent]
      PROVE  task' \in [Agents -> Task] /\ HeartbeatQuiet'
    <2> DEFINE t == [task[a] EXCEPT !.phase = p, !.wire = NoEvent, !.buf = NoEvent]
    <2>1. t \in Task /\ t.wire = NoEvent /\ t.buf = NoEvent
        BY <1>1 DEF Task, NoEvent
    <2>2. task' = [task EXCEPT ![a] = t]
        BY <1>1, <1>7 DEF TypeOK, Task
    <2> HIDE DEF t
    <2> QED
        BY <2>1, <2>2 DEF TypeOK, HeartbeatQuiet
<1>8. CASE TakeControl(a)
    <2>1. task' \in [Agents -> Task] /\ HeartbeatQuiet'
        BY <1>7, <1>8 DEF TakeControl
    <2>2. acks' \subseteq Ack
        BY <1>8, NeutralAcksType DEF TakeControl, TypeOK
    <2> QED
        BY <1>8, <2>1, <2>2 DEF TakeControl, loopVars, history, TypeOK
<1>9. CASE PanicTask(a)
    <2>1. task' \in [Agents -> Task] /\ HeartbeatQuiet'
        BY <1>7, <1>9 DEF PanicTask
    <2>2. acks' \subseteq Ack
        BY <1>9, NeutralAcksType DEF PanicTask, TypeOK
    <2>3. spent' \in [faults: Nat, controls: Nat, changes: Nat, hangs: Nat]
        BY <1>2, <1>9 DEF PanicTask
    <2> QED
        BY <1>9, <2>1, <2>2, <2>3 DEF PanicTask, loopVars, history, TypeOK
<1>10. ASSUME NEW e \in Events, NEW kind \in {"success", "fallback", "reject"},
              task[a].ch # NoChannel
       PROVE  [ch |-> task[a].ch, ev |-> e, kind |-> kind] \in Ack
    BY <1>1, <1>10 DEF Ack, Task
<1>11. CASE WriteSteer(a)
    <2>1. task[a].buf \in Events /\ task[a].ch # NoChannel
        BY <1>1, <1>11 DEF WriteSteer, HeartbeatQuiet, Task
    <2>2. acks' \subseteq Ack
        BY ZenonT(60), <1>10, <1>11, <2>1 DEF WriteSteer, TypeOK
    <2> DEFINE t1 == [task[a] EXCEPT !.wire = task[a].buf, !.buf = NoEvent]
               t2 == [task[a] EXCEPT !.buf = NoEvent]
    <2>3. t1 \in Task /\ t2 \in Task /\ t1.ch = task[a].ch /\ t2.ch = task[a].ch
        BY <1>1, <2>1 DEF Task, NoEvent
    <2>4. task' = [task EXCEPT ![a] = t1] \/ task' = [task EXCEPT ![a] = t2]
        BY <1>1, <1>11 DEF WriteSteer, TypeOK, Task
    <2> HIDE DEF t1, t2
    <2>5. task' \in [Agents -> Task] /\ HeartbeatQuiet'
        BY <2>1, <2>3, <2>4 DEF TypeOK, HeartbeatQuiet
    <2> QED
        BY <1>11, <2>2, <2>5 DEF WriteSteer, loopVars, history, TypeOK
<1>12. ASSUME NEW kind \in {"success", "fallback", "reject"}, AnswerSteer(a, kind)
       PROVE  TypeInv'
    <2>1. task[a].wire \in Events /\ task[a].ch # NoChannel
        BY <1>1, <1>12 DEF AnswerSteer, HeartbeatQuiet, Task
    <2>2. acks' \subseteq Ack
        BY <1>10, <1>12, <2>1 DEF AnswerSteer, TypeOK
    <2>3. task' \in [Agents -> Task]
        <3> DEFINE t == [task[a] EXCEPT !.wire = NoEvent]
        <3>1. t \in Task
            BY <1>1 DEF Task, NoEvent
        <3>2. task' = [task EXCEPT ![a] = t]
            BY <1>1, <1>12 DEF AnswerSteer, TypeOK, Task
        <3> HIDE DEF t
        <3> QED
            BY <3>1, <3>2 DEF TypeOK
    <2>4. HeartbeatQuiet'
        BY <1>12, <2>1 DEF AnswerSteer, HeartbeatQuiet, TypeOK, Task
    <2> QED
        BY <1>12, <2>2, <2>3, <2>4 DEF AnswerSteer, loopVars, history, TypeOK
<1> QED
    BY <1>3, <1>4, <1>5, <1>6, <1>8, <1>9, <1>11, <1>12

\* Respawn tasks and clocks.
LEMMA EnvironmentType ==
    ASSUME TypeInv,
           \/ \E a \in Agents : RespawnOk(a) \/ RespawnFailed(a) \/ CircuitCools(a)
           \/ ClockStep
    PROVE  TypeInv'
<1> USE DEF TypeInv
<1>1. ASSUME NEW a \in Agents, RespawnOk(a) PROVE TypeInv'
    BY <1>1 DEF RespawnOk, loopVars, history, TypeOK, HeartbeatQuiet
<1>2. ASSUME NEW a \in Agents, RespawnFailed(a) PROVE TypeInv'
    <2>1. spent' \in [faults: Nat, controls: Nat, changes: Nat, hangs: Nat]
        BY <1>2 DEF RespawnFailed, TypeOK
    <2> QED
        BY <1>2, <2>1 DEF RespawnFailed, loopVars, history, TypeOK, HeartbeatQuiet
<1>3. ASSUME NEW a \in Agents, CircuitCools(a) PROVE TypeInv'
    BY <1>3 DEF CircuitCools, loopVars, history, TypeOK, HeartbeatQuiet
<1>4. ASSUME NEW c \in Channels, ThrottleElapses(c) PROVE TypeInv'
    BY <1>4, ClockType DEF ThrottleElapses, poolVars, envVars, history, TypeOK, HeartbeatQuiet
<1>5. ASSUME NEW c \in Channels, DeadlinePasses(c) PROVE TypeInv'
    <2>1. spent' \in [faults: Nat, controls: Nat, changes: Nat, hangs: Nat]
        BY <1>5 DEF DeadlinePasses, TypeOK
    <2> QED
        BY <1>5, <2>1, ClockType DEF DeadlinePasses, poolVars, history, TypeOK, HeartbeatQuiet
<1> QED
    BY <1>1, <1>2, <1>3, <1>4, <1>5 DEF ClockStep

\* Every step keeps the types.
LEMMA TypeNext == TypeInv /\ [Next \/ Exited]_vars => TypeInv'
<1> SUFFICES ASSUME TypeInv, [Next \/ Exited]_vars PROVE TypeInv'
    OBVIOUS
<1>1. CASE UNCHANGED vars \/ Exited
    BY <1>1 DEF Exited, vars, poolVars, envVars, history, TypeInv, TypeOK, HeartbeatQuiet
<1>2. CASE LoopStep
    BY <1>2, LoopType, ResultHandlersType, HandleSteerAckType, TimerType DEF LoopStep
<1>3. CASE RelayStep
    BY <1>3, ReceiveEventType, ControlType, MembershipType DEF RelayStep
<1>4. CASE TaskStep
    BY <1>4, TaskStepType, EnvironmentType DEF TaskStep
<1>5. CASE ClockStep
    BY <1>5, EnvironmentType
<1> QED
    BY <1>1, <1>2, <1>3, <1>4, <1>5 DEF Next

\* Every variable of the harness keeps its type in every reachable state.
THEOREM TypeCorrect == Spec => []TypeOK
<1>1. TypeInv => TypeOK
    BY DEF TypeInv
<1> QED
    BY <1>1, TypeInit, TypeNext, PTL DEF Spec
=============================================================================
