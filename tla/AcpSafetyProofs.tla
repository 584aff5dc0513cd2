---------------------------- MODULE AcpSafetyProofs ----------------------------
(***************************************************************************)
(* Slots, heartbeats and turns: the mutual exclusion that the harness      *)
(* rests on, for every number of agents and channels.                      *)
(*                                                                         *)
(* Slots are exclusive because an agent only moves between its slot, a     *)
(* task and a respawn; the wake of a lazy pool, which fills slots without  *)
(* looking, is covered by Asleep.  Turns are exclusive because             *)
(* in_flight_channels is exactly the set of the tasks' channels, as long   *)
(* as no turn outlives its in-flight deadline (MaxHangs = 0).              *)
(***************************************************************************)
EXTENDS AcpHarnessProofs

\* A pool that is not ready has no agents, no tasks and no respawns.
Asleep ==
    life # "ready" => idle = {} /\ Busy = {} /\ \A a \in Agents : respawn[a] = "no"

SlotInv == TypeInv /\ SlotExclusive /\ Asleep /\ HeartbeatExact

TurnInv == SlotInv /\ q.overdue = {} /\ InFlightExact /\ OneTurnPerChannel

-----------------------------------------------------------------------------
(***************************************************************************)
(* What most actions leave alone.                                          *)
(***************************************************************************)
\* Who is busy, and with which channel.
SameTasks == Busy' = Busy /\ \A a \in Agents : task'[a].ch = task[a].ch

\* Which slots are filled or being respawned, and whether the pool is ready.
SameSlots ==
    /\ idle' = idle
    /\ \A a \in Agents : respawn'[a] = "no" <=> respawn[a] = "no"
    /\ life' = "ready" <=> life = "ready"

\* Actions that leave these alone keep the slots exclusive.
LEMMA SlotsKept ==
    ASSUME SlotInv, TypeInv', SameTasks, SameSlots, heartbeat' = heartbeat
    PROVE  SlotInv'
<1>1. Busy' \subseteq Agents /\ Busy \subseteq Agents
    BY DEF Busy
<1>2. SlotExclusive' /\ Asleep'
    BY <1>1 DEF SlotInv, SlotExclusive, Asleep, SameTasks, SameSlots
<1>3. HeartbeatExact'
    BY <1>1 DEF SlotInv, HeartbeatExact, SameTasks
<1> QED
    BY <1>2, <1>3 DEF SlotInv

\* Actions that leave tasks and in_flight_channels alone keep turns exclusive.
LEMMA TurnsKept ==
    ASSUME TurnInv, SlotInv', SameTasks, q'.inFlight = q.inFlight, q'.overdue = {}
    PROVE  TurnInv'
<1>1. Busy' = Busy /\ Busy \subseteq Agents /\ \A a \in Busy : task'[a].ch = task[a].ch
    BY DEF SameTasks, Busy
<1>2. InFlightExact'
    BY <1>1 DEF TurnInv, InFlightExact
<1>3. OneTurnPerChannel'
    BY <1>1 DEF TurnInv, OneTurnPerChannel
<1> QED
    BY <1>2, <1>3 DEF TurnInv

\* A task starts in a slot that was idle.
LEMMA TaskStarts ==
    ASSUME SlotInv, TypeInv', NEW a \in idle, NEW t \in Task, t.phase = "run",
           task' = [task EXCEPT ![a] = t],
           idle' = idle \ {a},
           UNCHANGED <<respawn, life>>,
           heartbeat' = (heartbeat \/ t.ch = NoChannel),
           t.ch = NoChannel => ~heartbeat
    PROVE  /\ SlotInv'
           /\ a \in Agents /\ a \notin Busy /\ Busy' = Busy \cup {a}
           /\ task'[a] = t /\ \A b \in Agents \ {a} : task'[b] = task[b]
<1>1. /\ a \in Agents /\ a \notin Busy /\ task \in [Agents -> Task]
    BY DEF SlotInv, SlotExclusive, TypeInv, TypeOK
<1>2. task'[a] = t /\ \A b \in Agents \ {a} : task'[b] = task[b]
    BY <1>1
<1>3. Busy' = Busy \cup {a}
    BY <1>1, <1>2 DEF Busy
<1>4. SlotExclusive'
    BY <1>1, <1>3 DEF SlotInv, SlotExclusive
<1>5. Asleep'
    BY <1>1 DEF SlotInv, Asleep
<1>6. HeartbeatExact'
    <2>1. \A b \in Busy : b # a /\ b \in Agents
        BY <1>1 DEF Busy
    <2>2. heartbeat' = (\E b \in Busy' : task'[b].ch = NoChannel)
        BY <1>2, <1>3, <2>1 DEF SlotInv, HeartbeatExact
    <2>3. \A b, d \in Busy' : task'[b].ch = NoChannel /\ task'[d].ch = NoChannel => b = d
        BY <1>2, <1>3, <2>1 DEF SlotInv, HeartbeatExact
    <2> QED
        BY <2>2, <2>3 DEF HeartbeatExact
<1> QED
    BY <1>1, <1>2, <1>3, <1>4, <1>5, <1>6 DEF SlotInv

\* A task ends: its slot is filled again, or a respawn may start for it.
LEMMA TaskEnds ==
    ASSUME SlotInv, TypeInv', NEW a \in Busy,
           task' = [task EXCEPT ![a] = NoTask],
           heartbeat' = HeartbeatAfter(task[a]),
           UNCHANGED life,
           \A b \in Agents \ {a} : respawn'[b] = respawn[b],
           \/ idle' = idle \cup {a} /\ respawn'[a] = respawn[a]
           \/ idle' = idle
    PROVE  /\ SlotInv'
           /\ a \in Agents /\ Busy' = Busy \ {a}
           /\ \A b \in Busy' : b # a /\ b \in Agents /\ task'[b] = task[b]
<1>1. a \in Agents /\ a \notin idle /\ respawn[a] = "no"
    BY DEF SlotInv, SlotExclusive, Busy
<1>2. task'[a] = NoTask /\ \A b \in Agents \ {a} : task'[b] = task[b]
    BY <1>1 DEF SlotInv, TypeInv, TypeOK
<1>3. Busy' = Busy \ {a}
    BY <1>1, <1>2 DEF Busy, NoTask
<1>4. life = "ready"
    BY DEF SlotInv, Asleep
<1>5. SlotExclusive' /\ Asleep'
    BY <1>1, <1>3, <1>4 DEF SlotInv, SlotExclusive, Asleep
<1>6. \A b \in Busy' : b # a /\ b \in Busy /\ b \in Agents /\ task'[b] = task[b]
    BY <1>2, <1>3 DEF Busy
<1>7. HeartbeatExact'
    <2>1. CASE task[a].ch = NoChannel
        BY <1>6, <2>1 DEF SlotInv, HeartbeatExact, HeartbeatAfter
    <2>2. CASE task[a].ch # NoChannel
        <3>1. heartbeat' = heartbeat
            BY <2>2 DEF HeartbeatAfter, SlotInv, TypeInv, TypeOK
        <3>2. \A b \in Busy : task[b].ch = NoChannel => b \in Busy' /\ task'[b] = task[b]
            BY <1>3, <1>6, <2>2
        <3> QED
            BY <1>6, <3>1, <3>2 DEF SlotInv, HeartbeatExact
    <2> QED
        BY <2>1, <2>2
<1> QED
    BY <1>1, <1>3, <1>5, <1>6, <1>7 DEF SlotInv
-----------------------------------------------------------------------------
(***************************************************************************)
(* Action by action: each keeps SlotInv, and keeps TurnInv where it holds. *)
(***************************************************************************)
\* A batch is dispatched to an agent, or put back.
LEMMA DispatchBatchSafe ==
    ASSUME SlotInv, TypeInv', NEW c \in Channels, NEW b \in FlushBatch,
           NEW flushed \in QueueState, DispatchBatch(c, b, flushed)
    PROVE  /\ SlotInv'
           /\ (/\ TurnInv /\ c \notin q.inFlight
               /\ flushed.inFlight = q.inFlight \cup {c}
               /\ flushed.overdue = {}) => TurnInv'
<1>1. UNCHANGED <<respawn, life, heartbeat>>
    BY DEF DispatchBatch, envVars
<1>2. c # NoChannel
    BY HarnessAssumption
<1>3. CASE \E a \in Claimable(c) : StartTurn(c, b, flushed, a)
    <2> DEFINE t == [NoTask EXCEPT !.phase = "run", !.ch = c, !.batch = b]
    <2>1. PICK a \in idle : StartTurn(c, b, flushed, a)
        BY <1>3 DEF Claimable
    <2>2. t \in Task /\ t.phase = "run" /\ t.ch = c
        BY NoTaskType DEF Task, NoTask
    <2>3. task' = [task EXCEPT ![a] = t] /\ idle' = idle \ {a} /\ q' = flushed
        BY <2>1 DEF StartTurn
    <2> HIDE DEF t
    <2>4. heartbeat' = (heartbeat \/ t.ch = NoChannel)
        BY <1>1, <1>2, <2>2 DEF SlotInv, TypeInv, TypeOK
    <2>5. /\ SlotInv'
          /\ a \in Agents /\ a \notin Busy /\ Busy' = Busy \cup {a}
          /\ task'[a] = t /\ \A d \in Agents \ {a} : task'[d] = task[d]
        BY <1>1, <1>2, <2>2, <2>3, <2>4, TaskStarts
    <2>6. ASSUME TurnInv, c \notin q.inFlight, flushed.inFlight = q.inFlight \cup {c},
                 flushed.overdue = {}
          PROVE  TurnInv'
        <3>1. \A d \in Busy : d # a /\ d \in Agents /\ task'[d] = task[d] /\ task[d].ch # c
            BY <1>2, <2>5, <2>6 DEF TurnInv, InFlightExact, Busy
        <3>2. InFlightExact'
            <4>1. {task'[d].ch : d \in Busy'} = {task[d].ch : d \in Busy} \cup {c}
                BY <2>2, <2>5, <3>1
            <4> QED
                BY <1>2, <2>3, <2>6, <4>1 DEF TurnInv, InFlightExact
        <3>3. OneTurnPerChannel'
            BY <2>2, <2>5, <3>1, <2>6 DEF TurnInv, OneTurnPerChannel
        <3> QED
            BY <2>3, <2>5, <2>6, <3>2, <3>3 DEF TurnInv
    <2> QED
        BY <2>5, <2>6
<1>4. CASE PoolExhausted(c, b, flushed)
    <2>1. SameTasks /\ SameSlots
        BY <1>1, <1>4 DEF PoolExhausted, SameTasks, SameSlots, Busy
    <2>2. SlotInv'
        BY <1>1, <2>1, SlotsKept
    <2>3. q'.inFlight = flushed.inFlight \ {c} /\ q'.overdue = flushed.overdue \ {c}
        BY <1>4, RequeuePreserveTimestampsType, MarkCompleteType DEF PoolExhausted
    <2> QED
        BY <2>1, <2>2, <2>3, TurnsKept
<1> QED
    BY <1>3, <1>4 DEF DispatchBatch

\* The top of the loop and dispatch_pending.
LEMMA LoopSafe ==
    ASSUME SlotInv, TypeInv',
           \/ TopLazy \/ TopSkip \/ Maintenance \/ CollectRespawns
           \/ DispatchQueued \/ DispatchCancelled \/ DispatchDone \/ ReapDone
    PROVE  SlotInv' /\ (TurnInv => TurnInv')
<1> DEFINE live == ExpireInFlight(q)
<1>1. /\ live \in QueueState
      /\ live.inFlight = q.inFlight \ q.overdue
      /\ live.overdue = {}
    BY ExpireInFlightType DEF SlotInv, TypeInv, TypeOK
<1>2. TurnInv => q.overdue = {}
    BY DEF TurnInv
<1>3. CASE TopLazy
    <2>1. SameTasks /\ SameSlots /\ heartbeat' = heartbeat /\ q' = live
        BY <1>3 DEF TopLazy, poolVars, SameTasks, SameSlots, Busy
    <2> HIDE DEF live
    <2> QED
        BY <1>1, <1>2, <2>1, SlotsKept, TurnsKept
<1>4. CASE TopSkip \/ ReapDone
    <2>1. SameTasks /\ SameSlots /\ heartbeat' = heartbeat /\ q' = q
        BY <1>4 DEF TopSkip, ReapDone, poolVars, envVars, SameTasks, SameSlots, Busy
    <2> QED
        BY <1>2, <2>1, SlotsKept, TurnsKept
<1>5. CASE Maintenance
    <2>1. SameTasks /\ idle' = idle /\ life' = life /\ heartbeat' = heartbeat
        BY <1>5 DEF Maintenance, envVars, SameTasks, Busy
    <2>2. \A a \in Agents : respawn'[a] # "no" => respawn[a] # "no" \/ a \in Refillable
        BY <1>5 DEF Maintenance
    <2>3. SlotExclusive'
        BY <2>1, <2>2 DEF SlotInv, SlotExclusive, Refillable, SameTasks
    <2>4. Asleep'
        BY <1>5, <2>1 DEF Maintenance, Asleep
    <2>5. HeartbeatExact'
        <3>1. Busy \subseteq Agents
            BY DEF Busy
        <3> QED
            BY <2>1, <3>1 DEF SlotInv, HeartbeatExact, SameTasks
    <2>6. SlotInv'
        BY <2>3, <2>4, <2>5 DEF SlotInv
    <2>7. /\ CompactExpiredState(q) \in QueueState
          /\ CompactExpiredState(q).inFlight = q.inFlight
          /\ CompactExpiredState(q).overdue = q.overdue
        BY CompactExpiredStateType DEF SlotInv, TypeInv, TypeOK
    <2>8. q'.inFlight = q.inFlight \ q.overdue /\ q'.overdue = {}
        BY <1>5, <2>7, ExpireInFlightType DEF Maintenance
    <2> QED
        BY <1>2, <2>1, <2>6, <2>8, TurnsKept
<1>6. CASE CollectRespawns
    <2>1. SameTasks /\ life' = life /\ heartbeat' = heartbeat /\ q' = q
        BY <1>6 DEF CollectRespawns, envVars, SameTasks, Busy
    <2>2. /\ idle' = idle \cup {a \in Agents : respawn[a] = "ok"}
          /\ \A a \in Agents : respawn'[a] = IF respawn[a] \in {"ok", "failed"} THEN "no"
                                             ELSE respawn[a]
        BY <1>6 DEF CollectRespawns
    <2>3. SlotExclusive'
        BY <2>1, <2>2 DEF SlotInv, SlotExclusive, SameTasks
    <2>4. Asleep'
        BY <2>1, <2>2 DEF SlotInv, Asleep, SameTasks
    <2>5. HeartbeatExact'
        <3>1. Busy \subseteq Agents
            BY DEF Busy
        <3> QED
            BY <2>1, <3>1 DEF SlotInv, HeartbeatExact, SameTasks
    <2>6. SlotInv'
        BY <2>3, <2>4, <2>5 DEF SlotInv
    <2> QED
        BY <1>2, <2>1, <2>6, TurnsKept
<1>7. CASE DispatchQueued
    <2>1. PICK c \in Flushable(live) : \E sorted \in StableSorts(Drained(live, c)) :
              DispatchBatch(c, FlushedBatch(live, c, sorted), AfterFlush(live, c))
        BY <1>7 DEF DispatchQueued, OldestFlushable
    <2>2. c \in Channels /\ c \notin live.inFlight
        BY DEF Flushable
    <2> HIDE DEF live
    <2>3. PICK sorted \in StableSorts(Drained(live, c)) :
              DispatchBatch(c, FlushedBatch(live, c, sorted), AfterFlush(live, c))
        BY <2>1
    <2>4. /\ FlushedBatch(live, c, sorted) \in FlushBatch
          /\ AfterFlush(live, c) \in QueueState
          /\ AfterFlush(live, c).inFlight = live.inFlight \cup {c}
          /\ AfterFlush(live, c).overdue = live.overdue \ {c}
        BY <1>1, <2>2, FlushType
    <2> QED
        BY <1>1, <1>2, <2>2, <2>3, <2>4, DispatchBatchSafe
<1>8. CASE DispatchCancelled
    <2>1. PICK c \in CancelledReady(live) :
              DispatchBatch(c, CancelledBatch(live, c), AfterCancelledFlush(live, c))
        BY <1>8 DEF DispatchCancelled
    <2>2. c \in Channels /\ c \notin live.inFlight
        BY DEF CancelledReady
    <2> HIDE DEF live
    <2>3. /\ CancelledBatch(live, c) \in FlushBatch
          /\ AfterCancelledFlush(live, c) \in QueueState
          /\ AfterCancelledFlush(live, c).inFlight = live.inFlight \cup {c}
          /\ AfterCancelledFlush(live, c).overdue = live.overdue \ {c}
        BY <1>1, <2>2, CancelledFlushType
    <2> QED
        BY <1>1, <1>2, <2>1, <2>2, <2>3, DispatchBatchSafe
<1>9. CASE DispatchDone
    <2>1. SameTasks /\ SameSlots /\ heartbeat' = heartbeat /\ q' = live
        BY <1>9 DEF DispatchDone, poolVars, envVars, SameTasks, SameSlots, Busy
    <2> HIDE DEF live
    <2> QED
        BY <1>1, <1>2, <2>1, SlotsKept, TurnsKept
<1> QED
    BY <1>3, <1>4, <1>5, <1>6, <1>7, <1>8, <1>9
\* A turn's end releases its channel, and no other task works on that channel.
LEMMA TurnReleased ==
    ASSUME TurnInv, SlotInv', NEW a \in Busy, Busy' = Busy \ {a},
           \A b \in Busy' : b # a /\ b \in Agents /\ task'[b] = task[b],
           q'.inFlight = q.inFlight \ {task[a].ch}, q'.overdue = {}
    PROVE  TurnInv'
<1>1. \A b \in Busy' : b \in Busy /\ (task[b].ch = task[a].ch => task[a].ch = NoChannel)
    BY DEF TurnInv, OneTurnPerChannel
<1>2. {task'[b].ch : b \in Busy'} = {task[b].ch : b \in Busy'}
    OBVIOUS
<1>3. InFlightExact'
    BY <1>1, <1>2 DEF TurnInv, InFlightExact
<1>4. OneTurnPerChannel'
    BY <1>1 DEF TurnInv, OneTurnPerChannel
<1> QED
    BY <1>3, <1>4 DEF TurnInv

\* A result or a panic is handled.
LEMMA ResultHandlersSafe ==
    ASSUME SlotInv, TypeInv', NEW a \in Agents,
           HandlePromptResult(a) \/ RecoverPanickedAgent(a)
    PROVE  SlotInv' /\ (TurnInv => TurnInv')
<1> DEFINE t == task[a]
<1>1. a \in Busy /\ t \in Task /\ t.ch \in Channels \cup {NoChannel} /\ t.batch \in FlushBatch
    BY DEF HandlePromptResult, RecoverPanickedAgent, Busy, SlotInv, TypeInv, TypeOK, Task
<1>2. /\ task' = [task EXCEPT ![a] = NoTask]
      /\ heartbeat' = HeartbeatAfter(t)
      /\ UNCHANGED life
    BY DEF HandlePromptResult, RecoverPanickedAgent
<1>3. RecordCrash(a) => \A b \in Agents \ {a} : respawn'[b] = respawn[b]
    BY DEF RecordCrash, SlotInv, TypeInv, TypeOK
<1>4. /\ \A b \in Agents \ {a} : respawn'[b] = respawn[b]
      /\ \/ idle' = idle \cup {a} /\ respawn'[a] = respawn[a]
         \/ idle' = idle
    BY <1>3 DEF HandlePromptResult, RecoverPanickedAgent
<1>5. /\ SlotInv' /\ Busy' = Busy \ {a}
      /\ \A b \in Busy' : b # a /\ b \in Agents /\ task'[b] = task[b]
    BY <1>1, <1>2, <1>4, TaskEnds
<1>6. ASSUME TurnInv PROVE TurnInv'
    <2>1. q \in QueueState /\ q.overdue = {} /\ q.inFlight \subseteq Channels /\ NoChannel \notin Channels
        BY <1>6, HarnessAssumption DEF TurnInv, SlotInv, TypeInv, TypeOK, QueueState
    <2>2. CASE t.ch = NoChannel
        <3>1. q' = q
            BY <2>2 DEF HandlePromptResult, RecoverPanickedAgent
        <3> QED
            BY <1>1, <1>5, <1>6, <2>1, <2>2, <3>1, TurnReleased
    <2>3. CASE t.ch # NoChannel
        <3>1. t.ch \in Channels
            BY <1>1, <2>3
        <3>2. PICK r \in QueueState : /\ r.inFlight = q.inFlight /\ r.overdue = q.overdue
                                      /\ q' = MarkComplete(r, t.ch)
            <4>1. CASE HandlePromptResult(a)
                <5>1. q' = MarkComplete(ResultQueue(t), t.ch)
                    BY <2>3, <4>1 DEF HandlePromptResult
                <5>2. /\ ResultQueue(t) \in QueueState
                      /\ ResultQueue(t).inFlight = q.inFlight
                      /\ ResultQueue(t).overdue = q.overdue
                    BY <1>1, <3>1, ResultType DEF SlotInv
                <5> QED
                    BY <5>1, <5>2
            <4>2. CASE RecoverPanickedAgent(a)
                <5>1. \/ q' = MarkComplete(Requeue(q, t.ch, t.batch), t.ch)
                      \/ q' = MarkComplete(q, t.ch)
                    BY <2>3, <4>2 DEF RecoverPanickedAgent
                <5> QED
                    BY <1>1, <2>1, <3>1, <5>1, RequeueType
            <4> QED
                BY <4>1, <4>2
        <3>3. q'.inFlight = q.inFlight \ {t.ch} /\ q'.overdue = {}
            BY <2>1, <3>1, <3>2, MarkCompleteType
        <3> QED
            BY <1>1, <1>5, <1>6, <3>3, TurnReleased
    <2> QED
        BY <2>2, <2>3
<1> QED
    BY <1>5, <1>6

\* Signalling a task changes neither its phase nor its channel.
LEMMA SignalKeepsTasks ==
    ASSUME SlotInv, NEW c \in Channels, NEW a \in TasksOf(c), NEW s \in Signals,
           task' = [task EXCEPT ![a] = Signalled(@, s)]
    PROVE  SameTasks
<1>1. /\ a \in Agents /\ task[a].ch = c
      /\ Signalled(task[a], s).ch = c
      /\ Signalled(task[a], s).phase = task[a].phase
    BY SignalType DEF SlotInv
<1>2. task \in [Agents -> Task]
    BY DEF SlotInv, TypeInv, TypeOK
<1> QED
    BY <1>1, <1>2 DEF SameTasks, Busy

\* The relay arm.
LEMMA RelaySafe ==
    ASSUME SlotInv, TypeInv', NEW c \in Channels,
           \/ ReceiveEvent(c)
           \/ \E s \in Controls : OwnerControl(c, s)
           \/ MemberRemoved(c) \/ MemberAdded(c)
    PROVE  SlotInv' /\ (TurnInv => TurnInv')
<1>1. q \in QueueState /\ task \in [Agents -> Task]
    BY DEF SlotInv, TypeInv, TypeOK
<1>2. TurnInv => q.overdue = {}
    BY DEF TurnInv
<1>3. CASE ReceiveEvent(c)
    <2> DEFINE e == arrived + 1
               pushed == Push(q, c, e)
    <2>1. e \in Events
        BY <1>3 DEF ReceiveEvent
    <2>2. pushed \in QueueState /\ pushed.inFlight = q.inFlight /\ pushed.overdue = q.overdue
        BY <1>1, <2>1, PushType
    <2>3. q' = pushed \/ q' = MarkNativeSteerPending(pushed, c, e)
        BY <1>3 DEF ReceiveEvent
    <2> HIDE DEF e, pushed
    <2>4. q'.inFlight = q.inFlight /\ q'.overdue = q.overdue
        BY <2>1, <2>2, <2>3, MarkNativeSteerPendingType
    <2>5. SameTasks
        <3>1. CASE UNCHANGED task
            BY <3>1 DEF SameTasks, Busy
        <3>2. ASSUME NEW a \in TasksOf(c), task' = [task EXCEPT ![a].buf = e]
              PROVE  SameTasks
            <4>1. a \in Agents /\ task[a] \in Task
                BY <1>1 DEF TasksOf, Busy
            <4> QED
                BY <1>1, <3>2, <4>1 DEF SameTasks, Busy, Task
        <3>3. ASSUME NEW s \in ModeGateSignals, NEW a \in TasksOf(c),
                     task' = [task EXCEPT ![a] = IF s = "none" THEN @ ELSE Signalled(@, s)]
              PROVE  SameTasks
            <4>1. s = "none" \/ s \in Signals
                BY HarnessAssumption DEF ModeGateSignals, Signals
            <4>2. CASE s = "none"
                BY <1>1, <3>3, <4>2 DEF SameTasks, Busy
            <4>3. CASE s \in Signals
                <5>1. s # "none"
                    BY <4>3 DEF Signals
                <5>2. task' = [task EXCEPT ![a] = Signalled(@, s)]
                    BY <3>3, <5>1
                <5> QED
                    BY <4>3, <5>2, SignalKeepsTasks
            <4> QED
                BY <4>1, <4>2, <4>3
        <3> QED
            BY <1>3, <3>1, <3>2, <3>3 DEF ReceiveEvent, e
    <2>6. SameSlots /\ heartbeat' = heartbeat
        BY <1>3 DEF ReceiveEvent, SameSlots
    <2> QED
        BY <1>2, <2>4, <2>5, <2>6, SlotsKept, TurnsKept
<1>4. ASSUME NEW s \in Controls, OwnerControl(c, s)
      PROVE  SlotInv' /\ (TurnInv => TurnInv')
    <2>1. SameTasks
        <3>1. s \in Signals
            BY HarnessAssumption DEF Signals
        <3>2. CASE UNCHANGED task
            BY <3>2 DEF SameTasks, Busy
        <3>3. ASSUME NEW a \in TasksOf(c), task' = [task EXCEPT ![a] = Signalled(@, s)]
              PROVE  SameTasks
            BY <3>1, <3>3, SignalKeepsTasks
        <3> QED
            BY <1>4, <3>2, <3>3 DEF OwnerControl
    <2>2. SameSlots /\ heartbeat' = heartbeat /\ q' = q
        BY <1>4 DEF OwnerControl, SameSlots
    <2> QED
        BY <1>2, <2>1, <2>2, SlotsKept, TurnsKept
<1>5. CASE MemberRemoved(c)
    <2>1. SameTasks /\ SameSlots /\ heartbeat' = heartbeat /\ q' = DrainChannel(q, c)
        BY <1>5 DEF MemberRemoved, SameTasks, SameSlots, Busy
    <2> QED
        BY <1>1, <1>2, <2>1, DrainChannelType, SlotsKept, TurnsKept
<1>6. CASE MemberAdded(c)
    <2>1. SameTasks /\ SameSlots /\ heartbeat' = heartbeat /\ q' = q
        BY <1>6 DEF MemberAdded, SameTasks, SameSlots, Busy, poolVars
    <2> QED
        BY <1>2, <2>1, SlotsKept, TurnsKept
<1> QED
    BY <1>3, <1>4, <1>5, <1>6
\* The steer-ack arm.
LEMMA HandleSteerAckSafe ==
    ASSUME SlotInv, TypeInv', NEW m \in acks, HandleSteerAck(m)
    PROVE  SlotInv' /\ (TurnInv => TurnInv')
<1>1. q \in QueueState /\ m.ch \in Channels /\ m.ev \in Events
    BY DEF SlotInv, TypeInv, TypeOK, Ack
<1>2. SameTasks
    <2>1. CASE UNCHANGED task
        BY <2>1 DEF SameTasks, Busy
    <2>2. ASSUME NEW a \in TasksOf(m.ch), task' = [task EXCEPT ![a] = Signalled(@, "Steer")]
          PROVE  SameTasks
        BY <1>1, <2>2, SignalKeepsTasks DEF Signals
    <2> QED
        BY <2>1, <2>2 DEF HandleSteerAck
<1>3. SameSlots /\ heartbeat' = heartbeat
    BY DEF HandleSteerAck, SameSlots
<1>4. q'.inFlight = q.inFlight /\ q'.overdue \subseteq q.overdue
    <2>1. CASE m.kind = "success"
        <3> DEFINE r == ExtendInFlightDeadline(q, m.ch)
        <3>1. r \in QueueState /\ r.inFlight = q.inFlight /\ r.overdue = q.overdue \ {m.ch}
            BY <1>1, ClockType
        <3>2. q' = RemoveEvent(r, m.ch, m.ev)
            BY <2>1 DEF HandleSteerAck
        <3> HIDE DEF r
        <3> QED
            BY <1>1, <3>1, <3>2, RemoveEventType
    <2>2. CASE m.kind # "success"
        BY <1>1, <2>2, ReleaseNativeSteerType DEF HandleSteerAck
    <2> QED
        BY <2>1, <2>2
<1>5. TurnInv => q'.overdue = {}
    BY <1>4 DEF TurnInv
<1> QED
    BY <1>2, <1>3, <1>4, <1>5, SlotsKept, TurnsKept

\* Timers, sleep and wake.
LEMMA TimerSafe ==
    ASSUME SlotInv, TypeInv',
           \/ TimerTick \/ HeartbeatTick \/ IdlePoolSleep
           \/ WakeSucceeded \/ WakeFailed \/ WakeRetryDue
    PROVE  SlotInv' /\ (TurnInv => TurnInv')
<1>1. TurnInv => q.overdue = {}
    BY DEF TurnInv
<1>2. CASE TimerTick \/ WakeFailed \/ WakeRetryDue
    <2>1. SameTasks /\ SameSlots /\ heartbeat' = heartbeat /\ q' = q
        BY <1>2 DEF TimerTick, WakeFailed, WakeRetryDue, SameTasks, SameSlots, Busy,
                    poolVars, envVars
    <2> QED
        BY <1>1, <2>1, SlotsKept, TurnsKept
<1>3. CASE HeartbeatTick
    <2>1. /\ q' = ExpireInFlight(q) /\ UNCHANGED <<respawn, life>> /\ life = "ready"
          /\ q'.inFlight = q.inFlight \ q.overdue /\ q'.overdue = {}
        BY <1>3, ExpireInFlightType DEF HeartbeatTick, SlotInv, TypeInv, TypeOK
    <2>2. CASE UNCHANGED <<task, idle, heartbeat>>
        <3>1. SameTasks /\ SameSlots
            BY <2>1, <2>2 DEF SameTasks, SameSlots, Busy
        <3> QED
            BY <1>1, <2>1, <2>2, <3>1, SlotsKept, TurnsKept
    <2>3. ASSUME NEW a \in idle, ~heartbeat,
                 task' = [task EXCEPT ![a] = [NoTask EXCEPT !.phase = "run"]],
                 idle' = idle \ {a}, heartbeat' = TRUE
          PROVE  SlotInv' /\ (TurnInv => TurnInv')
        <3> DEFINE t == [NoTask EXCEPT !.phase = "run"]
        <3>1. t \in Task /\ t.phase = "run" /\ t.ch = NoChannel
            BY NoTaskType DEF Task, NoTask
        <3>2. task' = [task EXCEPT ![a] = t]
            BY <2>3
        <3> HIDE DEF t
        <3>3. /\ SlotInv'
              /\ a \in Agents /\ a \notin Busy /\ Busy' = Busy \cup {a}
              /\ task'[a] = t /\ \A b \in Agents \ {a} : task'[b] = task[b]
            BY <2>1, <2>3, <3>1, <3>2, TaskStarts
        <3>4. ASSUME TurnInv PROVE TurnInv'
            <4>1. \A b \in Busy : b # a /\ b \in Agents /\ task'[b] = task[b]
                BY <3>3 DEF Busy
            <4>2. {task'[b].ch : b \in Busy'} = {task[b].ch : b \in Busy} \cup {NoChannel}
                BY <3>1, <3>3, <4>1
            <4>3. InFlightExact'
                BY <1>1, <2>1, <3>4, <4>2 DEF TurnInv, InFlightExact
            <4>4. OneTurnPerChannel'
                BY <3>1, <3>3, <3>4, <4>1 DEF TurnInv, OneTurnPerChannel
            <4> QED
                BY <2>1, <3>3, <4>3, <4>4 DEF TurnInv
        <3> QED
            BY <3>3, <3>4
    <2> QED
        BY <1>3, <2>2, <2>3 DEF HeartbeatTick
<1>4. CASE IdlePoolSleep
    <2>1. SameTasks /\ heartbeat' = heartbeat /\ q' = q /\ idle' = {} /\ UNCHANGED respawn
        BY <1>4 DEF IdlePoolSleep, SameTasks, Busy
    <2>2. Busy = {} /\ \A a \in Agents : respawn[a] = "no"
        BY <1>4 DEF IdlePoolSleep, SleepDue
    <2>3. SlotInv'
        BY <2>1, <2>2 DEF SlotInv, SlotExclusive, Asleep, HeartbeatExact, SameTasks
    <2> QED
        BY <1>1, <2>1, <2>3, TurnsKept
<1>5. CASE WakeSucceeded
    <2>1. SameTasks /\ heartbeat' = heartbeat /\ q' = q /\ UNCHANGED respawn /\ life' = "ready"
        BY <1>5 DEF WakeSucceeded, SameTasks, Busy
    <2>2. Busy = {} /\ \A a \in Agents : respawn[a] = "no"
        BY <1>5 DEF WakeSucceeded, SlotInv, Asleep
    <2>3. SlotInv'
        BY <2>1, <2>2 DEF SlotInv, SlotExclusive, Asleep, HeartbeatExact, SameTasks
    <2> QED
        BY <1>1, <2>1, <2>3, TurnsKept
<1> QED
    BY <1>2, <1>3, <1>4, <1>5

\* The steps of prompt tasks, respawn tasks and clocks.
LEMMA EnvironmentSafe ==
    ASSUME SlotInv, TypeInv', TaskStep \/ ClockStep
    PROVE  SlotInv' /\ (MaxHangs = 0 /\ TurnInv => TurnInv')
<1>1. q \in QueueState /\ task \in [Agents -> Task] /\ spent.hangs \in Nat
    BY DEF SlotInv, TypeInv, TypeOK
<1>2. TurnInv => q.overdue = {}
    BY DEF TurnInv
<1>3. ASSUME NEW a \in Agents,
             \/ FinishTurn(a) \/ TakeControl(a) \/ FinishCancelled(a) \/ PanicTask(a)
             \/ \E o \in Failures : FailTurn(a, o)
             \/ \E o \in {"drainTimeout", "exited", "appError", "authError"} :
                   FailCancelled(a, o)
             \/ WriteSteer(a)
             \/ \E kind \in {"success", "fallback", "reject"} : AnswerSteer(a, kind)
      PROVE  SlotInv' /\ (TurnInv => TurnInv')
    <2>1. task[a] \in Task /\ task[a].phase \in {"run", "cancelling"}
        BY <1>1, <1>3 DEF FinishTurn, TakeControl, FinishCancelled, PanicTask, FailTurn,
                          FailCancelled, WriteSteer, AnswerSteer
    <2>2. /\ \A b \in Agents \ {a} : task'[b] = task[b]
          /\ task'[a].ch = task[a].ch
          /\ task'[a].phase # "none"
        <3>1. CASE \/ FinishTurn(a) \/ FinishCancelled(a)
                   \/ \E o \in Failures : FailTurn(a, o)
                   \/ \E o \in {"drainTimeout", "exited", "appError", "authError"} :
                         FailCancelled(a, o)
            <4>1. PICK o, kept, reason : SendPromptResult(a, o, kept, reason)
                BY <3>1 DEF FinishTurn, FinishCancelled, FailTurn, FailCancelled
            <4> DEFINE b == [task[a].batch EXCEPT !.reason = reason]
                       t == [task[a] EXCEPT !.phase = "done", !.out = o, !.kept = kept,
                                            !.batch = b, !.wire = NoEvent, !.buf = NoEvent]
            <4>2. task' = [task EXCEPT ![a] = t]
                <5>1. task' = [task EXCEPT ![a].phase = "done", ![a].out = o, ![a].kept = kept,
                                           ![a].batch.reason = reason,
                                           ![a].wire = NoEvent, ![a].buf = NoEvent]
                    BY <4>1 DEF SendPromptResult
                <5> QED
                    BY <1>1, <2>1, <5>1 DEF Task, FlushBatch
            <4>3. t.ch = task[a].ch /\ t.phase = "done"
                BY <2>1 DEF Task
            <4> HIDE DEF t
            <4> QED
                BY <1>1, <4>2, <4>3
        <3>2. CASE TakeControl(a) \/ PanicTask(a)
            BY <1>1, <2>1, <3>2 DEF TakeControl, PanicTask, Task
        <3>3. CASE WriteSteer(a) \/ \E kind \in {"success", "fallback", "reject"} : AnswerSteer(a, kind)
            BY <1>1, <2>1, <3>3 DEF WriteSteer, AnswerSteer, Task
        <3> QED
            BY <1>3, <3>1, <3>2, <3>3
    <2>3. SameTasks
        BY <2>1, <2>2 DEF SameTasks, Busy
    <2>4. UNCHANGED <<respawn, loopVars>>
        BY <1>3 DEF FinishTurn, FinishCancelled, FailTurn, FailCancelled, SendPromptResult,
                    TakeControl, PanicTask, WriteSteer, AnswerSteer
    <2>5. SameSlots /\ heartbeat' = heartbeat /\ q' = q
        BY <2>4 DEF SameSlots, loopVars
    <2> QED
        BY <1>2, <2>3, <2>5, SlotsKept, TurnsKept
<1>4. ASSUME NEW a \in Agents, RespawnOk(a) \/ RespawnFailed(a) \/ CircuitCools(a)
      PROVE  SlotInv' /\ (TurnInv => TurnInv')
    <2>1. SameTasks /\ heartbeat' = heartbeat /\ q' = q /\ UNCHANGED <<idle, life>>
        BY <1>4 DEF RespawnOk, RespawnFailed, CircuitCools, SameTasks, Busy, loopVars
    <2>2. \A b \in Agents : respawn'[b] = "no" <=> respawn[b] = "no"
        BY <1>4 DEF RespawnOk, RespawnFailed, CircuitCools, SlotInv, TypeInv, TypeOK
    <2>3. SameSlots
        BY <2>1, <2>2 DEF SameSlots
    <2> QED
        BY <1>2, <2>1, <2>3, SlotsKept, TurnsKept
<1>5. ASSUME NEW c \in Channels, ThrottleElapses(c)
      PROVE  SlotInv' /\ (TurnInv => TurnInv')
    <2>1. SameTasks /\ SameSlots /\ heartbeat' = heartbeat /\ q' = ThrottleElapsed(q, c)
        BY <1>5 DEF ThrottleElapses, SameTasks, SameSlots, Busy, poolVars, envVars
    <2> QED
        BY <1>1, <1>2, <2>1, ClockType, SlotsKept, TurnsKept
<1>6. ASSUME NEW c \in Channels, DeadlinePasses(c)
      PROVE  SlotInv' /\ MaxHangs # 0
    <2>1. SameTasks /\ SameSlots /\ heartbeat' = heartbeat
        BY <1>6 DEF DeadlinePasses, SameTasks, SameSlots, Busy, poolVars
    <2>2. spent.hangs < MaxHangs
        BY <1>6 DEF DeadlinePasses
    <2> QED
        BY <1>1, <2>1, <2>2, SlotsKept
<1> QED
    BY <1>3, <1>4, <1>5, <1>6 DEF TaskStep, ClockStep

-----------------------------------------------------------------------------
(***************************************************************************)
(* The theorems.                                                           *)
(***************************************************************************)
\* The initial states satisfy both invariants.
LEMMA SafeInit == Init => SlotInv /\ TurnInv
<1> SUFFICES ASSUME Init PROVE SlotInv /\ TurnInv
    OBVIOUS
<1>1. Busy = {}
    BY DEF Init, Busy, NoTask
<1>2. SlotInv
    BY <1>1, TypeInit DEF Init, SlotInv, SlotExclusive, Asleep, HeartbeatExact
<1>3. q.overdue = {} /\ q.inFlight = {}
    BY DEF Init, NewQueue
<1> QED
    BY <1>1, <1>2, <1>3 DEF TurnInv, InFlightExact, OneTurnPerChannel

\* Every step keeps both invariants.
LEMMA SafeNext ==
    SlotInv /\ [Next \/ Exited]_vars => SlotInv' /\ (MaxHangs = 0 /\ TurnInv => TurnInv')
<1> SUFFICES ASSUME SlotInv, [Next \/ Exited]_vars
             PROVE  SlotInv' /\ (MaxHangs = 0 /\ TurnInv => TurnInv')
    OBVIOUS
<1>1. TypeInv'
    BY TypeNext DEF SlotInv
<1>2. CASE UNCHANGED vars \/ Exited
    <2>1. SameTasks /\ SameSlots /\ heartbeat' = heartbeat /\ q' = q
        BY <1>2 DEF Exited, vars, poolVars, envVars, SameTasks, SameSlots, Busy
    <2>2. TurnInv => q.overdue = {}
        BY DEF TurnInv
    <2> QED
        BY <1>1, <2>1, <2>2, SlotsKept, TurnsKept
<1>3. CASE LoopStep
    BY <1>1, <1>3, LoopSafe, ResultHandlersSafe, HandleSteerAckSafe, TimerSafe DEF LoopStep
<1>4. CASE RelayStep
    BY <1>1, <1>4, RelaySafe DEF RelayStep
<1>5. CASE TaskStep \/ ClockStep
    BY <1>1, <1>5, EnvironmentSafe
<1> QED
    BY <1>2, <1>3, <1>4, <1>5 DEF Next

\* A slot never holds an agent while its task runs or its respawn is under way,
\* so return_agent never finds its slot occupied: for every number of agents,
\* with crashes, panics, circuit breakers, sleeps and partial wakes.
THEOREM SlotsExclusive == Spec => []SlotExclusive
<1>1. SlotInv => SlotExclusive
    BY DEF SlotInv
<1> QED
    BY <1>1, SafeInit, SafeNext, PTL DEF Spec

\* heartbeat_in_flight is set exactly while one heartbeat task lives.
THEOREM HeartbeatsExact == Spec => []HeartbeatExact
<1>1. SlotInv => HeartbeatExact
    BY DEF SlotInv
<1> QED
    BY <1>1, SafeInit, SafeNext, PTL DEF Spec

\* While no turn outlives its in-flight deadline, a channel never has two turns
\* in flight.
THEOREM TurnsExclusive ==
    ASSUME MaxHangs = 0
    PROVE  Spec => []OneTurnPerChannel
<1>1. TurnInv => OneTurnPerChannel
    BY DEF TurnInv
<1>2. TurnInv /\ [Next \/ Exited]_vars => TurnInv'
    BY SafeNext DEF TurnInv
<1> QED
    BY <1>1, <1>2, SafeInit, PTL DEF Spec

\* While no turn outlives its in-flight deadline, in_flight_channels is exactly
\* the set of the channels with a task, at every step of every handler.
THEOREM InFlightChannelsExact ==
    ASSUME MaxHangs = 0
    PROVE  Spec => []InFlightExact
<1>1. TurnInv => InFlightExact
    BY DEF TurnInv
<1>2. TurnInv /\ [Next \/ Exited]_vars => TurnInv'
    BY SafeNext DEF TurnInv
<1> QED
    BY <1>1, <1>2, SafeInit, PTL DEF Spec
-----------------------------------------------------------------------------
(***************************************************************************)
(* Sessions of removed channels.  They are stripped from idle agents at    *)
(* the removal, from a task's agent when it comes back, and a replaced     *)
(* process starts without any; a pool that sleeps forgets them all, which  *)
(* is what a wake relies on.                                               *)
(***************************************************************************)
SessionInv ==
    /\ NoStaleSessions
    /\ life # "ready" => \A a \in Agents : sessions[a] = {}

\* Steps that add no session, no idle agent and no removed channel.
LEMMA SessionsShrink ==
    ASSUME SlotInv, SessionInv, idle' \subseteq idle, removed' \subseteq removed,
           \A a \in Agents : sessions'[a] \subseteq sessions[a],
           life' # "ready" => life # "ready"
    PROVE  SessionInv'
<1>1. idle \subseteq Agents
    BY DEF SlotInv, TypeInv, TypeOK
<1> QED
    BY <1>1 DEF SessionInv, NoStaleSessions

\* Every step keeps the sessions of removed channels away from idle agents.
LEMMA SessionNext ==
    ASSUME SlotInv, SessionInv, [Next \/ Exited]_vars
    PROVE  SessionInv'
<1>1. /\ idle \subseteq Agents /\ task \in [Agents -> Task]
      /\ sessions \in [Agents -> SUBSET Channels]
    BY DEF SlotInv, TypeInv, TypeOK
<1>2. CASE UNCHANGED vars \/ Exited
    <2>1. UNCHANGED <<sessions, idle, removed, life>>
        BY <1>2 DEF Exited, vars, poolVars, envVars
    <2> QED
        BY <2>1, SessionsShrink
<1>3. CASE LoopStep
    <2>1. CASE TopLazy \/ TopSkip \/ Maintenance \/ ReapDone \/ DispatchDone
        <3>1. UNCHANGED <<sessions, idle, removed>> /\ (life' # "ready" => life # "ready")
            BY <2>1 DEF TopLazy, TopSkip, Maintenance, ReapDone, DispatchDone, poolVars, envVars
        <3> QED
            BY <3>1, SessionsShrink
    <2>2. CASE CollectRespawns
        <3> DEFINE back == {a \in Agents : respawn[a] = "ok"}
        <3>1. /\ idle' = idle \cup back /\ UNCHANGED <<removed, life>>
              /\ \A a \in Agents : sessions'[a] = IF a \in back THEN {} ELSE sessions[a]
            BY <2>2 DEF CollectRespawns, envVars
        <3>2. back \subseteq Agents
            OBVIOUS
        <3> HIDE DEF back
        <3> QED
            BY <1>1, <3>1, <3>2 DEF SessionInv, NoStaleSessions
    <2>3. CASE DispatchQueued \/ DispatchCancelled
        <3>1. PICK c, b, flushed : DispatchBatch(c, b, flushed)
            BY <2>3 DEF DispatchQueued, DispatchCancelled
        <3>2. UNCHANGED <<sessions, removed, life>>
            BY <3>1 DEF DispatchBatch, envVars
        <3>3. idle' \subseteq idle
            BY <3>1 DEF DispatchBatch, StartTurn, PoolExhausted
        <3> QED
            BY <3>2, <3>3, SessionsShrink
    <2>4. ASSUME NEW a \in Agents, HandlePromptResult(a) PROVE SessionInv'
        <3>1. UNCHANGED <<removed, life>> /\ life = "ready"
            BY <2>4 DEF HandlePromptResult
        <3>2. CASE task[a].out \in Healthy
            <4>1. idle' = idle \cup {a} /\ sessions' = [sessions EXCEPT ![a] = StripRemoved(@)]
                BY <2>4, <3>2 DEF HandlePromptResult
            <4> QED
                BY <1>1, <3>1, <4>1 DEF SessionInv, NoStaleSessions, StripRemoved
        <3>3. CASE task[a].out \notin Healthy
            <4>1. idle' = idle /\ sessions' = [sessions EXCEPT ![a] = {}]
                BY <2>4, <3>3 DEF HandlePromptResult
            <4> QED
                BY <1>1, <3>1, <4>1, SessionsShrink
        <3> QED
            BY <3>2, <3>3
    <2>5. ASSUME NEW a \in Agents, RecoverPanickedAgent(a) PROVE SessionInv'
        <3>1. UNCHANGED <<removed, life, idle>> /\ sessions' = [sessions EXCEPT ![a] = {}]
            BY <2>5 DEF RecoverPanickedAgent
        <3> QED
            BY <1>1, <3>1, SessionsShrink
    <2>6. ASSUME NEW m \in acks, HandleSteerAck(m) PROVE SessionInv'
        <3>1. UNCHANGED <<sessions, idle, removed, life>>
            BY <2>6 DEF HandleSteerAck
        <3> QED
            BY <3>1, SessionsShrink
    <2>7. CASE TimerTick \/ HeartbeatTick \/ WakeFailed \/ WakeRetryDue
        <3>1. UNCHANGED <<sessions, removed>> /\ (life' # "ready" => life # "ready")
            BY <2>7 DEF TimerTick, HeartbeatTick, WakeFailed, WakeRetryDue, poolVars, envVars
        <3>2. idle' \subseteq idle
            BY <2>7 DEF TimerTick, HeartbeatTick, WakeFailed, WakeRetryDue, poolVars
        <3> QED
            BY <3>1, <3>2, SessionsShrink
    <2>8. CASE IdlePoolSleep
        BY <2>8 DEF IdlePoolSleep, SessionInv, NoStaleSessions
    <2>9. CASE WakeSucceeded
        <3>1. life # "ready" /\ life' = "ready" /\ UNCHANGED <<sessions, removed>>
            BY <2>9 DEF WakeSucceeded
        <3>2. idle' \subseteq Agents
            BY <2>9 DEF WakeSucceeded
        <3> QED
            BY <3>1, <3>2 DEF SessionInv, NoStaleSessions
    <2> QED
        BY <1>3, <2>1, <2>2, <2>3, <2>4, <2>5, <2>6, <2>7, <2>8, <2>9 DEF LoopStep
<1>4. ASSUME NEW c \in Channels,
             \/ ReceiveEvent(c)
             \/ \E s \in Controls : OwnerControl(c, s)
             \/ MemberRemoved(c) \/ MemberAdded(c)
      PROVE  SessionInv'
    <2>1. CASE ReceiveEvent(c)
        <3>1. UNCHANGED <<sessions, idle, removed, life>>
            BY <2>1 DEF ReceiveEvent
        <3> QED
            BY <3>1, SessionsShrink
    <2>2. ASSUME NEW s \in Controls, OwnerControl(c, s) PROVE SessionInv'
        <3>1. UNCHANGED <<idle, removed, life>>
            BY <2>2 DEF OwnerControl
        <3>2. \A a \in Agents : sessions'[a] \subseteq sessions[a]
            BY <1>1, <2>2 DEF OwnerControl
        <3> QED
            BY <3>1, <3>2, SessionsShrink
    <2>3. CASE MemberRemoved(c)
        <3>1. /\ UNCHANGED <<idle, life>> /\ removed' = removed \cup {c}
              /\ \A a \in Agents : sessions'[a] = IF a \in idle THEN sessions[a] \ {c}
                                                  ELSE sessions[a]
            BY <2>3 DEF MemberRemoved
        <3> QED
            BY <1>1, <3>1 DEF SessionInv, NoStaleSessions
    <2>4. CASE MemberAdded(c)
        <3>1. UNCHANGED <<sessions, idle, life>> /\ removed' = removed \ {c}
            BY <2>4 DEF MemberAdded, poolVars
        <3> QED
            BY <3>1, SessionsShrink
    <2> QED
        BY <1>4, <2>1, <2>2, <2>3, <2>4
<1>5. ASSUME NEW a \in Agents,
             \/ FinishTurn(a) \/ FinishCancelled(a)
             \/ \E o \in Failures : FailTurn(a, o)
             \/ \E o \in {"drainTimeout", "exited", "appError", "authError"} : FailCancelled(a, o)
      PROVE  SessionInv'
    <2>1. PICK o, kept, reason : SendPromptResult(a, o, kept, reason)
        BY <1>5 DEF FinishTurn, FinishCancelled, FailTurn, FailCancelled
    <2>2. PICK s : sessions' = [sessions EXCEPT ![a] = s]
        BY <2>1 DEF SendPromptResult
    <2>3. UNCHANGED <<idle, removed, life>>
        BY <2>1 DEF SendPromptResult, loopVars
    <2>4. task[a].phase # "none"
        BY <1>5 DEF FinishTurn, FinishCancelled, FailTurn, FailCancelled
    <2>5. a \notin idle /\ life = "ready"
        BY <2>4 DEF SlotInv, SlotExclusive, Asleep, Busy
    <2> QED
        BY <1>1, <2>2, <2>3, <2>5 DEF SessionInv, NoStaleSessions
<1>6. ASSUME NEW a \in Agents,
             \/ TakeControl(a) \/ PanicTask(a) \/ WriteSteer(a)
             \/ \E kind \in {"success", "fallback", "reject"} : AnswerSteer(a, kind)
             \/ RespawnOk(a) \/ RespawnFailed(a) \/ CircuitCools(a)
      PROVE  SessionInv'
    <2>1. UNCHANGED <<sessions, idle, removed, life>>
        BY <1>6 DEF TakeControl, PanicTask, WriteSteer, AnswerSteer, RespawnOk,
                    RespawnFailed, CircuitCools, loopVars
    <2> QED
        BY <2>1, SessionsShrink
<1>7. CASE ClockStep
    <2>1. UNCHANGED <<sessions, idle, removed, life>>
        BY <1>7 DEF ClockStep, ThrottleElapses, DeadlinePasses, poolVars, envVars
    <2> QED
        BY <2>1, SessionsShrink
<1> QED
    BY <1>2, <1>3, <1>4, <1>5, <1>6, <1>7 DEF Next, RelayStep, TaskStep

\* An agent in its slot never has a session for a channel the harness was
\* removed from, whether it was idle, checked out, respawning or asleep when the
\* removal arrived.
THEOREM SessionsFresh == Spec => []NoStaleSessions
<1>1. Init => SessionInv
    <2> SUFFICES ASSUME Init PROVE SessionInv
        OBVIOUS
    <2>1. removed = {} /\ sessions = [a \in Agents |-> {}]
        BY DEF Init
    <2> QED
        BY <2>1 DEF SessionInv, NoStaleSessions
<1>2. SlotInv /\ SessionInv /\ [Next \/ Exited]_vars => SlotInv' /\ SessionInv'
    BY SafeNext, SessionNext
<1>3. SessionInv => NoStaleSessions
    BY DEF SessionInv
<1> QED
    BY <1>1, <1>2, <1>3, SafeInit, PTL DEF Spec
=============================================================================
