----------------------------- MODULE AcpHarness -----------------------------
(***************************************************************************)
(* The agent harness: the main loop of crates/buzz-acp/src/lib.rs, the     *)
(* agent pool and the prompt tasks of pool.rs, and the event queue of      *)
(* EventQueue.tla.                                                         *)
(*                                                                         *)
(* One thread runs the loop.  Each arm of its `select!` is one action, and *)
(* the arm's tail (reap panicked tasks, dispatch_pending) is unrolled with *)
(* the control variable pc, so that prompt tasks, respawn tasks, steer     *)
(* acks and clocks, which run beside the loop, interleave with it:         *)
(*                                                                         *)
(*   top -> collect -> select -> [reap ->] dispatch ... dispatch -> top    *)
(*                                                                         *)
(* A prompt task is a record in task[a], where a is the agent slot it      *)
(* took; TaskMeta (task_map) and the result in the result channel are the  *)
(* same record, because both live until the loop handles the result.       *)
(***************************************************************************)
EXTENDS EventQueue

CONSTANTS
    Agents,         \* agent slots of the pool
    NoChannel,      \* "no channel": a heartbeat's source, an empty slot
    Handling,       \* config.multiple_event_handling
    Lazy,           \* config.lazy_pool with idle_pool_sleep_secs > 0
    Heartbeats,     \* config.heartbeat_interval_secs > 0
    Timers,         \* some periodic select arm (presence, typing) is enabled
    Controls,       \* owner controls that may arrive
    CrashThreshold, \* CIRCUIT_BREAKER_THRESHOLD
    MaxFaults,      \* bound: failed turns, panics, failed respawns and wakes
    MaxControls,    \* bound: owner controls
    MaxChanges,     \* bound: membership changes
    MaxHangs,       \* bound: turns that outlive their in-flight deadline
    MaxTroubles     \* bound: faults, controls and hangs together

ASSUME HarnessAssumption ==
    /\ 0 \notin Events
    /\ NoChannel \notin Channels
    /\ Handling \in {"Queue", "Steer", "Interrupt", "OwnerInterrupt"}
    /\ {Lazy, Heartbeats, Timers} \subseteq BOOLEAN
    /\ Controls \subseteq {"Cancel", "Rotate", "SwitchModel"}
    /\ CrashThreshold \in Nat \ {0}
    /\ {MaxFaults, MaxControls, MaxChanges, MaxHangs, MaxTroubles} \subseteq Nat

VARIABLES
    q,          \* the EventQueue
    task,       \* prompt tasks, by the agent slot they took
    idle,       \* slots of AgentPool::agents that hold an agent
    sessions,   \* channels an agent has a live session for
    respawn,    \* respawn task of a slot: "no", "running", "ok", "failed"
    circuit,    \* SlotCircuit::open_until: "closed", "open", "cooled"
    crashes,    \* SlotCircuit::crash_times.len()
    life,       \* PoolLifecycle
    heartbeat,  \* heartbeat_in_flight
    acks,       \* steer outcomes on their way to the loop
    removed,    \* removed_channels
    pc, ret,    \* where the loop is, and where dispatch_pending returns to
    arrived,    \* events received so far
    spent,      \* how much of each bound is used
    settled,    \* history: events the harness knowingly finished or gave up
    merged,     \* history: events flushed as the cancelled_events of a batch
    fails       \* history: how often an event's batch went through requeue

poolVars == <<task, idle, sessions, respawn, circuit, crashes>>
envVars == <<life, heartbeat, acks, removed, arrived, spent>>
history == <<settled, merged, fails>>
vars == <<q, poolVars, envVars, pc, ret, history>>

-----------------------------------------------------------------------------
NoEvent == 0

Outcomes == {"none", "ok", "cancelled", "drainTimeout", "exited", "hardTimeout",
             "authError", "appError"}

\* "exited" stands for every outcome handled as AgentExited is: an idle
\* timeout, a hard timeout with recent activity and a transport error too.
\* "hardTimeout" is the hard timeout without recent activity.
Failures == {"exited", "hardTimeout", "authError", "appError"}

\* The agent goes back to its slot; otherwise the process is replaced.
Healthy == {"ok", "cancelled", "appError", "authError"}

Signals == {"Cancel", "Interrupt", "Steer", "Rotate", "SwitchModel"}

Task == [phase: {"none", "run", "cancelling", "done", "panicked"},
         ch: Channels \cup {NoChannel},
         batch: FlushBatch,
         ctl: {"open"} \cup Signals,
         out: Outcomes,
         kept: BOOLEAN,
         wire: Events \cup {NoEvent},
         buf: Events \cup {NoEvent}]

NoTask == [phase |-> "none", ch |-> NoChannel, batch |-> EmptyBatch, ctl |-> "open",
           out |-> "none", kept |-> FALSE, wire |-> NoEvent, buf |-> NoEvent]

Ack == [ch: Channels, ev: Events, kind: {"success", "fallback", "reject", "neutral"}]

Busy == {a \in Agents : task[a].phase # "none"}

\* The tasks signal_in_flight_task and send_steer may find for a channel.
TasksOf(c) == {a \in Busy : task[a].ch = c}

Troubled == spent.faults + spent.controls + spent.hangs

Init ==
    /\ q = NewQueue
    /\ task = [a \in Agents |-> NoTask]
    /\ idle = IF Lazy THEN {} ELSE Agents
    /\ sessions = [a \in Agents |-> {}]
    /\ respawn = [a \in Agents |-> "no"]
    /\ circuit = [a \in Agents |-> "closed"]
    /\ crashes = [a \in Agents |-> 0]
    /\ life = IF Lazy THEN "listening" ELSE "ready"
    /\ heartbeat = FALSE
    /\ acks = {}
    /\ removed = {}
    /\ pc = "top"
    /\ ret = "top"
    /\ arrived = 0
    /\ spent = [faults |-> 0, controls |-> 0, changes |-> 0, hangs |-> 0]
    /\ settled = {}
    /\ merged = {}
    /\ fails = [e \in Events |-> 0]

-----------------------------------------------------------------------------
(***************************************************************************)
(* The top of the loop.                                                    *)
(***************************************************************************)
\* A lazy pool that is not ready: start a wake when work is flushable.
TopLazy ==
    /\ pc = "top" /\ life # "ready"
    /\ q' = ExpireInFlight(q)
    /\ settled' = settled \cup ExpireDrops(q)
    /\ life' = IF HasFlushableWork(q') /\ life \in {"listening", "due"}
               THEN "waking" ELSE life
    /\ pc' = "collect"
    /\ UNCHANGED <<poolVars, heartbeat, acks, removed, arrived, spent, ret, merged, fails>>

\* The maintenance interval has not elapsed.
TopSkip ==
    /\ pc = "top" /\ life = "ready"
    /\ pc' = "collect"
    /\ UNCHANGED <<q, poolVars, envVars, ret, history>>

\* Mutant: an agent that is checked out does not count as alive.
RefillableIgnoresTasks == {a \in Agents \ idle : respawn[a] = "no" /\ circuit[a] # "open"}

\* Slots with no agent, no task and no respawn under way whose circuit
\* allows a refill.
Refillable == {a \in Agents \ (idle \cup Busy) : respawn[a] = "no" /\ circuit[a] # "open"}

\* Maintenance: compact the queue, refill slots, dispatch what became due.
Maintenance ==
    LET compacted == CompactExpiredState(q) IN
    /\ pc = "top" /\ life = "ready"
    /\ q' = ExpireInFlight(compacted)
    /\ settled' = settled \cup ExpireDrops(compacted)
    /\ respawn' = [a \in Agents |-> IF a \in Refillable THEN "running" ELSE respawn[a]]
    /\ crashes' = [a \in Agents |-> IF a \in Refillable /\ circuit[a] = "cooled"
                                    THEN CrashThreshold - 1 ELSE crashes[a]]
    /\ circuit' = [a \in Agents |-> IF a \in Refillable THEN "closed" ELSE circuit[a]]
    /\ IF HasFlushableWork(q')
       THEN pc' = "dispatch" /\ ret' = "collect"
       ELSE pc' = "collect" /\ ret' = ret
    /\ UNCHANGED <<task, idle, sessions, envVars, merged, fails>>

\* Collect the respawn results; a failure opens the slot's circuit.
CollectRespawns ==
    LET back == {a \in Agents : respawn[a] = "ok"} IN
    /\ pc = "collect"
    /\ idle' = idle \cup back
    /\ sessions' = [a \in Agents |-> IF a \in back THEN {} ELSE sessions[a]]
    /\ circuit' = [a \in Agents |-> IF respawn[a] = "failed" THEN "open" ELSE circuit[a]]
    /\ respawn' = [a \in Agents |-> IF respawn[a] \in {"ok", "failed"} THEN "no" ELSE respawn[a]]
    /\ IF back # {} THEN pc' = "dispatch" /\ ret' = "select"
                    ELSE pc' = "select" /\ ret' = ret
    /\ UNCHANGED <<q, task, crashes, envVars, history>>

-----------------------------------------------------------------------------
(***************************************************************************)
(* dispatch_pending, one flush_next at a time.                             *)
(***************************************************************************)
\* AgentPool::try_claim: an agent with a session for the channel, if any.
Claimable(c) ==
    LET warm == {a \in idle : c \in sessions[a]} IN IF warm # {} THEN warm ELSE idle

\* Mutant: the exhausted pool's batch is requeued but never marked complete.
PoolExhaustedUnmarked(c, b, flushed) ==
    /\ q' = RequeuePreserveTimestamps(flushed, c, b)
    /\ settled' = settled \cup ExpireDrops(q) \cup Trimmed(b.events \o flushed.queues[c])
    /\ pc' = ret
    /\ UNCHANGED <<task, idle, ret>>

\* The batch goes to an agent, or back to the queue when none is idle.
StartTurn(c, b, flushed, a) ==
    /\ task' = [task EXCEPT ![a] = [NoTask EXCEPT !.phase = "run", !.ch = c, !.batch = b]]
    /\ idle' = idle \ {a}
    /\ q' = flushed
    /\ settled' = settled \cup ExpireDrops(q)
    /\ UNCHANGED <<pc, ret>>

PoolExhausted(c, b, flushed) ==
    /\ q' = MarkComplete(RequeuePreserveTimestamps(flushed, c, b), c)
    /\ settled' = settled \cup ExpireDrops(q) \cup Trimmed(b.events \o flushed.queues[c])
    /\ pc' = ret
    /\ UNCHANGED <<task, idle, ret>>

DispatchBatch(c, b, flushed) ==
    /\ \/ \E a \in Claimable(c) : StartTurn(c, b, flushed, a)
       \/ idle = {} /\ PoolExhausted(c, b, flushed)
    /\ merged' = merged \cup Range(b.cancelled)
    /\ UNCHANGED <<sessions, respawn, circuit, crashes, envVars, fails>>

\* flush_next found a queued channel.
DispatchQueued ==
    LET live == ExpireInFlight(q) IN
    /\ pc = "dispatch"
    /\ \E c \in OldestFlushable(live) : \E sorted \in StableSorts(Drained(live, c)) :
           DispatchBatch(c, FlushedBatch(live, c, sorted), AfterFlush(live, c))

\* flush_next fell back on a cancelled batch.
DispatchCancelled ==
    LET live == ExpireInFlight(q) IN
    /\ pc = "dispatch"
    /\ Flushable(live) = {}
    /\ \E c \in CancelledReady(live) :
           DispatchBatch(c, CancelledBatch(live, c), AfterCancelledFlush(live, c))

\* flush_next returned None.
DispatchDone ==
    /\ pc = "dispatch"
    /\ ~HasFlushableWork(ExpireInFlight(q))
    /\ q' = ExpireInFlight(q)
    /\ settled' = settled \cup ExpireDrops(q)
    /\ pc' = ret
    /\ UNCHANGED <<poolVars, envVars, ret, merged, fails>>

\* The tail of an arm.
ThenDispatch == pc' = "dispatch" /\ ret' = "top"
ThenTop == pc' = "top" /\ ret' = ret

-----------------------------------------------------------------------------
(***************************************************************************)
(* Results, panics and the slot circuit breaker.                           *)
(***************************************************************************)
\* SlotCircuit::record_crash for slot a, and the respawn task it allows.
\* Crashes older than the window are forgotten: any number of them may be.
RecordCrash(a) ==
    \/ /\ circuit[a] = "closed"
       /\ \E recent \in 1..(crashes[a] + 1) :
             /\ crashes' = [crashes EXCEPT ![a] = recent]
             /\ IF recent >= CrashThreshold
                THEN /\ circuit' = [circuit EXCEPT ![a] = "open"]
                     /\ UNCHANGED respawn
                ELSE /\ respawn' = [respawn EXCEPT ![a] = "running"]
                     /\ UNCHANGED circuit
    \/ /\ circuit[a] = "cooled"
       /\ circuit' = [circuit EXCEPT ![a] = "closed"]
       /\ crashes' = [crashes EXCEPT ![a] = CrashThreshold - 1]
       /\ respawn' = [respawn EXCEPT ![a] = "running"]
    \/ /\ circuit[a] = "open"
       /\ UNCHANGED <<circuit, crashes, respawn>>

\* live_count() == 0 && !any_respawn_in_flight()
AllDead == idle' = {} /\ (\A a \in Agents : task'[a].phase = "none" /\ respawn'[a] = "no")

\* The batch's fate in handle_prompt_result, before mark_complete.
ResultQueue(t) ==
    IF ~t.kept \/ t.ch \in removed THEN q
    ELSE IF t.out \in {"cancelled", "drainTimeout"} THEN RequeueAsCancelled(q, t.ch, t.batch)
    ELSE IF t.out \in {"hardTimeout", "authError"} THEN q
    ELSE Requeue(q, t.ch, t.batch)

ResultDrops(t) ==
    IF ~t.kept \/ t.ch \in removed THEN BatchEvents(t.batch)
    ELSE IF t.out \in {"cancelled", "drainTimeout"} THEN {}
    ELSE IF t.out \in {"hardTimeout", "authError"} THEN BatchEvents(t.batch)
    ELSE RequeueDrops(q, t.ch, t.batch)

CountFailure(b) ==
    fails' = [e \in Events |-> IF e \in Range(b.events) THEN fails[e] + 1 ELSE fails[e]]

\* Mutant: the flag survives the end of the heartbeat task.
HeartbeatNeverCleared(t) == heartbeat

\* The heartbeat flag once the loop has handled the end of task t.
HeartbeatAfter(t) == heartbeat /\ t.ch # NoChannel

\* Mutant: sessions are not stripped when an agent comes back.
KeepAllSessions(s) == s

\* `for ch in removed_channels { invalidate_channel(ch) }`
StripRemoved(s) == s \ removed

\* handle_prompt_result: requeue before mark_complete, strip the sessions of
\* removed channels, return or replace the agent.
HandlePromptResult(a) ==
    LET t == task[a] IN
    /\ pc = "select" /\ life = "ready" /\ t.phase = "done"
    /\ task' = [task EXCEPT ![a] = NoTask]
    /\ IF t.ch = NoChannel
       THEN UNCHANGED <<q, settled, fails>>
       ELSE /\ q' = MarkComplete(ResultQueue(t), t.ch)
            /\ settled' = settled \cup ResultDrops(t)
            /\ IF t.kept /\ t.ch \notin removed /\ t.out \in {"exited", "appError"}
               THEN CountFailure(t.batch) ELSE UNCHANGED fails
    /\ heartbeat' = HeartbeatAfter(t)
    /\ IF t.out \in Healthy
       THEN /\ idle' = idle \cup {a}
            /\ sessions' = [sessions EXCEPT ![a] = StripRemoved(@)]
            /\ UNCHANGED <<respawn, circuit, crashes>>
            /\ pc' = "reap"
       ELSE /\ RecordCrash(a)
            /\ sessions' = [sessions EXCEPT ![a] = {}]
            /\ UNCHANGED idle
            /\ pc' = IF AllDead THEN "exit" ELSE "reap"
    /\ UNCHANGED <<life, acks, removed, arrived, spent, ret, merged>>

\* recover_panicked_agent, from the loop's own arm or from the reaping that
\* follows every result (drain_ready_join_results).
RecoverPanickedAgent(a) ==
    LET t == task[a]
        requeued == t.ch # NoChannel /\ DedupMode = "Queue" /\ t.ch \notin removed
    IN
    /\ pc \in {"select", "reap"} /\ t.phase = "panicked"
    /\ task' = [task EXCEPT ![a] = NoTask]
    /\ q' = IF t.ch = NoChannel THEN q
            ELSE MarkComplete(IF requeued THEN Requeue(q, t.ch, t.batch) ELSE q, t.ch)
    /\ heartbeat' = HeartbeatAfter(t)
    /\ settled' = settled \cup (IF requeued THEN RequeueDrops(q, t.ch, t.batch)
                                            ELSE BatchEvents(t.batch))
    /\ IF requeued THEN CountFailure(t.batch) ELSE UNCHANGED fails
    /\ RecordCrash(a)
    /\ sessions' = [sessions EXCEPT ![a] = {}]
    /\ UNCHANGED idle
    /\ IF AllDead THEN pc' = "exit" /\ ret' = ret
       ELSE IF pc = "reap" THEN pc' = "reap" /\ ret' = ret
       ELSE ThenDispatch
    /\ UNCHANGED <<life, acks, removed, arrived, spent, merged>>

ReapDone ==
    /\ pc = "reap"
    /\ \A a \in Agents : task[a].phase # "panicked"
    /\ ThenDispatch
    /\ UNCHANGED <<q, poolVars, envVars, history>>

-----------------------------------------------------------------------------
(***************************************************************************)
(* Relay events and steering.                                              *)
(***************************************************************************)
\* signal_in_flight_task on the task of slot a: the oneshot works once.
Signalled(t, s) == IF t.ctl = "open" THEN [t EXCEPT !.ctl = s] ELSE t

\* mode_gate_signal: what a new event does to the turn in flight.  Whether an
\* author is the owner is not modelled: both answers are possible.
ModeGateSignals ==
    CASE Handling = "Queue" -> {"none"}
      [] Handling = "Steer" -> {"Steer"}
      [] Handling = "Interrupt" -> {"Interrupt"}
      [] OTHER -> {"none", "Interrupt"}

\* try_native_steer: accepted when the read loop still listens and its
\* one-place channel is free.  It may have stopped listening: an initial
\* message consumes the receiver.
NativeSteerAccepted(a, s) == s = "Steer" /\ task[a].phase = "run" /\ task[a].buf = NoEvent

ReceiveEvent(c) ==
    LET e == arrived + 1
        pushed == Push(q, c, e)
    IN
    /\ pc = "select" /\ e \in Events
    /\ arrived' = e
    /\ settled' = settled \cup PushDrops(q, c, e)
    /\ IF Accepts(q, c) /\ c \in q.inFlight /\ TasksOf(c) # {}
       THEN \E s \in ModeGateSignals : \E a \in TasksOf(c) :
              \/ /\ NativeSteerAccepted(a, s)
                 /\ task' = [task EXCEPT ![a].buf = e]
                 /\ q' = MarkNativeSteerPending(pushed, c, e)
              \/ /\ task' = [task EXCEPT ![a] = IF s = "none" THEN @ ELSE Signalled(@, s)]
                 /\ q' = pushed
       ELSE q' = pushed /\ UNCHANGED task
    /\ IF life = "ready" THEN ThenDispatch ELSE ThenTop
    /\ UNCHANGED <<idle, sessions, respawn, circuit, crashes, life, heartbeat, acks,
                   removed, spent, merged, fails>>

\* The SteerAck arm: drop, release, and maybe fall back on cancel+merge.
HandleSteerAck(m) ==
    /\ pc = "select" /\ m \in acks
    /\ acks' = acks \ {m}
    /\ IF m.kind = "success"
       THEN /\ q' = RemoveEvent(ExtendInFlightDeadline(q, m.ch), m.ch, m.ev)
            /\ settled' = settled \cup {m.ev}
       ELSE /\ q' = ReleaseNativeSteer(q, m.ch, m.ev)
            /\ settled' = settled \cup ReleaseDrops(q, m.ch, m.ev)
    /\ IF m.kind = "fallback" /\ TasksOf(m.ch) # {}
       THEN \E a \in TasksOf(m.ch) : task' = [task EXCEPT ![a] = Signalled(@, "Steer")]
       ELSE UNCHANGED task
    /\ ThenDispatch
    /\ UNCHANGED <<idle, sessions, respawn, circuit, crashes, life, heartbeat, removed,
                   arrived, spent, merged, fails>>

\* !cancel, !rotate and the observer's cancel_turn and switch_model controls.
OwnerControl(c, s) ==
    /\ pc = "select" /\ spent.controls < MaxControls /\ Troubled < MaxTroubles
    /\ spent' = [spent EXCEPT !.controls = @ + 1]
    /\ IF TasksOf(c) # {}
       THEN \E a \in TasksOf(c) :
              /\ task' = [task EXCEPT ![a] = Signalled(@, s)]
              /\ sessions' = [b \in Agents |->
                    IF s = "Rotate" /\ task[a].ctl # "open" /\ b \in idle
                    THEN sessions[b] \ {c} ELSE sessions[b]]
       ELSE /\ UNCHANGED task
            /\ \/ s = "Cancel" /\ UNCHANGED sessions
               \/ /\ s = "Rotate"
                  /\ sessions' = [b \in Agents |->
                        IF b \in idle THEN sessions[b] \ {c} ELSE sessions[b]]
               \/ /\ s = "SwitchModel"
                  /\ \/ \E b \in idle : /\ c \in sessions[b]
                                         /\ sessions' = [sessions EXCEPT ![b] = @ \ {c}]
                     \/ UNCHANGED sessions   \* no session, or model not in the catalog
    /\ ThenTop
    /\ UNCHANGED <<q, idle, respawn, circuit, crashes, life, heartbeat, acks, removed,
                   arrived, history>>

\* KIND_MEMBER_REMOVED_NOTIFICATION
MemberRemoved(c) ==
    /\ pc = "select" /\ spent.changes < MaxChanges /\ c \notin removed
    /\ spent' = [spent EXCEPT !.changes = @ + 1]
    /\ q' = DrainChannel(q, c)
    /\ settled' = settled \cup DrainDrops(q, c)
    /\ sessions' = [a \in Agents |-> IF a \in idle THEN sessions[a] \ {c} ELSE sessions[a]]
    /\ removed' = removed \cup {c}
    /\ ThenTop
    /\ UNCHANGED <<task, idle, respawn, circuit, crashes, life, heartbeat, acks, arrived,
                   merged, fails>>

\* KIND_MEMBER_ADDED_NOTIFICATION
MemberAdded(c) ==
    /\ pc = "select" /\ spent.changes < MaxChanges /\ c \in removed
    /\ spent' = [spent EXCEPT !.changes = @ + 1]
    /\ removed' = removed \ {c}
    /\ ThenTop
    /\ UNCHANGED <<q, poolVars, life, heartbeat, acks, arrived, history>>

-----------------------------------------------------------------------------
(***************************************************************************)
(* Timers, heartbeats, and the lazy pool's sleep and wake.                 *)
(***************************************************************************)
\* A presence or typing tick: the arm changes nothing here, but the loop goes
\* round once more.
TimerTick ==
    /\ pc = "select" /\ Timers
    /\ ThenTop
    /\ UNCHANGED <<q, poolVars, envVars, history>>

\* The heartbeat tick dispatches queued work first; dispatch_heartbeat takes
\* any idle agent, and at most one heartbeat is in flight.
HeartbeatTick ==
    /\ pc = "select" /\ Heartbeats /\ life = "ready"
    /\ q' = ExpireInFlight(q)
    /\ settled' = settled \cup ExpireDrops(q)
    /\ IF HasFlushableWork(q')
       THEN ThenDispatch /\ UNCHANGED <<task, idle, heartbeat>>
       ELSE /\ ThenTop
            /\ IF ~heartbeat /\ idle # {}
               THEN \E a \in idle :
                       /\ task' = [task EXCEPT ![a] = [NoTask EXCEPT !.phase = "run"]]
                       /\ idle' = idle \ {a}
                       /\ heartbeat' = TRUE
               ELSE UNCHANGED <<task, idle, heartbeat>>
    /\ UNCHANGED <<sessions, respawn, circuit, crashes, life, acks, removed, arrived,
                   spent, merged, fails>>

\* idle_pool_sleep_due: the work gate of the sleep decision.
SleepDue ==
    /\ q.inFlight = {} /\ ~heartbeat
    /\ Busy = {}
    /\ ~HasUndispatchedWork(q)
    /\ \A a \in Agents : respawn[a] = "no"

IdlePoolSleep ==
    /\ pc = "select" /\ Lazy /\ life = "ready" /\ SleepDue
    /\ idle' = {}
    /\ sessions' = [a \in Agents |-> {}]
    /\ life' = "listening"
    /\ ThenTop
    /\ UNCHANGED <<q, task, respawn, circuit, crashes, heartbeat, acks, removed, arrived,
                   spent, history>>

\* The wake task's result.  A partial pool is valid.
WakeSucceeded ==
    /\ pc = "select" /\ life = "waking"
    /\ life' = "ready"
    /\ \E up \in SUBSET Agents : up # {} /\ idle' = up
    /\ ThenDispatch
    /\ UNCHANGED <<q, task, sessions, respawn, circuit, crashes, heartbeat, acks, removed,
                   arrived, spent, history>>

WakeFailed ==
    /\ pc = "select" /\ life = "waking" /\ spent.faults < MaxFaults /\ Troubled < MaxTroubles
    /\ spent' = [spent EXCEPT !.faults = @ + 1]
    /\ life' = "failed"
    /\ ThenTop
    /\ UNCHANGED <<q, poolVars, heartbeat, acks, removed, arrived, history>>

\* The retry-deadline arm, which is armed only while work is waiting.
WakeRetryDue ==
    /\ pc = "select" /\ life = "failed" /\ HasFlushableWork(q)
    /\ life' = "due"
    /\ ThenTop
    /\ UNCHANGED <<q, poolVars, heartbeat, acks, removed, arrived, spent, history>>

-----------------------------------------------------------------------------
(***************************************************************************)
(* Prompt tasks (run_prompt_task and the read loop of acp.rs).  They run   *)
(* beside the main loop.                                                   *)
(***************************************************************************)
loopVars == <<q, idle, life, heartbeat, removed, pc, ret, arrived, history>>

\* Mutant: only the steer on the wire is answered, a dropped oneshot is not.
NeutralAcksWireOnly(t) ==
    {[ch |-> t.ch, ev |-> e, kind |-> "neutral"] : e \in {t.wire} \ {NoEvent}}

\* Steers the read loop never answers: the pending one gets
\* PromptCompletedNeutral, a buffered one a dropped oneshot.
NeutralAcks(t) ==
    {[ch |-> t.ch, ev |-> e, kind |-> "neutral"] : e \in {t.wire, t.buf} \ {NoEvent}}

\* requeue_batch_if_queue
KeepBatch(t) == DedupMode = "Queue" /\ t.ch # NoChannel

\* The session of the turn's channel afterwards: kept, rotated away or
\* invalidated; a replaced process has none.
SessionsAfter(a, o) ==
    IF o \notin Healthy THEN {{}}
    ELSE IF task[a].ch = NoChannel THEN {sessions[a]}
    ELSE IF o = "cancelled" THEN {sessions[a] \ {task[a].ch}}
    ELSE {sessions[a] \ {task[a].ch}, sessions[a] \cup {task[a].ch}}

\* send_prompt_result, which also closes the steer channel.
SendPromptResult(a, o, kept, reason) ==
    /\ task' = [task EXCEPT ![a].phase = "done", ![a].out = o, ![a].kept = kept,
                            ![a].batch.reason = reason,
                            ![a].wire = NoEvent, ![a].buf = NoEvent]
    /\ acks' = acks \cup NeutralAcks(task[a])
    /\ \E s \in SessionsAfter(a, o) : sessions' = [sessions EXCEPT ![a] = s]
    /\ UNCHANGED <<respawn, circuit, crashes, loopVars>>

\* The turn ends by itself; `ok` also covers a control that came too late.
FinishTurn(a) ==
    /\ task[a].phase = "run"
    /\ SendPromptResult(a, "ok", FALSE, task[a].batch.reason)
    /\ UNCHANGED spent

FailTurn(a, o) ==
    /\ task[a].phase = "run" /\ spent.faults < MaxFaults /\ Troubled < MaxTroubles
    /\ spent' = [spent EXCEPT !.faults = @ + 1]
    /\ SendPromptResult(a, o, KeepBatch(task[a]), task[a].batch.reason)

\* The control arm wins the select: the prompt future and its steer receiver
\* are dropped, then the agent is asked to stop.
TakeControl(a) ==
    /\ task[a].phase = "run" /\ task[a].ctl # "open"
    /\ task' = [task EXCEPT ![a].phase = "cancelling", ![a].wire = NoEvent, ![a].buf = NoEvent]
    /\ acks' = acks \cup NeutralAcks(task[a])
    /\ UNCHANGED <<sessions, respawn, circuit, crashes, spent, loopVars>>

\* requeue_cancelled_batch: Cancel and Rotate discard the batch.
CancelKeeps(t) == KeepBatch(t) /\ t.ctl \notin {"Cancel", "Rotate"}
CancelReasonOf(t) == IF t.ctl = "Steer" THEN "Steer" ELSE "Interrupt"

FinishCancelled(a) ==
    /\ task[a].phase = "cancelling"
    /\ SendPromptResult(a, "cancelled", CancelKeeps(task[a]), CancelReasonOf(task[a]))
    /\ UNCHANGED spent

\* classify_control_cancel_failure
FailCancelled(a, o) ==
    /\ task[a].phase = "cancelling" /\ spent.faults < MaxFaults /\ Troubled < MaxTroubles
    /\ spent' = [spent EXCEPT !.faults = @ + 1]
    /\ SendPromptResult(a, o, CancelKeeps(task[a]), CancelReasonOf(task[a]))

PanicTask(a) ==
    /\ task[a].phase \in {"run", "cancelling"} /\ spent.faults < MaxFaults /\ Troubled < MaxTroubles
    /\ spent' = [spent EXCEPT !.faults = @ + 1]
    /\ task' = [task EXCEPT ![a].phase = "panicked", ![a].wire = NoEvent, ![a].buf = NoEvent]
    /\ acks' = acks \cup NeutralAcks(task[a])
    /\ UNCHANGED <<sessions, respawn, circuit, crashes, loopVars>>

\* The read loop writes a buffered steer, or cannot (no transport, write error).
WriteSteer(a) ==
    /\ task[a].phase = "run" /\ task[a].buf # NoEvent /\ task[a].wire = NoEvent
    /\ \/ /\ task' = [task EXCEPT ![a].wire = task[a].buf, ![a].buf = NoEvent]
          /\ UNCHANGED acks
       \/ /\ task' = [task EXCEPT ![a].buf = NoEvent]
          /\ acks' = acks \cup {[ch |-> task[a].ch, ev |-> task[a].buf, kind |-> "fallback"]}
    /\ UNCHANGED <<sessions, respawn, circuit, crashes, spent, loopVars>>

\* The agent answers it: delivered, not delivered (method not found, outcome
\* rejected), or rejected by the application.
AnswerSteer(a, kind) ==
    /\ task[a].phase = "run" /\ task[a].wire # NoEvent
    /\ task' = [task EXCEPT ![a].wire = NoEvent]
    /\ acks' = acks \cup {[ch |-> task[a].ch, ev |-> task[a].wire, kind |-> kind]}
    /\ UNCHANGED <<sessions, respawn, circuit, crashes, spent, loopVars>>

-----------------------------------------------------------------------------
(***************************************************************************)
(* Respawn tasks and clocks.                                               *)
(***************************************************************************)
RespawnOk(a) ==
    /\ respawn[a] = "running"
    /\ respawn' = [respawn EXCEPT ![a] = "ok"]
    /\ UNCHANGED <<task, sessions, circuit, crashes, acks, spent, loopVars>>

\* spawn_and_init failed, or the task died and its RespawnGuard reported it.
RespawnFailed(a) ==
    /\ respawn[a] = "running" /\ spent.faults < MaxFaults /\ Troubled < MaxTroubles
    /\ spent' = [spent EXCEPT !.faults = @ + 1]
    /\ respawn' = [respawn EXCEPT ![a] = "failed"]
    /\ UNCHANGED <<task, sessions, circuit, crashes, acks, loopVars>>

CircuitCools(a) ==
    /\ circuit[a] = "open"
    /\ circuit' = [circuit EXCEPT ![a] = "cooled"]
    /\ UNCHANGED <<task, sessions, respawn, crashes, acks, spent, loopVars>>

ThrottleElapses(c) ==
    /\ q.throttle[c] = "active"
    /\ q' = ThrottleElapsed(q, c)
    /\ UNCHANGED <<poolVars, envVars, pc, ret, history>>

\* A turn outlives its in-flight deadline: session setup, the initial message
\* and the prompt each have a budget of their own.
DeadlinePasses(c) ==
    /\ c \in q.inFlight \ q.overdue /\ spent.hangs < MaxHangs /\ Troubled < MaxTroubles
    /\ spent' = [spent EXCEPT !.hangs = @ + 1]
    /\ q' = DeadlinePassed(q, c)
    /\ UNCHANGED <<poolVars, life, heartbeat, acks, removed, arrived, pc, ret, history>>

-----------------------------------------------------------------------------
LoopStep ==
    \/ TopLazy \/ TopSkip \/ Maintenance \/ CollectRespawns
    \/ DispatchQueued \/ DispatchCancelled \/ DispatchDone \/ ReapDone
    \/ \E a \in Agents : HandlePromptResult(a) \/ RecoverPanickedAgent(a)
    \/ \E m \in acks : HandleSteerAck(m)
    \/ TimerTick \/ HeartbeatTick \/ IdlePoolSleep
    \/ WakeSucceeded \/ WakeFailed \/ WakeRetryDue

RelayStep ==
    \E c \in Channels :
        \/ ReceiveEvent(c)
        \/ \E s \in Controls : OwnerControl(c, s)
        \/ MemberRemoved(c) \/ MemberAdded(c)

TaskStep ==
    \E a \in Agents :
        \/ FinishTurn(a) \/ TakeControl(a) \/ FinishCancelled(a) \/ PanicTask(a)
        \/ \E o \in Failures : FailTurn(a, o)
        \/ \E o \in {"drainTimeout", "exited", "appError", "authError"} : FailCancelled(a, o)
        \/ WriteSteer(a)
        \/ \E kind \in {"success", "fallback", "reject"} : AnswerSteer(a, kind)
        \/ RespawnOk(a) \/ RespawnFailed(a) \/ CircuitCools(a)

ClockStep == \E c \in Channels : ThrottleElapses(c) \/ DeadlinePasses(c)

Next == pc # "exit" /\ (LoopStep \/ RelayStep \/ TaskStep \/ ClockStep)

\* The loop has exited: every agent is dead and nothing brings one back.
Exited == pc = "exit" /\ UNCHANGED vars

Spec == Init /\ [][Next \/ Exited]_vars

\* The loop's own steps and its environment's, where the code gives them time:
\* ready arms are polled, tasks and respawns end, deadlines pass.
Fairness ==
    /\ WF_vars(TopLazy \/ TopSkip \/ Maintenance)
    /\ WF_vars(CollectRespawns)
    /\ WF_vars(DispatchQueued \/ DispatchCancelled \/ DispatchDone)
    /\ WF_vars(ReapDone)
    /\ SF_vars(Maintenance)
    /\ \A a \in Agents :
          /\ SF_vars(HandlePromptResult(a))
          /\ SF_vars(RecoverPanickedAgent(a))
          /\ WF_vars(FinishTurn(a)) /\ WF_vars(FinishCancelled(a))
          /\ WF_vars(RespawnOk(a)) /\ WF_vars(CircuitCools(a))
    /\ SF_vars(\E m \in acks : HandleSteerAck(m))
    /\ SF_vars(TimerTick)
    /\ SF_vars(WakeSucceeded) /\ SF_vars(WakeRetryDue)
    /\ \A c \in Channels : WF_vars(ThrottleElapses(c))

FairSpec == Spec /\ Fairness
-----------------------------------------------------------------------------
(***************************************************************************)
(* Properties.                                                             *)
(***************************************************************************)
\* Every variable keeps its type, for every queue, task and circuit operation.
TypeOK ==
    /\ q \in QueueState
    /\ task \in [Agents -> Task]
    /\ idle \subseteq Agents
    /\ sessions \in [Agents -> SUBSET Channels]
    /\ respawn \in [Agents -> {"no", "running", "ok", "failed"}]
    /\ circuit \in [Agents -> {"closed", "open", "cooled"}]
    /\ crashes \in [Agents -> Nat]
    /\ life \in {"listening", "waking", "ready", "failed", "due"}
    /\ heartbeat \in BOOLEAN
    /\ acks \subseteq Ack
    /\ removed \subseteq Channels
    /\ pc \in {"top", "collect", "select", "reap", "dispatch", "exit"}
    /\ ret \in {"top", "collect", "select"}
    /\ arrived \in Nat
    /\ spent \in [faults: Nat, controls: Nat, changes: Nat, hangs: Nat]
    /\ settled \subseteq Events
    /\ merged \subseteq Events
    /\ fails \in [Events -> Nat]

\* An agent is in its slot, checked out by one task, or being respawned, and
\* never two of these: return_agent logs "BUG: return_agent called for slot ...
\* which is already occupied" when a respawn and a returning task collide.
SlotExclusive ==
    /\ idle \cap Busy = {}
    /\ \A a \in Agents : respawn[a] # "no" => a \notin idle \cup Busy

\* A channel has at most one prompt in flight: two agents never work on the
\* same conversation at once (in_flight_channels is what flush_next trusts).
OneTurnPerChannel ==
    \A a, b \in Busy : task[a].ch = task[b].ch /\ task[a].ch # NoChannel => a = b

\* in_flight_channels is exactly the set of channels with a live task, at every
\* step of every handler: a channel left in the set would never be flushed
\* again, one dropped from it would get a second turn.
InFlightExact == q.inFlight = {task[a].ch : a \in Busy} \ {NoChannel}

\* heartbeat_in_flight is set exactly while one heartbeat task lives; a flag
\* left behind by a panic or a timeout would end heartbeats for good.
HeartbeatExact ==
    /\ heartbeat = (\E a \in Busy : task[a].ch = NoChannel)
    /\ \A a, b \in Busy : task[a].ch = NoChannel /\ task[b].ch = NoChannel => a = b

\* The events the harness still has: queued, cancelled, withheld or in a task.
Held == QueueHeld(q) \cup UNION {BatchEvents(task[a].batch) : a \in Busy}

\* The places an event occupies.
Places(e) ==
    LET At(o, list, s) == {<<o, list, i>> : i \in {j \in DOMAIN s : s[j] = e}} IN
    (UNION {At(c, "queued", q.queues[c]) \cup At(c, "cancelled", q.cancelled[c])
              \cup At(c, "withheld", q.withheld[c]) : c \in Channels})
    \cup
    (UNION {At(a, "event", task[a].batch.events) \cup At(a, "merged", task[a].batch.cancelled)
              : a \in Busy})

\* No event is in two places at once, through every requeue, cancel, merge,
\* withhold, release and expiry: the agent would be given it twice.
NoDoubleHold == \A e \in 1..arrived : Cardinality(Places(e)) <= 1

\* Every event received is still held somewhere or was knowingly finished
\* (answered, delivered by a steer, dead-lettered, dropped at a cap, drained).
Conserved == 1..arrived \subseteq Held \cup settled

\* The weaker guarantee when turns can be cancelled and merged: an event is
\* only ever lost after it was flushed as part of a merged (re-prompted) batch.
TriggersConserved == 1..arrived \subseteq Held \cup settled \cup merged

\* While no turn has outlived its in-flight deadline, an event the harness is
\* done with never comes back: a late ack, a requeue or a release cannot have it
\* prompted again.
NoResurrection == spent.hangs = 0 => settled \cap Held = {}

\* A withheld event always has its ack outstanding, in a task that still
\* answers or on its way to the loop: it is never orphaned in the side table.
WithheldHasAck ==
    \A c \in Channels : \A e \in Range(q.withheld[c]) :
        \/ \E a \in TasksOf(c) : e \in {task[a].wire, task[a].buf}
        \/ \E m \in acks : m.ch = c /\ m.ev = e

\* No idle agent keeps a session for a channel it was removed from, whether it
\* was idle, checked out or respawning at the removal.
NoStaleSessions == \A a \in idle : sessions[a] \cap removed = {}

\* format_prompt takes scope and reply anchor from the last event of a batch,
\* so it must be the newest of the batch.
NewestLast ==
    \A a \in Busy :
        LET es == task[a].batch.events IN
        \A i \in DOMAIN es : CreatedAt[es[i]] <= CreatedAt[es[Len(es)]]

\* An event goes through requeue at most MAX_RETRIES + 1 times (the last one
\* dead-letters it).
AttemptsBounded == \A e \in Events : fails[e] <= MaxRetries + 1

\* Every event received is eventually finished, unless the loop exits because
\* all agents are dead: throttles, respawns and sleeps always come to an end.
EventuallySettled == \A e \in Events : arrived >= e ~> (e \in settled \/ pc = "exit")
=============================================================================
