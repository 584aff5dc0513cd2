----------------------------- MODULE EventQueue -----------------------------
(***************************************************************************)
(* The event queue of the agent harness (crates/buzz-acp/src/queue.rs).    *)
(*                                                                         *)
(* The Rust struct is a value owned by one loop, and several of its        *)
(* methods are called in one handler, so it is modelled as a record `q`    *)
(* and every method as an operator from a record to a record.  AcpHarness  *)
(* holds the record in a variable and composes the operators into actions. *)
(*                                                                         *)
(* Clocks are abstracted.  An Instant compared with now() is one of the    *)
(* values a comparison can tell apart: a retry throttle is "none" (no      *)
(* entry), "active" (deadline in the future) or "expired" (entry present,  *)
(* deadline past), and q.overdue is the set of in-flight channels whose    *)
(* in-flight deadline is past.  An event is its arrival number, which is   *)
(* also its received_at; CreatedAt gives the author's created_at, which    *)
(* need not follow arrival order.                                          *)
(***************************************************************************)
EXTENDS Integers, Sequences, FiniteSets, Functions

CONSTANTS
    Channels,       \* channel ids
    Events,         \* event ids: arrival numbers
    CreatedAt,      \* created_at of every event
    MaxPending,     \* MAX_PENDING_PER_CHANNEL
    MaxBatch,       \* MAX_BATCH_EVENTS
    MaxRetries,     \* MAX_RETRIES
    DedupMode       \* config::DedupMode, "Queue" or "Drop"

ASSUME QueueAssumption ==
    /\ Events \subseteq Nat
    /\ CreatedAt \in [Events -> Nat]
    /\ MaxPending \in Nat \ {0}
    /\ MaxBatch \in Nat \ {0}
    /\ MaxRetries \in Nat
    /\ DedupMode \in {"Queue", "Drop"}

-----------------------------------------------------------------------------
(***************************************************************************)
(* Types.                                                                  *)
(***************************************************************************)
\* CancelReason; "none" is Option::None.
CancelReason == {"none", "Steer", "Interrupt"}

\* FlushBatch without its channel: the triggering events, the events of an
\* earlier cancelled turn that are merged in, and why that turn was cancelled.
FlushBatch == [events: Seq(Events), cancelled: Seq(Events), reason: CancelReason]

EmptyBatch == [events |-> << >>, cancelled |-> << >>, reason |-> "none"]

Throttle == {"none", "active", "expired"}

QueueState ==
    [queues: [Channels -> Seq(Events)],
     inFlight: SUBSET Channels,
     overdue: SUBSET Channels,
     throttle: [Channels -> Throttle],
     retries: [Channels -> Nat],
     cancelled: [Channels -> Seq(Events)],
     reason: [Channels -> CancelReason],
     withheld: [Channels -> Seq(Events)]]

\* EventQueue::new
NewQueue ==
    [queues |-> [c \in Channels |-> << >>],
     inFlight |-> {},
     overdue |-> {},
     throttle |-> [c \in Channels |-> "none"],
     retries |-> [c \in Channels |-> 0],
     cancelled |-> [c \in Channels |-> << >>],
     reason |-> [c \in Channels |-> "none"],
     withheld |-> [c \in Channels |-> << >>]]

\* Every event of a batch.
BatchEvents(b) == Range(b.events) \cup Range(b.cancelled)

\* Every event the queue itself holds.
QueueHeld(q) ==
    UNION {Range(q.queues[c]) \cup Range(q.cancelled[c]) \cup Range(q.withheld[c]) :
             c \in Channels}

-----------------------------------------------------------------------------
(***************************************************************************)
(* Helpers on one channel's deque.                                         *)
(***************************************************************************)
SeqMin(m, n) == IF m < n THEN m ELSE n

\* `while queue.len() > MAX_PENDING_PER_CHANNEL { queue.pop_back() }`
TrimBack(s) == SubSeq(s, 1, SeqMin(Len(s), MaxPending))

\* What TrimBack throws away.
Trimmed(s) == Range(SubSeq(s, MaxPending + 1, Len(s)))

\* Remove one event (`position` followed by `remove`; ids are unique).
Without(s, e) ==
    IF e \in Range(s)
    THEN LET i == CHOOSE j \in DOMAIN s : s[j] = e
         IN  SubSeq(s, 1, i - 1) \o SubSeq(s, i + 1, Len(s))
    ELSE s

\* `events.sort_by_key(created_at)` puts the i-th event before the j-th; it is
\* stable, so equal keys keep their delivery order.
SortsBefore(s, i, j) ==
    \/ CreatedAt[s[i]] < CreatedAt[s[j]]
    \/ CreatedAt[s[i]] = CreatedAt[s[j]] /\ i < j

\* The orders it can leave the positions of s in (there is exactly one).
StableOrders(s) ==
    {p \in [1..Len(s) -> 1..Len(s)] :
        \A i \in 1..Len(s) : \A j \in 1..Len(s) : i < j => SortsBefore(s, p[i], p[j])}

StableSorts(s) == {[i \in 1..Len(s) |-> s[p[i]]] : p \in StableOrders(s)}

-----------------------------------------------------------------------------
(***************************************************************************)
(* push                                                                    *)
(***************************************************************************)
\* Drop mode discards events of a channel with a turn in flight.
Accepts(q, c) == ~(DedupMode = "Drop" /\ c \in q.inFlight)

Push(q, c, e) ==
    LET room == IF Len(q.queues[c]) >= MaxPending THEN Tail(q.queues[c]) ELSE q.queues[c]
    IN  IF Accepts(q, c)
        THEN [q EXCEPT !.queues[c] = Append(room, e)]
        ELSE q

\* The events a push discards: the new one (Drop mode) or the oldest (cap).
PushDrops(q, c, e) ==
    IF ~Accepts(q, c) THEN {e}
    ELSE IF Len(q.queues[c]) >= MaxPending THEN {Head(q.queues[c])}
    ELSE {}

-----------------------------------------------------------------------------
(***************************************************************************)
(* flush_next, has_flushable_work, has_undispatched_work                   *)
(***************************************************************************)
\* Mutant: the withheld events are copied back, not moved.
ExpireInFlightCopies(q) ==
    [q EXCEPT !.inFlight = @ \ q.overdue,
              !.overdue = {},
              !.queues = [c \in Channels |->
                  IF c \in q.overdue
                  THEN TrimBack(q.withheld[c] \o q.queues[c])
                  ELSE q.queues[c]]]

\* recover_withheld_for_expired_channel, and the release of the channel: what
\* flush_next and has_flushable_work do first for every overdue channel.
ExpireInFlight(q) ==
    IF q.overdue = {} THEN q
    ELSE [q EXCEPT !.inFlight = @ \ q.overdue,
                   !.overdue = {},
                   !.queues = [c \in Channels |->
                       IF c \in q.overdue
                       THEN TrimBack(q.withheld[c] \o q.queues[c])
                       ELSE q.queues[c]],
                   !.withheld = [c \in Channels |->
                       IF c \in q.overdue THEN << >> ELSE q.withheld[c]]]

ExpireDrops(q) == UNION {Trimmed(q.withheld[c] \o q.queues[c]) : c \in q.overdue}

\* The channels flush_next may pick from `queues`.
Flushable(q) ==
    {c \in Channels : /\ q.queues[c] # << >>
                      /\ c \notin q.inFlight
                      /\ q.throttle[c] # "active"}

\* The one it picks: the oldest head event.
OldestFlushable(q) ==
    {c \in Flushable(q) : \A d \in Flushable(q) : Head(q.queues[c]) <= Head(q.queues[d])}

\* The channels with a cancelled batch and no turn: the fallback, which looks
\* at no throttle.
CancelledReady(q) == {c \in Channels : q.cancelled[c] # << >> /\ c \notin q.inFlight}

HasFlushableWork(q) == Flushable(q) # {} \/ CancelledReady(q) # {}

HasUndispatchedWork(q) ==
    \E c \in Channels \ q.inFlight :
        q.queues[c] # << >> \/ q.cancelled[c] # << >> \/ q.withheld[c] # << >>

Drained(q, c) == SubSeq(q.queues[c], 1, SeqMin(MaxBatch, Len(q.queues[c])))

\* flush_next picks channel c from `queues`: `sorted` is the drained prefix,
\* sorted by created_at; a stored cancelled batch is merged in.
FlushedBatch(q, c, sorted) ==
    [events |-> sorted,
     cancelled |-> q.cancelled[c],
     reason |-> IF q.cancelled[c] = << >> THEN "none" ELSE q.reason[c]]

\* Mutant: the channel is not recorded as in flight.
AfterFlushUnmarked(q, c) ==
    [q EXCEPT !.queues[c] = SubSeq(@, Len(Drained(q, c)) + 1, Len(@)),
              !.cancelled[c] = << >>,
              !.reason[c] = "none"]

AfterFlush(q, c) ==
    [q EXCEPT !.queues[c] = SubSeq(@, Len(Drained(q, c)) + 1, Len(@)),
              !.inFlight = @ \cup {c},
              !.overdue = @ \ {c},
              !.cancelled[c] = << >>,
              !.reason[c] = "none"]

\* flush_next falls back on the cancelled batch of channel c: the cancelled
\* events become the triggering events of an ordinary batch.
CancelledBatch(q, c) ==
    [events |-> q.cancelled[c], cancelled |-> << >>, reason |-> q.reason[c]]

AfterCancelledFlush(q, c) ==
    [q EXCEPT !.inFlight = @ \cup {c},
              !.overdue = @ \ {c},
              !.cancelled[c] = << >>,
              !.reason[c] = "none"]

-----------------------------------------------------------------------------
(***************************************************************************)
(* mark_complete and the requeue family                                    *)
(***************************************************************************)
\* Mutant: the arm for a requeued channel returns before the release.
MarkCompleteEarlyReturn(q, c) ==
    IF q.throttle[c] = "active" THEN q
    ELSE [q EXCEPT !.inFlight = @ \ {c}, !.overdue = @ \ {c},
                   !.throttle[c] = "none", !.retries[c] = 0]

\* An active throttle means "requeued": the retry counter is kept.
MarkComplete(q, c) ==
    LET done == [q EXCEPT !.inFlight = @ \ {c}, !.overdue = @ \ {c}]
    IN  IF q.throttle[c] = "active"
        THEN done
        ELSE [done EXCEPT !.throttle[c] = "none", !.retries[c] = 0]

\* requeue dead-letters once the counter has passed MAX_RETRIES.
DeadLetters(q, c) == q.retries[c] + 1 > MaxRetries

\* Mutant: the dead-letter arm does not return, the batch is queued as well.
RequeueFallsThrough(q, c, b) ==
    [q EXCEPT !.retries[c] = IF DeadLetters(q, c) THEN 0 ELSE @ + 1,
              !.queues[c] = TrimBack(b.events \o @),
              !.throttle[c] = "active"]

\* Only batch.events go back to the queue, at its front.
Requeue(q, c, b) ==
    IF DeadLetters(q, c)
    THEN [q EXCEPT !.retries[c] = 0, !.throttle[c] = "none"]
    ELSE [q EXCEPT !.retries[c] = @ + 1,
                   !.queues[c] = TrimBack(b.events \o @),
                   !.throttle[c] = "active"]

\* The events requeue gives up on: the dead-lettered batch, or the overflow.
RequeueDrops(q, c, b) ==
    IF DeadLetters(q, c) THEN BatchEvents(b) ELSE Trimmed(b.events \o q.queues[c])

\* Mutant: a batch flushed without an agent is not put back.
RequeuePreserveTimestampsLost(q, c, b) == q

RequeuePreserveTimestamps(q, c, b) ==
    [q EXCEPT !.queues[c] = TrimBack(b.events \o @)]

RequeueAsCancelled(q, c, b) ==
    [q EXCEPT !.cancelled[c] = @ \o b.cancelled \o b.events,
              !.reason[c] = IF b.reason = "none" THEN "Steer" ELSE b.reason]

\* The in-flight entries are kept: the running turn will still complete.
DrainChannel(q, c) ==
    [q EXCEPT !.queues[c] = << >>,
              !.throttle[c] = "none",
              !.retries[c] = 0,
              !.cancelled[c] = << >>,
              !.reason[c] = "none",
              !.withheld[c] = << >>]

DrainDrops(q, c) ==
    Range(q.queues[c]) \cup Range(q.cancelled[c]) \cup Range(q.withheld[c])

-----------------------------------------------------------------------------
(***************************************************************************)
(* The side table of withheld events, deadlines and housekeeping           *)
(***************************************************************************)
\* Mutant: the event stays in the queue while its steer is on the wire.
MarkNativeSteerPendingNoWithhold(q, c, e) == q

MarkNativeSteerPending(q, c, e) ==
    IF e \in Range(q.queues[c])
    THEN [q EXCEPT !.queues[c] = Without(@, e), !.withheld[c] = Append(@, e)]
    ELSE q

\* Mutant: `get_mut` for `entry().or_default()`: no queue, no release.
ReleaseNativeSteerNoEntry(q, c, e) ==
    IF e \in Range(q.withheld[c])
    THEN [q EXCEPT !.withheld[c] = Without(@, e),
                   !.queues[c] = IF @ = << >> THEN @ ELSE TrimBack(<<e>> \o @)]
    ELSE q

ReleaseNativeSteer(q, c, e) ==
    IF e \in Range(q.withheld[c])
    THEN [q EXCEPT !.withheld[c] = Without(@, e),
                   !.queues[c] = TrimBack(<<e>> \o @)]
    ELSE q

ReleaseDrops(q, c, e) ==
    IF e \in Range(q.withheld[c]) THEN Trimmed(<<e>> \o q.queues[c]) ELSE {}

RemoveEvent(q, c, e) ==
    [q EXCEPT !.withheld[c] = Without(@, e), !.queues[c] = Without(@, e)]

\* A late ack never resurrects a deadline: no entry, no effect.
ExtendInFlightDeadline(q, c) == [q EXCEPT !.overdue = @ \ {c}]

CompactExpiredState(q) ==
    [q EXCEPT !.throttle = [c \in Channels |->
                  IF q.throttle[c] = "active" THEN "active" ELSE "none"],
              !.retries = [c \in Channels |->
                  IF \/ q.throttle[c] = "active"
                     \/ q.queues[c] # << >>
                     \/ c \in q.inFlight
                  THEN q.retries[c] ELSE 0]]

\* The passage of time: a retry throttle elapses, an in-flight deadline passes.
ThrottleElapsed(q, c) == [q EXCEPT !.throttle[c] = "expired"]

DeadlinePassed(q, c) == [q EXCEPT !.overdue = @ \cup {c}]
=============================================================================
