---------------------------- MODULE PushDelivery ----------------------------
(***************************************************************************)
(* Push notifications end to end: an author's leases, the gate that queues *)
(* events for matching, the matchers that turn them into wakes, the        *)
(* workers that deliver wakes, and the gateway (PushGateway) they post to. *)
(*                                                                         *)
(* One community and one lease author; an installation is a lease address. *)
(* Each SQL statement or transaction is one action, except the insertion   *)
(* of an event, which holds the push-gate lock from its trigger to its     *)
(* commit.  A claim id is drawn per claim and a worker uses only its last  *)
(* one, so a claim is named by its worker.  Clocks are left to actions     *)
(* that let a lease, a claim, an event's backfill window or its usefulness *)
(* end; next_attempt_at is left to fairness.                               *)
(***************************************************************************)
EXTENDS PushGateway

CONSTANTS
    Events,           \* events of push-eligible kinds, in one channel
    Matchers,         \* run_matcher loops
    Deliverers,       \* run_delivery_worker loops
    None,             \* no grant, no claimant, no answer
    MaxLeases,        \* MAX_ACTIVE_LEASES
    Versions,         \* <<created_at, generation>> pairs that devices sign
    MaxMatchAttempts, \* MAX_MATCH_ATTEMPTS
    MaxAttempts,      \* MAX_ATTEMPTS
    MaxFaults,        \* bound: crashes, database errors, claims outlived
    MaxChanges        \* bound: expiries, deletions, revocations and rotations

\* What the gateway answers: 202, 410, 400, 503 and 404.
Replies == {"accepted", "gone", "bad_request", "unavailable", "not_found"}

ASSUME DeliveryAssumption ==
    /\ MaxLeases \in Nat /\ MaxFaults \in Nat /\ MaxChanges \in Nat
    /\ MaxMatchAttempts \in Nat \ {0} /\ MaxAttempts \in Nat \ {0}
    /\ Versions \subseteq (Nat \ {0}) \X (Nat \ {0})
    /\ None \notin Matchers \cup Deliverers \cup Grants \cup Replies
    /\ Matchers \cap Deliverers = {}

VARIABLES
    leases,     \* push_leases; generation 0: no row
    events,     \* where each event is in its life
    jobs,       \* push_match_queue; state "none": no row
    outbox,     \* push_wake_outbox, a function on the wakes enqueued so far
    member,     \* the author is a member of the channel
    matchers,   \* local state of the matchers
    deliverers, \* local state of the delivery workers
    faults,     \* faults so far
    changes,    \* changes around the pipeline so far
    owed,       \* history: leases eligible when an event committed
    gaveUp,     \* history: events whose job was dropped with its attempts used up
    lapsed,     \* history: claims that ran out while their worker held them
    blocked     \* history: a submission failed with a database error

relayVars == <<leases, events, jobs, outbox, member, matchers, deliverers, faults,
               changes, owed, gaveUp, lapsed, blocked>>
vars == <<gatewayVars, relayVars>>
workVars == <<jobs, outbox, matchers, deliverers, faults>>
historyVars == <<owed, gaveUp, lapsed, blocked>>

-----------------------------------------------------------------------------
(* Rows.                                                                   *)

Lease == [created : Nat, gen : Nat, active : BOOLEAN, enabled : BOOLEAN,
          expired : BOOLEAN, grant : Grants \cup {None}]

NoLease == [created |-> 0, gen |-> 0, active |-> FALSE, enabled |-> TRUE,
            expired |-> FALSE, grant |-> None]

NoJob == [state |-> "none", attempts |-> 0, by |-> None, live |-> FALSE]

NewJob == [NoJob EXCEPT !.state = "pending"]

\* The unique key of a wake: endpoint_hash, the hash of the grant, and event.
Wakes == [grant : Grants, event : Events]

IdleMatcher == [pc |-> "idle", claimed |-> <<>>, leases |-> {}, failed |-> {}]

IdleDeliverer == [pc |-> "idle", held |-> {}, cur |-> None, reply |-> None]

\* An active, endpoint-enabled, unexpired lease.
Eligible(i) == leases[i].active /\ leases[i].enabled /\ ~ leases[i].expired

EligibleLeases == {<<i, leases[i].gen>> : i \in {j \in Installs : Eligible(j)}}

\* deleted_at IS NULL
Live(e) == events[e] \in {"recent", "old", "useless"}

\* The hour after an event, in which a wake for it is useful, is over.
Useless(e) == events[e] \in {"useless", "forgotten"}

\* expires_at of a wake has passed, whatever became of its event.
Expired(w) == Useless(w.event)

Init ==
    /\ GatewayInit
    /\ leases = [i \in Installs |-> NoLease]
    /\ events = [e \in Events |-> "none"]
    /\ jobs = [e \in Events |-> NoJob]
    /\ outbox = <<>>
    /\ member = TRUE
    /\ matchers = [m \in Matchers |-> IdleMatcher]
    /\ deliverers = [d \in Deliverers |-> IdleDeliverer]
    /\ faults = 0
    /\ changes = 0
    /\ owed = [e \in Events |-> {}]
    /\ gaveUp = {}
    /\ lapsed = {}
    /\ blocked = FALSE

Fault == faults < MaxFaults /\ faults' = faults + 1

Change == changes < MaxChanges /\ changes' = changes + 1

-----------------------------------------------------------------------------
(* Events and the push gate.                                               *)

Inserting(e) == events[e] \in {"skipped", "queued"}

\* The insert's trigger takes the gate lock shared and looks for a lease.
InsertEvent(e) ==
    /\ events[e] = "none"
    /\ events' = [events EXCEPT ![e] = IF EligibleLeases # {} THEN "queued" ELSE "skipped"]
    /\ UNCHANGED <<gatewayVars, changes, leases, member, workVars, historyVars>>

\* The transaction commits, event and job together, and drops the lock.
CommitEvent(e) ==
    /\ Inserting(e)
    /\ events' = [events EXCEPT ![e] = "recent"]
    /\ jobs' = IF events[e] = "queued" THEN [jobs EXCEPT ![e] = NewJob] ELSE jobs
    /\ owed' = [owed EXCEPT ![e] = EligibleLeases]
    /\ UNCHANGED <<gatewayVars, changes, leases, outbox, member, matchers, deliverers, faults,
                   gaveUp, lapsed, blocked>>

\* The event leaves the backfill window, or the hour in which it is useful; for a
\* deleted one the latter is no further change.
AgeEvent(e) ==
    /\ \/ /\ \/ events[e] = "recent" /\ events' = [events EXCEPT ![e] = "old"]
             \/ events[e] \in {"recent", "old"} /\ events' = [events EXCEPT ![e] = "useless"]
          /\ Change
       \/ /\ events[e] = "deleted" /\ events' = [events EXCEPT ![e] = "forgotten"]
          /\ UNCHANGED changes
    /\ UNCHANGED <<gatewayVars, leases, member, workVars, historyVars>>

\* Soft deletion, which leaves the hour running.
DeleteEvent(e) ==
    /\ Live(e)
    /\ events' = [events EXCEPT ![e] = IF Useless(e) THEN "forgotten" ELSE "deleted"]
    /\ Change
    /\ UNCHANGED <<gatewayVars, leases, member, workVars, historyVars>>

LeaveChannel ==
    /\ member
    /\ member' = FALSE
    /\ Change
    /\ UNCHANGED <<gatewayVars, leases, events, workVars, historyVars>>

-----------------------------------------------------------------------------
(* Leases: accept_lease_event.  A submission is a signed event: its place  *)
(* in the NIP-01 order, its generation, and a grant, or None to revoke.    *)

Submissions ==
    {[created |-> v[1], gen |-> v[2], grant |-> g] : v \in Versions, g \in grants \cup {None}}

WinsEvent(i, s) == s.created > leases[i].created

\* Mutant: a newer event may carry an older generation.
WinsGenerationAlways(i, s) == TRUE

WinsGeneration(i, s) == s.gen > leases[i].gen

\* The clean-up of expired leases sets active to false and leaves the endpoint
\* columns, which the table's CHECK refuses: the transaction fails.
CleanupRefused == \E j \in Installs : leases[j].active /\ leases[j].expired

LeaseQuotaExceeded(i) ==
    Cardinality({j \in Installs \ {i} : leases[j].active}) >= MaxLeases

EndpointAlreadyLeased(i, s) ==
    \E j \in Installs \ {i} : leases[j].active /\ leases[j].grant = s.grant

AcceptLeaseOutcome(i, s) ==
    IF ~ WinsEvent(i, s) THEN "StaleEvent"
    ELSE IF ~ WinsGeneration(i, s) THEN "StaleGeneration"
    ELSE IF CleanupRefused THEN "DatabaseError"
    ELSE IF s.grant # None /\ LeaseQuotaExceeded(i) THEN "LeaseQuotaExceeded"
    ELSE IF s.grant # None /\ EndpointAlreadyLeased(i, s) THEN "EndpointAlreadyLeased"
    ELSE "Accepted"

\* Mutant: an activation does not wait for insertions under way.
GateIgnored == TRUE

\* The gate lock is exclusive: no insertion is between its check and commit.
GateFree == \A e \in Events : ~ Inserting(e)

\* backfill_push_match_jobs, ON CONFLICT DO NOTHING.
Backfilled == [e \in Events |->
    IF events[e] = "recent" /\ jobs[e].state = "none" THEN NewJob ELSE jobs[e]]

AcceptLease(i, s) ==
    /\ AcceptLeaseOutcome(i, s) = "Accepted"
    /\ s.grant # None => GateFree
    /\ leases' = [leases EXCEPT ![i] =
           [created |-> s.created, gen |-> s.gen, active |-> s.grant # None,
            enabled |-> TRUE, expired |-> FALSE, grant |-> s.grant]]
    /\ jobs' = IF s.grant # None THEN Backfilled ELSE jobs
    /\ IF s.grant = None THEN Change ELSE UNCHANGED changes
    /\ UNCHANGED <<gatewayVars, events, outbox, member, matchers, deliverers, faults, historyVars>>

\* A submission that meets a database error.  The other refusals roll back and
\* change nothing.
LeaseError(i, s) ==
    /\ AcceptLeaseOutcome(i, s) = "DatabaseError"
    /\ ~ blocked
    /\ blocked' = TRUE
    /\ UNCHANGED <<gatewayVars, changes, leases, events, member, workVars, owed, gaveUp, lapsed>>

ExpireLease(i) ==
    /\ leases[i].active /\ ~ leases[i].expired
    /\ leases' = [leases EXCEPT ![i].expired = TRUE]
    /\ Change
    /\ UNCHANGED <<gatewayVars, events, member, workVars, historyVars>>

-----------------------------------------------------------------------------
(* The matcher.                                                            *)

\* Mutant: a claim that ran out is not recovered.
ClaimablePending(row, working) == row.state = "pending"

Claimable(row, working) ==
    row.state = "pending" \/ (row.state = working /\ ~ row.live)

Claim(row, worker, working) ==
    [row EXCEPT !.state = working, !.by = worker, !.live = TRUE, !.attempts = @ + 1]

\* The fence of every statement that settles a claim.
Holds(row, worker, working) == row.state = working /\ row.by = worker

\* Jobs the matcher's batch still owns are completed, or returned to pending.
CompleteMatches(m, done, retry) ==
    [e \in Events |->
        IF ~ Holds(jobs[e], m, "matching") THEN jobs[e]
        ELSE IF e \in done THEN NoJob
        ELSE IF e \in retry THEN [jobs[e] EXCEPT !.state = "pending", !.by = None, !.live = FALSE]
        ELSE jobs[e]]

Batch(m) == DOMAIN matchers[m].claimed

EndMatch(m) ==
    /\ matchers' = [matchers EXCEPT ![m] = IdleMatcher]
    /\ lapsed' = {c \in lapsed : c[1] # m}

\* claim_due_match_batch: due jobs with attempts left.
ClaimMatches(m) ==
    /\ matchers[m].pc = "idle"
    /\ \E batch \in (SUBSET {e \in Events : Claimable(jobs[e], "matching")
                                           /\ jobs[e].attempts < MaxMatchAttempts}) \ {{}} :
          /\ jobs' = [e \in Events |->
                 IF e \in batch THEN Claim(jobs[e], m, "matching") ELSE jobs[e]]
          /\ matchers' = [matchers EXCEPT
                 ![m].pc = "load",
                 ![m].claimed = [e \in batch |-> jobs[e].attempts + 1]]
    /\ UNCHANGED <<gatewayVars, changes, leases, events, outbox, member, deliverers, faults,
                   historyVars>>

\* The batch's events are loaded; jobs of deleted ones are dropped.
LoadEvents(m) ==
    /\ matchers[m].pc = "load"
    /\ LET found == {e \in Batch(m) : Live(e)}
       IN  /\ jobs' = CompleteMatches(m, Batch(m) \ found, {})
           /\ matchers' = [matchers EXCEPT ![m] =
                  IF found = {} THEN IdleMatcher
                  ELSE [@ EXCEPT !.pc = "context",
                                 !.claimed = [e \in found |-> matchers[m].claimed[e]]]]
           /\ lapsed' = {c \in lapsed : c[1] = m => c[2] \in found}
    /\ UNCHANGED <<gatewayVars, changes, leases, events, outbox, member, deliverers, faults,
                   owed, gaveUp, blocked>>

\* load_match_context: the leases, and whether their author is a member.
LoadContext(m) ==
    /\ matchers[m].pc = "context"
    /\ matchers' = [matchers EXCEPT ![m].pc = "enqueue",
                                    ![m].leases = IF member THEN EligibleLeases ELSE {}]
    /\ UNCHANGED <<gatewayVars, changes, leases, events, jobs, outbox, member, deliverers,
                   faults, historyVars>>

\* The context cannot be loaded: the whole batch goes back.
ContextFails(m) ==
    /\ matchers[m].pc = "context"
    /\ Fault
    /\ jobs' = CompleteMatches(m, {}, Batch(m))
    /\ EndMatch(m)
    /\ UNCHANGED <<gatewayVars, changes, leases, events, outbox, member, deliverers, owed,
                   gaveUp, blocked>>

\* enqueue_wakes: a request whose lease is still eligible under the generation
\* the matcher saw gets a row, unless its endpoint and event have one.
\* "failed" are jobs that did not evaluate or whose enqueue was rolled back.
EnqueueWakes(m, failed) ==
    /\ matchers[m].pc = "enqueue"
    /\ IF failed = {} THEN UNCHANGED faults ELSE Fault
    /\ LET sources == {i \in Installs : Eligible(i) /\ <<i, leases[i].gen>> \in matchers[m].leases}
           useful == {e \in Batch(m) \ failed : ~ Useless(e)}
           row(w) == [install |-> CHOOSE i \in sources : leases[i].grant = w.grant,
                      gen |-> leases[CHOOSE i \in sources : leases[i].grant = w.grant].gen,
                      state |-> "pending", attempts |-> 0, by |-> None, live |-> FALSE]
           new == {[grant |-> leases[i].grant, event |-> e] : i \in sources, e \in useful}
       IN  outbox' = [w \in DOMAIN outbox \cup new |->
                         IF w \in DOMAIN outbox THEN outbox[w] ELSE row(w)]
    /\ matchers' = [matchers EXCEPT ![m].pc = "settle", ![m].failed = failed]
    /\ UNCHANGED <<gatewayVars, changes, leases, events, jobs, member, deliverers, historyVars>>

\* Jobs are completed; a failed one is retried, or given up on its last attempt.
SettleMatches(m) ==
    /\ matchers[m].pc = "settle"
    /\ LET retry == {e \in matchers[m].failed : matchers[m].claimed[e] < MaxMatchAttempts}
       IN  /\ jobs' = CompleteMatches(m, Batch(m) \ retry, retry)
           /\ gaveUp' = gaveUp \cup
                  {e \in matchers[m].failed \ retry : Holds(jobs[e], m, "matching")}
    /\ EndMatch(m)
    /\ UNCHANGED <<gatewayVars, changes, leases, events, outbox, member, deliverers, faults,
                   owed, blocked>>

\* A crash, or a database error after which the claims are left to run out.
MatcherQuits(m) ==
    /\ matchers[m].pc # "idle"
    /\ Fault
    /\ EndMatch(m)
    /\ UNCHANGED <<gatewayVars, changes, leases, events, jobs, outbox, member, deliverers,
                   owed, gaveUp, blocked>>

\* reap_exhausted_matches
ReapMatches(e) ==
    /\ Claimable(jobs[e], "matching")
    /\ jobs[e].attempts >= MaxMatchAttempts
    /\ jobs' = [jobs EXCEPT ![e] = NoJob]
    /\ gaveUp' = gaveUp \cup {e}
    /\ UNCHANGED <<gatewayVars, changes, leases, events, outbox, member, matchers, deliverers,
                   faults,
                   owed, lapsed, blocked>>

\* lease_until passes.  A worker that still holds the claim outlived it.
ExpireMatchClaim(e) ==
    /\ jobs[e].live
    /\ jobs' = [jobs EXCEPT ![e].live = FALSE]
    /\ IF e \in Batch(jobs[e].by)
       THEN Fault /\ lapsed' = lapsed \cup {<<jobs[e].by, e>>}
       ELSE UNCHANGED <<faults, lapsed>>
    /\ UNCHANGED <<gatewayVars, changes, leases, events, outbox, member, matchers, deliverers,
                   owed, gaveUp, blocked>>

-----------------------------------------------------------------------------
(* The delivery worker.                                                    *)

\* The join of claim and revalidation: the wake's generation and endpoint are
\* the lease's, the lease is eligible, the event is there and still useful.
Deliverable(w) ==
    LET l == leases[outbox[w].install]
    IN  /\ l.gen = outbox[w].gen
        /\ l.grant = w.grant
        /\ Eligible(outbox[w].install)
        /\ Live(w.event)
        /\ ~ Expired(w)

\* claim_due_wakes
ClaimWakes(d) ==
    /\ deliverers[d].pc = "idle"
    /\ deliverers[d].held = {}
    /\ \E batch \in (SUBSET {w \in DOMAIN outbox : Claimable(outbox[w], "sending")
                                                   /\ Deliverable(w)}) \ {{}} :
          /\ outbox' = [w \in DOMAIN outbox |->
                 IF w \in batch THEN Claim(outbox[w], d, "sending") ELSE outbox[w]]
          /\ deliverers' = [deliverers EXCEPT ![d].held =
                 {[wake |-> w, attempt |-> outbox[w].attempts + 1] : w \in batch}]
    /\ UNCHANGED <<gatewayVars, changes, leases, events, jobs, member, matchers, faults,
                   historyVars>>

\* Mutant: a settlement is not fenced by the claim.
SettledUnfenced(d, c, state) ==
    [outbox EXCEPT ![c.wake].state = state, ![c.wake].by = None, ![c.wake].live = FALSE]

\* complete_wake, retry_wake and fail_wake, each under the claim's fence.
Settled(d, c, state) ==
    IF Holds(outbox[c.wake], d, "sending")
    THEN [outbox EXCEPT ![c.wake].state = state, ![c.wake].by = None, ![c.wake].live = FALSE]
    ELSE outbox

\* The worker is done with claim c and turns to the next one it holds.
EndWake(d, c) ==
    /\ deliverers' = [deliverers EXCEPT ![d] =
           [IdleDeliverer EXCEPT !.held = deliverers[d].held \ {c}]]
    /\ lapsed' = lapsed \ {<<d, c.wake>>}

SettleWake(d, c, state) ==
    /\ outbox' = Settled(d, c, state)
    /\ EndWake(d, c)

\* retry_or_fail
RetryOrFail(c) == IF c.attempt >= MaxAttempts THEN "failed" ELSE "pending"

\* revalidate_wake_for_send
Revalidated(d, c) ==
    /\ Holds(outbox[c.wake], d, "sending")
    /\ outbox[c.wake].live
    /\ Deliverable(c.wake)

Advance(d, pc) ==
    /\ deliverers' = [deliverers EXCEPT ![d].pc = pc]
    /\ UNCHANGED <<outbox, lapsed>>

deliverUnchanged == <<changes, leases, events, jobs, member, matchers, owed, gaveUp, blocked>>

\* deliver_one takes up a claim and revalidates it.
StartWake(d) ==
    /\ deliverers[d].pc = "idle"
    /\ \E c \in deliverers[d].held :
          \/ /\ Revalidated(d, c)
             /\ deliverers' = [deliverers EXCEPT ![d].pc = "member", ![d].cur = c]
             /\ UNCHANGED <<outbox, lapsed>>
          \/ /\ ~ Revalidated(d, c)
             /\ SettleWake(d, c, "failed")
    /\ UNCHANGED <<gatewayVars, deliverUnchanged, faults>>

\* The membership check; an error there sends the wake back.
CheckMember(d) ==
    /\ deliverers[d].pc = "member"
    /\ \/ member /\ Advance(d, "final") /\ UNCHANGED faults
       \/ ~ member /\ SettleWake(d, deliverers[d].cur, "failed") /\ UNCHANGED faults
       \/ Fault /\ SettleWake(d, deliverers[d].cur, "pending")
    /\ UNCHANGED <<gatewayVars, deliverUnchanged>>

\* The last database operation before transport.
FinalRevalidate(d) ==
    /\ deliverers[d].pc = "final"
    /\ IF Revalidated(d, deliverers[d].cur)
       THEN Advance(d, "send")
       ELSE SettleWake(d, deliverers[d].cur, "failed")
    /\ UNCHANGED <<gatewayVars, deliverUnchanged, faults>>

\* The request is posted under a serving-write guard.
PostWake(d) ==
    /\ deliverers[d].pc = "send"
    /\ LET c == deliverers[d].cur
       IN  tasks' = tasks \cup {[wake |-> c.wake, attempt |-> c.attempt, grant |-> c.wake.grant,
                                 phase |-> "posted", outcome |-> None]}
    /\ Advance(d, "wait")
    /\ UNCHANGED <<authorityVars, reserved, quota, confirmed, repeated, invalid,
                   deliverUnchanged, faults>>

\* The community is being deleted: no guard is given.
ServingRefused(d) ==
    /\ deliverers[d].pc = "send"
    /\ Fault
    /\ SettleWake(d, deliverers[d].cur, "failed")
    /\ UNCHANGED <<gatewayVars, deliverUnchanged>>

\* No answer: a timeout or a failed connect is retried, any other error of the
\* HTTP client is final.
Timeout(d) ==
    /\ deliverers[d].pc = "wait"
    /\ deliverers[d].reply = None
    /\ \E state \in {RetryOrFail(deliverers[d].cur), "failed"} :
          SettleWake(d, deliverers[d].cur, state)
    /\ UNCHANGED <<gatewayVars, deliverUnchanged, faults>>

\* What each answer other than an invalid endpoint makes of the wake.  A 404 to
\* a repeated request is taken for the answer to a request already accepted.
AnsweredState(c, reply) ==
    IF reply = "accepted" \/ (reply = "not_found" /\ c.attempt > 1) THEN "delivered"
    ELSE IF reply = "unavailable" THEN RetryOrFail(c)
    ELSE "failed"

HandleReply(d) ==
    /\ deliverers[d].pc = "wait"
    /\ deliverers[d].reply \notin {None, "gone"}
    /\ SettleWake(d, deliverers[d].cur, AnsweredState(deliverers[d].cur, deliverers[d].reply))
    /\ UNCHANGED <<gatewayVars, deliverUnchanged, faults>>

\* Mutant: the lease is disabled whatever generation it has now.
DisableAnyGeneration(d) ==
    /\ deliverers[d].pc = "wait"
    /\ deliverers[d].reply = "gone"
    /\ leases' = [leases EXCEPT ![outbox[deliverers[d].cur.wake].install].enabled = FALSE]
    /\ Advance(d, "fail")
    /\ UNCHANGED <<gatewayVars, changes, events, jobs, member, matchers, owed, gaveUp, blocked,
                   faults>>

\* disable_endpoint_generation, if the answer's generation is the wake's and
\* still the lease's; then the wake fails.
DisableEndpoint(d) ==
    /\ deliverers[d].pc = "wait"
    /\ deliverers[d].reply = "gone"
    /\ LET c == deliverers[d].cur
           i == outbox[c.wake].install
       IN  leases' = IF /\ c.wake.grant.gen = outbox[c.wake].gen
                        /\ leases[i].gen = outbox[c.wake].gen
                        /\ leases[i].active
                     THEN [leases EXCEPT ![i].enabled = FALSE]
                     ELSE leases
    /\ Advance(d, "fail")
    /\ UNCHANGED <<gatewayVars, changes, events, jobs, member, matchers, owed, gaveUp, blocked,
                   faults>>

FailGone(d) ==
    /\ deliverers[d].pc = "fail"
    /\ SettleWake(d, deliverers[d].cur, "failed")
    /\ UNCHANGED <<gatewayVars, deliverUnchanged, faults>>

\* An error after which one claim is left to run out: a failed revalidation, a
\* serving lease lost before or during the request, a settlement not stored.
AbandonWake(d) ==
    /\ deliverers[d].cur # None
    /\ Fault
    /\ EndWake(d, deliverers[d].cur)
    /\ UNCHANGED <<gatewayVars, outbox, deliverUnchanged>>

\* The relay process dies with all it holds.
DelivererCrash(d) ==
    /\ deliverers[d].held # {}
    /\ Fault
    /\ deliverers' = [deliverers EXCEPT ![d] = IdleDeliverer]
    /\ lapsed' = {c \in lapsed : c[1] # d}
    /\ UNCHANGED <<gatewayVars, outbox, deliverUnchanged>>

ExpireWakeClaim(w) ==
    /\ outbox[w].live
    /\ outbox' = [outbox EXCEPT ![w].live = FALSE]
    /\ IF \E c \in deliverers[outbox[w].by].held : c.wake = w
       THEN Fault /\ lapsed' = lapsed \cup {<<outbox[w].by, w>>}
       ELSE UNCHANGED <<faults, lapsed>>
    /\ UNCHANGED <<gatewayVars, deliverUnchanged, deliverers>>

-----------------------------------------------------------------------------
(* The gateway, answering the worker that still waits for the request.     *)

Answer(t, reply) ==
    deliverers' = [d \in Deliverers |->
        IF /\ deliverers[d].pc = "wait"
           /\ deliverers[d].cur = [wake |-> t.wake, attempt |-> t.attempt]
        THEN [deliverers[d] EXCEPT !.reply = reply]
        ELSE deliverers[d]]

DeliveryResponse(t) ==
    CASE t.outcome = "Accepted" -> "accepted"
      [] t.outcome = "InvalidEndpoint" -> "gone"
      [] t.outcome = "PermanentFault" -> "bad_request"
      [] OTHER -> "unavailable"

answerUnchanged == <<deliverUnchanged, outbox, lapsed>>

Admit(t) == AuthorizeDelivery(t, Expired(t.wake)) /\ UNCHANGED relayVars

Reject(t) ==
    /\ RejectDelivery(t, Expired(t.wake))
    /\ Answer(t, "not_found")
    /\ UNCHANGED <<answerUnchanged, faults>>

Unavailable(t) ==
    /\ DropDelivery(t)
    /\ Fault
    /\ Answer(t, "unavailable")
    /\ UNCHANGED answerUnchanged

Send(t) ==
    /\ \E outcome \in Outcomes : TransportSend(t, outcome)
    /\ UNCHANGED relayVars

Finish(t) ==
    /\ FinishDelivery(t)
    /\ Answer(t, DeliveryResponse(t))
    /\ UNCHANGED <<answerUnchanged, faults>>

FinishUnstored(t) ==
    /\ FinishFails(t)
    /\ Fault
    /\ Answer(t, "unavailable")
    /\ UNCHANGED answerUnchanged

GatewayDies ==
    /\ GatewayCrash
    /\ Fault
    /\ UNCHANGED <<answerUnchanged, deliverers>>

ReapExpired ==
    /\ ReapReservations({w \in reserved : Expired(w)})
    /\ UNCHANGED relayVars

-----------------------------------------------------------------------------
DeviceStep(i) ==
    /\ \/ UpsertDelegation(i) /\ IF delegation[i].gen = 0 THEN UNCHANGED changes ELSE Change
       \/ RotateEndpoint(i) /\ Change
       \/ RevokeDelegation(i) /\ Change
       \/ RevokeInstallation(i) /\ Change
       \/ QuotaWindow(i) /\ Change
    /\ UNCHANGED <<leases, events, member, workVars, historyVars>>

EventStep(e) == InsertEvent(e) \/ AgeEvent(e) \/ DeleteEvent(e)

LeaseStep(i) ==
    \/ \E s \in Submissions : AcceptLease(i, s) \/ LeaseError(i, s)
    \/ ExpireLease(i)

MatcherStep(m) ==
    \/ ClaimMatches(m) \/ LoadEvents(m) \/ LoadContext(m) \/ ContextFails(m)
    \/ \E failed \in SUBSET Batch(m) : EnqueueWakes(m, failed)
    \/ SettleMatches(m)

DelivererStep(d) ==
    \/ ClaimWakes(d) \/ StartWake(d) \/ CheckMember(d) \/ FinalRevalidate(d)
    \/ PostWake(d) \/ ServingRefused(d) \/ Timeout(d) \/ HandleReply(d)
    \/ DisableEndpoint(d) \/ FailGone(d)

TaskStep(t) == Admit(t) \/ Reject(t) \/ Unavailable(t) \/ Send(t) \/ Finish(t) \/ FinishUnstored(t)

Next ==
    \/ \E i \in Installs : DeviceStep(i) \/ LeaseStep(i)
    \/ \E e \in Events : EventStep(e) \/ CommitEvent(e) \/ ReapMatches(e) \/ ExpireMatchClaim(e)
    \/ \E m \in Matchers : MatcherStep(m) \/ MatcherQuits(m)
    \/ \E d \in Deliverers : DelivererStep(d) \/ AbandonWake(d) \/ DelivererCrash(d)
    \/ \E w \in DOMAIN outbox : ExpireWakeClaim(w)
    \/ \E t \in tasks : TaskStep(t)
    \/ LeaveChannel \/ GatewayDies \/ ReapExpired

Spec == Init /\ [][Next]_vars

\* The loops of the relay run on, the sweep comes round every REAP_INTERVAL,
\* transactions end, and a claim nobody holds runs out after CLAIM_SECS.
Fairness ==
    /\ \A m \in Matchers : WF_vars(MatcherStep(m))
    /\ \A d \in Deliverers : WF_vars(DelivererStep(d))
    /\ \A e \in Events :
          /\ WF_vars(CommitEvent(e))
          /\ WF_vars(ReapMatches(e))
          /\ WF_vars(ExpireMatchClaim(e) /\ e \notin Batch(jobs[e].by))
    /\ \A w \in Wakes : WF_vars(w \in DOMAIN outbox /\ ExpireWakeClaim(w)
                                /\ \A c \in deliverers[outbox[w].by].held : c.wake # w)

LiveSpec == Spec /\ Fairness

-----------------------------------------------------------------------------
(* Properties.                                                             *)

EventState == {"none", "skipped", "queued", "recent", "old", "useless", "deleted", "forgotten"}

Job == [state : {"none", "pending", "matching"}, attempts : Nat,
        by : Matchers \cup {None}, live : BOOLEAN]

Row == [install : Installs, gen : Nat, state : {"pending", "sending", "delivered", "failed"},
        attempts : Nat, by : Deliverers \cup {None}, live : BOOLEAN]

\* A wake under one claim of it.
Held == [wake : Wakes, attempt : Nat]

Matcher == [pc : {"idle", "load", "context", "enqueue", "settle"},
            claimed : UNION {[batch -> 1..MaxMatchAttempts] : batch \in SUBSET Events},
            leases : SUBSET (Installs \X Nat), failed : SUBSET Events]

Deliverer == [pc : {"idle", "member", "final", "send", "wait", "fail"},
              held : SUBSET Held, cur : Held \cup {None},
              reply : Replies \cup {None}]

Task == [wake : Wakes, attempt : Nat, grant : Grants,
         phase : {"posted", "admitted", "sent"}, outcome : Outcomes \cup {None}]

\* Every variable keeps its type.
TypeOK ==
    /\ leases \in [Installs -> Lease]
    /\ events \in [Events -> EventState]
    /\ jobs \in [Events -> Job]
    /\ DOMAIN outbox \subseteq Wakes /\ outbox \in [DOMAIN outbox -> Row]
    /\ matchers \in [Matchers -> Matcher]
    /\ deliverers \in [Deliverers -> Deliverer]
    /\ owed \in [Events -> SUBSET (Installs \X Nat)]
    /\ member \in BOOLEAN /\ blocked \in BOOLEAN
    /\ faults \in Nat /\ changes \in Nat
    /\ gaveUp \subseteq Events
    /\ lapsed \subseteq (Matchers \X Events) \cup (Deliverers \X Wakes)
    /\ installation \in [Installs -> [epoch : 1..MaxEpoch, revoked : BOOLEAN]]
    /\ delegation \in [Installs -> [gen : Nat, epoch : Nat, revoked : BOOLEAN]]
    /\ grants \subseteq Grants /\ invalid \subseteq Grants
    /\ quota \in [Installs -> 0..MaxQuota]
    /\ tasks \subseteq Task
    /\ reserved \subseteq Wakes /\ confirmed \subseteq Wakes /\ repeated \subseteq Wakes

\* What the push gate, the claims and the rematches together keep: a lease that
\* was eligible when an event committed, and still is, has a job or a wake for
\* it, unless the job's attempts ran out.  The gate's check may not be
\* overtaken by an activation, nor a job be dropped by a matcher that lost it
\* or that read the leases too early.
NoLostWake ==
    \A e \in Events, i \in Installs :
        (/\ <<i, leases[i].gen>> \in owed[e]
         /\ Eligible(i)
         /\ member
         /\ events[e] \in {"recent", "old"}
         /\ e \notin gaveUp)
        => LET w == [grant |-> leases[i].grant, event |-> e]
           IN  \/ jobs[e].state # "none"
               \/ w \in DOMAIN outbox /\ outbox[w].gen = leases[i].gen

\* Until its claim runs out, a worker keeps every job or wake it holds: no slow
\* worker that comes back settles or releases another's claim.
ClaimsExclusive ==
    /\ \A m \in Matchers, e \in Events :
          e \in Batch(m) /\ <<m, e>> \notin lapsed => Holds(jobs[e], m, "matching")
    /\ \A d \in Deliverers : \A c \in deliverers[d].held :
          <<d, c.wake>> \notin lapsed => Holds(outbox[c.wake], d, "sending")

\* The request id fences the provider: however often the relay repeats a
\* request it gave up on, one task at a time is between admission and
\* disposition, and its reservation stands.
OneSendPerRequest ==
    \A t \in tasks : t.phase # "posted" =>
        /\ \A u \in tasks : u.phase # "posted" /\ u.wake = t.wake => u = t
        /\ t.wake \in reserved \/ Expired(t.wake)

\* A push that APNs confirmed is never sent again, though the confirmation may
\* miss the relay and the relay try again.
NothingAfterAccepted == repeated = {}

\* A lease is disabled only for the endpoint and generation that APNs called
\* unregistered, never by an answer to a replaced generation.
DisabledWasInvalid ==
    \A i \in Installs : leases[i].active /\ ~ leases[i].enabled =>
        leases[i].grant \in invalid /\ leases[i].grant.gen = leases[i].gen

\* After a replacement with a new grant of its device took effect, no request is
\* admitted for the old one, not even one the relay revalidated before that.
NoStaleSend ==
    [][\A w \in reserved' \ reserved :
          LET l == leases[outbox[w].install] IN
          l.active /\ l.grant.install = w.grant.install => w.grant.gen >= l.grant.gen]_vars

\* A lease changes by a submission that is newer in both orders, or else loses
\* eligibility: no replay or late answer makes an ineffective lease effective.
LeasesOnlyReplaced ==
    [][\A i \in Installs : leases'[i] # leases[i] =>
          \/ leases'[i].created > leases[i].created /\ leases'[i].gen > leases[i].gen
          \/ /\ leases'[i].created = leases[i].created /\ leases'[i].gen = leases[i].gen
             /\ leases'[i].grant = leases[i].grant
             /\ ~ Eligible(i)']_vars

\* Every job leaves the queue, whatever fails on the way.
JobsDrain == \A e \in Events : jobs[e].state # "none" ~> jobs[e].state = "none"

\* Every wake is delivered, given up, or no longer deliverable.
WakesSettle ==
    \A w \in Wakes :
        w \in DOMAIN outbox
        ~> /\ w \in DOMAIN outbox
           /\ outbox[w].state \in {"delivered", "failed"} \/ ~ Deliverable(w)

\* An expired lease does not keep its author from registering again.
ExpiredNeverBlocks == ~ blocked
=============================================================================
