# A verification project for Buzz

Buzz is a Nostr relay with rooms, git hosting, workflows and AI agents.  This
directory holds TLA+ models of its parts that are hard to test, the TLC
configurations that check them on small instances, and proofs, checked by
TLAPS, of what they guarantee for every size.  Every definition that models code
has its source lines under `map` in `PROJECT.json`.

## 1. Inventory

Source paths are relative to `src/crates/`.

| Part | State it keeps | Operations | What is hard | What makes it correct |
|---|---|---|---|---|
| **Event queue** (`buzz-acp/src/queue.rs`) | per channel: queued, cancelled and withheld events, in-flight deadline, retry throttle and counter | push, flush, complete, three requeues, drain, withhold, release, expire, compact | long sequences of legal calls; the caps; entries that several maps must agree on | an event is in one place until it is finished; retries are bounded; batches are ordered |
| **Harness loop and agent pool** (`buzz-acp/src/lib.rs`, `pool.rs`, `pool_lifecycle.rs`, `acp.rs`) | agent slots, prompt tasks and their metadata, respawn tasks, circuit breakers, sessions, the lazy pool's lifecycle, removed channels | one `select!` arm per input: results, panics, steer acks, wakes, relay events, controls, timers | tasks, acks, respawns and clocks interleave with the loop; results arrive in any order; panics, timeouts, retries | one agent per slot, one turn per channel, nothing lost, nothing prompted twice, everything finished |
| **Git on object storage** (`buzz-relay/src/api/git`) | an object store of packs and manifests, one pointer per repository | hydrate, receive-pack, publish by compare-and-swap, compact, announce, seed | concurrent pushes on several relay nodes; a lost answer of the swap; a lease lost in the middle | what a pointer names is complete; no push is overwritten; success is reported only for what is published |
| **Connections and fan-out** (`buzz-relay/src/connection.rs`, `subscription.rs`) | subscriptions by connection, indexes by kind and channel, send queues | register, remove, match, deliver, evict slow clients | removal races delivery; full queues | the indexes agree with the subscriptions |
| **Huddle ownership** (`buzz-relay/src/audio`, `tunnel/directory.rs`) | a lease per huddle in Redis; per pod a registry of owned huddles, renewers, rooms; control streams between pods | join, acquire, renew, release, register with the owner, leave, end, drain | pods racing for the lease, a drain or a crash in the middle of a join, tokens taken too early or too late | one owner that knows it is one; a drain leaves nothing behind; every join ends |
| **Push** (`buzz-relay/src/push_runtime.rs`, `buzz-relay/src/handlers/push_lease.rs`, `buzz-db/src/push.rs`, `buzz-push-gateway`) | leases of devices, match jobs, wakes; at the gateway installations, delegations, reservations, quotas | submit, replace and revoke a lease; queue, match, enqueue; claim, revalidate, post, settle; admit, send, dispose, reap | an activation against an event being inserted; workers that outlive their claims; lost answers at three hops; a device that changes everything meanwhile | no wake is lost to a race, none is sent twice after it was accepted, none goes to a replaced grant, everything is settled |
| **Community deletion** (`buzz-deletion`, `buzz-db/src/deletion.rs`, migrations 0029 and 0030) | a request with its stage, lease and frozen object list; the community's state and fence generation; serving-write leases | submit, inventory, approve, fence, drain, list, delete, purge, verify; abort, block, unblock | relay nodes that go on writing, executors that lose their lease to another, external writes and deletes that land late, aborts at any time | nothing is written under a lease behind the fence, nothing is destroyed before it, an abort restores everything, what is called gone is gone |
| **Replica fence** (`buzz-db/src/replica_fence.rs`) | log positions and a per-key watermark | record a write, route a read | stale reads after a write | read your writes |
| **Workflows** (`buzz-workflow`, `buzz-db/src/workflow.rs`) | runs, steps, approvals | trigger, step, suspend, approve, resume | approval races expiry; resume twice | every step at most once |
| **Audit log** (`buzz-audit`) | a hash chain per community | append, verify | concurrent appends | a single unbroken chain |
| **Pairing** (`buzz-core/src/pairing`, `buzz-pair-relay`) | a session per device | offer, confirm, transfer, abort | reordered and repeated messages | both sides agree, the payload goes to the confirmed peer |
| **Relay mesh** (`buzz-relay-mesh`) | membership views, registry | join, gossip, expire | late gossip | views converge |
| **Kubernetes backend** (`buzz-backend-kubernetes`) | desired and actual pods | reconcile | partial failure | reconcile is idempotent |
| the rest | see `components` in `PROJECT.json` | | user interfaces, parsing, I/O and command line tools | not modelled |

How they interact: the harness is a client of the relay (events come in over a
socket, replies go out through the command line tool the agent runs).  The relay
calls the database, the object store and Redis; deletion takes leases against
every relay write, pushes included; the push runtime, workflows and audit log are
fed by the relay's event ingest.

## 2. Plan

1. `EventQueue`, `AcpHarness`: the harness, the part with most concurrency of its
   own.  **Done**, with proofs of every safety property its runs check.
2. `RefStore`, `GitPublish`: git publication as a refinement of an abstract store
   of refs, with clones and announcements.  **Done**, with the same and with a
   proof of the refinement.
3. `TenantLifecycle`, `CommunityDeletion`: deletion against the relay nodes' serving
   writes, as a refinement of an abstract tenant lifecycle.  **Done**, with the same
   and with a proof of the refinement.
4. `PushGateway`, `PushDelivery`: the push pipeline composed with its gateway.
   **Done**, with proofs of every safety property.
5. `HuddleOwner`: ownership of a huddle across pods.  **Done**, with proofs of both
   safety properties.
6. An abstract turn scheduler that `AcpHarness` refines.
7. Workflow runs and approvals; pairing session.
8. Connection and subscription indexes; audit chain; replica fence; mesh
   membership; pack cache; reconcile.
9. Proofs: every invariant, action property and refinement that a passing run checks
   is a theorem (section 8).  Liveness stays with TLC.

## 3. The harness model

### Modules

| Module | Content |
|---|---|
| `EventQueue` | the queue as a record, one operator per method |
| `AcpHarness` | the loop, the pool, prompt and respawn tasks, clocks; extends `EventQueue` |
| `MCAcp` | finite instance for TLC |
| `AcpHarnessProofs` | lemmas: what each queue operator preserves; `Spec => []TypeOK` |
| `AcpSafetyProofs` | slots, heartbeats, turns and sessions |
| `AcpEventProofs` | where events are and what becomes of them |

### State and actions

The queue is owned by one loop and several of its methods run inside one handler,
so it is a value: `q` is a record with one field per map of the Rust struct, and a
handler composes the operators.  `task[a]` is the prompt task that took agent `a`
together with its `TaskMeta` and, once finished, its `PromptResult`; the three
live exactly as long as each other.  `idle` is the set of slots that hold an
agent, `respawn`, `circuit` and `crashes` the slot's respawn task and breaker,
`life` the lazy pool's lifecycle (`due` is `Failed` with its retry time past).

The loop is one thread.  `pc` says where it is:

    top -> collect -> select -> [reap ->] dispatch ... dispatch -> top

`top` is the wake check or the maintenance block, `collect` takes respawn
results, `select` waits for one arm, and dispatch is one `flush_next` and
claim per step.  Everything a handler does to the loop's own state is one
action; the steps are split only so that tasks can move between them.

| Code | Actions |
|---|---|
| wake check, maintenance, respawn results | `TopLazy`, `TopSkip`, `Maintenance`, `CollectRespawns` |
| `dispatch_pending` | `DispatchQueued`, `DispatchCancelled`, `DispatchDone` |
| `handle_prompt_result`, `recover_panicked_agent`, `drain_ready_join_results` | `HandlePromptResult`, `RecoverPanickedAgent`, `ReapDone` |
| relay events, membership, owner controls | `ReceiveEvent`, `MemberRemoved`, `MemberAdded`, `OwnerControl` |
| steer acks | `HandleSteerAck` |
| timers, heartbeat, sleep and wake | `TimerTick`, `HeartbeatTick`, `IdlePoolSleep`, `WakeSucceeded`, `WakeFailed`, `WakeRetryDue` |
| `run_prompt_task` and the read loop | `FinishTurn`, `FailTurn`, `TakeControl`, `FinishCancelled`, `FailCancelled`, `PanicTask`, `WriteSteer`, `AnswerSteer` |
| respawn tasks, clocks | `RespawnOk`, `RespawnFailed`, `CircuitCools`, `ThrottleElapses`, `DeadlinePasses` |

Abstractions.  An event is its arrival number; its author's timestamp is given by
`CreatedAt`, which need not follow arrival.  An instant is one of the values its
comparison with the clock can tell apart.  Outcomes that the handler treats alike
are one value.  Whether an author is the owner, whether a model is in the catalog
and whether a session is rotated after a turn are free choices.

Three history variables record what the code only logs: `settled` (events finished
or knowingly given up: answered, steered, dead-lettered, dropped at a cap,
drained), `merged` (events flushed as part of a merged batch) and `fails` (how
often an event's batch was requeued).

### Runs

All use `MCAcp`.  Bounds: `MaxFaults` (failed turns, panics, failed respawns and
wakes), `MaxControls`, `MaxChanges` (removals and re-adds), `MaxHangs` (turns that
outlive their deadline) and `MaxTroubles`, which limits the sum of faults, controls and
such turns, so that each kind may happen and any two may meet.  `MaxPending = MaxBatch = 2` and `MaxRetries = 1` make
caps, partial drains and dead-letters happen with three events.  Agents and
channels are symmetric in the safety runs; the liveness runs use no symmetry.

| Run | Instance | Result |
|---|---|---|
| `acp_queue` | 2 agents, 2 channels, 3 events, 2 faults, 2 changes | `SlotExclusive`, `OneTurnPerChannel`, `InFlightExact`, `Conserved`, `NoResurrection`, `NoStaleSessions` hold |
| `acp_steer` | 2 agents, 1 channel, 3 events, steering, all controls, 2 troubles, at most one of them a turn that outlives its deadline | `TriggersConserved`, `NoResurrection`, `NoDoubleHold`, `WithheldHasAck` hold |
| `acp_live` | 1 agent, 1 channel, 2 events, lazy pool, heartbeats, 2 faults, fairness | `EventuallySettled`, `HeartbeatExact` hold |
| `acp_merge_loss` | steering, 2 events, 1 fault | violates `Conserved` |

Two agents are needed for slot and turn exclusion and one more would only repeat
them; two channels for the fairness of the pick and the affinity of `try_claim`;
three events for a batch, a second batch and a withheld steer at once.

What the violation shows: a turn is steered, its events are merged into the next
batch as `cancelled_events`; that batch fails or finds no idle agent; only its own
events are requeued.  `acp_steer` checks what remains true (`TriggersConserved`:
an event is lost only after it was merged once).

More disagreements the model shows, without a run of their own (the properties are
defined in `AcpHarness`, so that adding one to a configuration shows its trace):

* `AttemptsBounded` fails.  The agent crashes, the backoff elapses while it
  respawns, a dispatch finds no agent and calls `mark_complete`, which takes the
  expired throttle for a success and forgets the attempt count, so a batch may be
  retried more often than `MAX_RETRIES`.
* With `Timers = FALSE` (no presence, typing or heartbeat) `EventuallySettled` fails:
  nothing wakes the loop, so a batch whose backoff is over stays where it is
  until the relay sends something.
* With `MaxHangs = 1`, `OneTurnPerChannel` fails.  The in-flight deadline is
  `max_turn` plus 100 s, but setup, initial message and prompt are bounded
  separately; the channel is released while the turn runs and another agent takes
  it.  `buzz-acp/README.md` promises one prompt in flight for each channel.
  Once such a turn is steered an agent may also be given an event twice, because
  the withheld event is recovered to the queue although the agent has it; that is why
  `NoResurrection` speaks of behaviours without such a turn.
* With `Handling = "Steer"` and a model switch, `NewestLast` fails.  A merged turn
  that is cancelled again is dispatched from the fallback path of `flush_next`,
  whose batch is not sorted.

### Fairness

`FairSpec` adds: the loop takes its next step when it has one (it is one task on a
running executor); a ready arm of the `select!` is taken eventually, which is
strong fairness because the loop comes back to `select` again and again (the
select is biased, but an arm that is ready stays ready and the arms before it
run dry: results, panics and acks are finite in number); maintenance runs again
and again when the loop goes round (its interval elapses); turns end (idle and
hard timeouts), respawns end, breakers cool and throttles elapse (they are timers).
Nothing is assumed of relay events, controls, faults or steer answers.

## 4. The git model

### Modules

| Module | Content |
|---|---|
| `RefStore` | what a git host promises its clients: pushes apply whole, one at a time, and answers are truthful |
| `GitPublish` | pushes, clones and announcements over an object store and a reservation table |
| `MCGit` | finite instance for TLC |
| `GitPublishProofs` | lemmas on operators, the inductive invariant, types |
| `GitSafetyProofs` | the invariant is inductive, the safety theorems, and `GitPublish` implements `RefStore` |

### State and actions

`packs`, `manifests` and `pointer` are the object store; `row` is the entry of
`git_repo_names`; `shown` the refs of the newest ref-state event (kind:30618).
Every request is a process with its own record (`push[p]`, `reader[x]`, `ann[a]`):
requests run on any relay node and share nothing but the store and the database.
`chain` is a history variable, the digests the pointer has named.

The conditional write of the pointer is two steps, because the sender and the
store need not agree on it: `put` goes from `sent` to `won` or `lost` when the
store decides (`StoreCas`, `StoreSeed`), at any time after it was sent, even after
its request was answered or its node died, or never; the request reads the
outcome later (`CasWon`, `CasLost`) or gives up (`BackendError`, `LeaseLost`,
`Crash`).

| Code | Actions |
|---|---|
| `info_refs` for a push, `hydrate_for_write` | `Advertise`, `HydrateForWrite` |
| `git receive-pack`, the pre-receive hook and `hook_policy_check` | `ReceivePack`, `DeclinePush` |
| `finalize_push`, part 0 | `Reject` |
| `cas_publish`: compaction, capture, limits, validation | `UploadCompacted`, `UploadDelta`, `TooLarge`, `InvalidManifest` |
| `cas_publish`: `put_manifest`, `put_pointer` and its outcomes | `PutManifest`, `StoreCas`, `CasWon`, `CasLost`, `BackendError` |
| the serving lease (`protect`) | `LeaseLost` |
| the event, the answer, the end of a node | `PublishRefState`, `Respond`, `Crash` |
| `info_refs` for a clone, `hydrate_for_read`, `upload_pack` | `InfoRefs`, `LoadPointer`, `UploadPack` |
| `handle_git_repo_announcement`, `reserve_repo_name` | `ReserveName`, `ReadHolder` |
| `ensure_manifest_pointer`, `seed_manifest_pointer` | `EnsurePointer`, `SeedManifest`, `StoreSeed`, `SeedWon`, `SeedLost`, `SeedError` |
| rollback, `emit_initial_ref_state`, the end of a node | `ReleaseName`, `EmitInitial`, `AnnounceCrash` |

Abstractions.

* One repository and one owner.  Keys contain the community, the owner and the
  name, so repositories share only content-addressed objects, which never change.
* A pack is the set of its objects, and `Reach` is the object graph.  The pack
  list is a set: the code sorts it and removes repetitions.  A digest is a position in `manifests`, which holds each content once;
  that is injectivity of the hash and no more.
* The ETag is a function of the pointer's body.  A store that gives a fresh one to
  every write accepts less.
* Bytes and object limits, and what the policy decides, are free choices; the
  number of packs is exact.
* Git itself (receive-pack, pack-objects, upload-pack) is outside the repository.
  A ref's command is executed if the ref has the old value in the workspace; a
  push is told `ok` or `ng` for each ref.  A request for objects that the refs do
  not reach any more is refused (`notOurRef`).
* Packs stored by a failed compaction or capture are left out: nobody names them.
  Nothing is deleted from the store: garbage collection is future work in
  `docs/git-on-object-storage.md`, and the deletion of a whole community is not part
  of this model.
* The newest ref-state event is the one inserted last.

### Runs

All use `MCGit`.  A push, or an announcement, is one request, so an instance stops
when its requests are over and `CHECK_DEADLOCK` is `FALSE`.  Pushers and announcers
are symmetric.

| Run | Instance | Result |
|---|---|---|
| `git_push` | 2 pushers, 1 clone, 2 branches, 3 objects, `MaxPacks = CompactAt = 1` | `Closed`, `HeadPublished`, `ReadersComplete`, `Linear`, `ConflictHasWinner`, `RefinesRefStore` hold |
| `git_announce` | 2 announcers, 1 pusher, 1 clone | `AcceptedHasPointer`, `EventsCommitted` hold |

The objects are a commit, its child and an unrelated one, so that a push can
fast-forward, force and delete.  Two branches let HEAD's branch disappear while
another stays and let one push be partly stale; a limit of one pack makes the
second push compact, fall back or be refused; two pushes suffice for a race, and
a late write of one may still meet the pointer the other left.  The theorems of
section 8 hold without these bounds.

Disagreements the model shows, without a run of their own (the first two have a
property at the end of `GitPublish`):

* `ToldIsDurable` fails: two branches were advertised, one moves before the push is
  hydrated; receive-pack updates the other and says `ok`, then the relay discards
  the workspace because of the `ng`.  The client believes the branch was pushed.
* `AcceptedStaysReserved` fails: attempt 1 inserts the row and its store write fails;
  attempt 2 finds the row, creates the pointer and succeeds; attempt 1 deletes the
  row.
* The store applies a conditional write and its answer is lost: a 500, of which
  `transport.rs` (line 1951) says that "no pointer was written".  The refinement
  says what is true: such a client is told nothing definite.
* A push without changes is published: the new manifest has a new parent, hence a
  new digest.  The design document says that it never reaches the conditional
  write and that no event is sent for it.
* `ensure_manifest_pointer` reads no pointer, a push creates it, and the strict
  seeding refuses a pointer that is not the empty manifest's; the comment says that
  this case is tolerated.
* A pointer is seeded, a push and its event follow, then the empty ref-state event
  of the announcement, which hides the pushed refs.  Two pushes may likewise
  publish their events in the other order than they committed, so that the newest
  event shows older refs until the next push.

No fairness is assumed: every property is a safety property.  A push ends because
its steps have timeouts, and no promise of the code is about when.

## 5. The deletion model

### Modules

| Module | Content |
|---|---|
| `TenantLifecycle` | what deleting a tenant promises: data is written only while it is open or closing and destroyed only when it is sealed, it is reopened only with all it had, and one that is gone has nothing and stays gone |
| `CommunityDeletion` | the request, its executors, the operator, and the relay nodes that go on serving the community |
| `MCDeletion` | finite instance for TLC |
| `DeletionProofs` | the inductive invariant, the safety theorems, and `CommunityDeletion` implements `TenantLifecycle` |

### State and actions

`community` is the community's row (state, fence generation, `archived`), `req` its
latest deletion request, `chunks` the rows of `community_deletion_manifest_keys`,
`rows` whether the community has rows in Postgres, `store` the keys it has in the
object store and in Redis.  `ex[e]` is an executor process with what it read;
`wr[w]`, `lease[w]` and `wire[w]` a request on a relay node, its serving lease and
its external write in flight; `dels` the bulk deletes in flight.

Executors share the request: a lease that is not renewed passes to another while
its holder is merely slow, so every step of a stage may be taken by a process that
has lost its lease and finds out at its next check.

| Code | Actions |
|---|---|
| serving leases: acquire, `protect`, `finish`, drop, expiry | `AcquireServingWrite`, `Protect`, `ProtectDone`, `Finish`, `DropGuard`, `ExpireServingLease` |
| external writes | `Land`, `LoseWrite` |
| transactions of relay nodes | `GuardTransaction`, `CommitTransaction`, `GuardWithLease`, `CommitWithLease`, `SetArchived` |
| unleased Redis keys | `TouchCache`, `ExpireCache` |
| the operator's commands | `Submit`, `FreezeInventory`, `Approve`, `Abort`, `Unblock`, `BlockPreclaimSetup` |
| claim, heartbeat, retry, block, stop, crash | `Claim`, `ClaimCatalogInvalid`, `StartStage`, `Heartbeat`, `FailStage`, `StageFails`, `Stop`, `Exit`, `Crash`, `ExpireLease`, `LapseLease` |
| fencing and draining | `BeginQuiescing`, `FenceCommunity`, `DrainCheck` |
| the object list | `ClearCheck`, `ClearChunks`, `ListObjects`, `AppendCheck`, `AppendChunk`, `AppendConflict`, `FreezeManifest`, `FreezeMismatch`, `MarkDrained` |
| destruction | `NextChunk`, `SendDelete`, `LandDelete`, `LoseDelete`, `DeleteDone`, `StampChunk`, `MarkBindingsRemoved`, `PurgePostgres`, `RedisCheck`, `PurgeRedis`, `MarkCachePurged` |
| verification | `VerifyRows`, `VerifyStore`, `VerifyCache`, `KeyLeft`, `MarkLogicallyVerified`, `MarkRetentionPending` |

Abstractions.

* A database transaction is one step, except where a lock it does not take
  leaves a gap.  Row writers hold the community's advisory lock, shared, from
  their check of its state to their commit.  `clear_manifest_key_chunks` and
  `append_manifest_key_chunk` check the lease in one statement and change the table
  in another; only the table's trigger stands between (`ClearMayDelete`,
  `AppendMayInsert`).
* A lease is live or not; how long it takes to expire and how long a retry waits
  is left to interleaving and fairness.
* A chunk is one key, and a digest is the set it is the digest of.
* Catalog validation, inventory drift and unreachable services are free failures,
  transient or permanent.
* Branches no state reaches are left out: `mark_drained` with active leases, rows
  left at verification, the stamp of a chunk that is stamped.

### Runs

| Run | Instance | Result |
|---|---|---|
| `del_fence` | 2 executors, 1 writer, an object and a cache key, 1 fault | `FenceExcludes`, `RowsStayPurged`, `FrozenChunksExact`, `RemovedStaysRemoved`, `VerifiedIsEmpty`, `RefinesLifecycle` hold |
| `del_live` | 1 executor, 1 writer, an object, 2 requests, 1 fault, fairness | `EventuallySettled`, `ArchivedRestored` hold |

Two executors are needed for a takeover, and with one fault either may be overtaken
anywhere; a second object would only repeat the chunk loop.  `MaxRetries = 2`
makes both a retry and a block happen.  Two requests let an aborted deletion be
followed by another.  `del_live` has no cache key: keys come and go on their own, and
the stages that deal with them are in `del_fence`.

Two kinds of write reach the store without a lease, in every state of the community
and in every run: an external write that is on the wire when its lease expires or its
guard is dropped (`Land`), and the presence and replay keys in Redis, which are set and
expire without one (`TouchCache`, `ExpireCache`).  `late` is a history variable: the keys
such a write has put there behind the fence.

The refinement: a community is `open`, `closing` (quiescing) or `sealed` (fenced or
tombstone) by its state, `gone` when the request is at `retention_pending`; its data
are its rows and its keys, without those in `late`; its destruction has begun when its
stage is `drained` or later.  Cache keys are volatile: the lifecycle lets them expire
at any time.  What landed behind the fence is nobody's until an abort, which reopens the
tenant with all it had and with whatever has landed meanwhile (`Reopen`).

One disagreement, without a run of its own: `execute_stage` says that "the post-drain
listing is the final storage state, so no tenant key can appear after the freeze"
(`buzz-deletion/src/lib.rs`, line 1108).  `FreezeIsFinal` fails: a write that is on the wire when its guard is dropped may land after the
freeze.  Its key is in no chunk and is never deleted; `verify_storage_absence` finds
it, fails, and the request ends blocked.  The code fails closed: `VerifiedIsEmpty`
holds, for all that is written before the verification looks.

Fairness (`LiveSpec`): a run that is under way, transactions and the store's answers go
on, a lease that is not renewed lapses, and an exclusive request for the advisory lock
is served, since Postgres queues lock requests in order.  Nothing is assumed of the
requests that reach the relay nodes, nor of the operator.  `Claim`, the start of a run,
is not fair: `run_loop` returns when a stage fails, when a `run` ends or when nothing can
be claimed (`buzz-deletion/src/lib.rs`, lines 822 to 835), and no daemon or job of
the repository starts it again.  `EventuallySettled` therefore has two parts: every run
ends, whatever writers, operators and other runs do; and if the operator runs the command again
whenever the request can be claimed (`Reruns`), a runnable request is finished, aborted
or blocked.  Without `Reruns` the second part is false, as it is for the code: after one
failed stage the request waits for the operator.

## 6. The push model

### Modules

| Module | Content |
|---|---|
| `PushGateway` | the gateway's durable authority and its delivery handler |
| `PushDelivery` | leases, the push gate, matchers and delivery workers; extends `PushGateway` and composes the two |
| `MCPush` | finite instance for TLC |
| `PushProofs` | the inductive invariant and the safety theorems of the composition |

### State and actions

A device delegates to the relay at the gateway and gets a grant
(`installation`, `delegation`, `grants`), which it puts into a lease it submits to the
relay (`leases`).  The insertion of an event queues a match job if some lease is
eligible (`events`, `jobs`); a matcher reads the leases and enqueues wakes (`outbox`);
a delivery worker claims wakes, revalidates each and posts it; the gateway
admits a request once (`reserved`, `quota`), sends it to APNs and disposes of the
reservation in a task that outlives the request (`tasks`).

| Code | Actions |
|---|---|
| `upsert_delegation`, `rotate_endpoint`, the revocations | `DeviceStep` |
| the trigger and the commit of an event's insertion | `InsertEvent`, `CommitEvent`, `AgeEvent`, `DeleteEvent` |
| `accept_lease_event` with its backfill | `AcceptLease`, `LeaseError`, `ExpireLease` |
| `run_matcher` | `ClaimMatches`, `LoadEvents`, `LoadContext`, `ContextFails`, `EnqueueWakes`, `SettleMatches`, `MatcherQuits`, `ReapMatches`, `ExpireMatchClaim` |
| `run_delivery_worker`, `deliver_one` | `ClaimWakes`, `StartWake`, `CheckMember`, `FinalRevalidate`, `ServingRefused`, `PostWake`, `HandleReply`, `Timeout`, `FailGone`, `AbandonWake`, `DelivererCrash`, `ExpireWakeClaim`, `LeaveChannel` |
| the gateway's `deliver` | `Admit`, `Reject`, `Unavailable`, `Send`, `Finish`, `FinishUnstored`, `GatewayDies` |
| the reaper, a new quota window | `ReapExpired`, `QuotaWindow` |

Abstractions.

* One community, one author of leases and one channel; an installation is a lease
  address.  Filters and subscription classes match or do not at once; the model's
  events are those that match.
* A statement or transaction is one action, except the insertion of an event,
  which holds the push-gate lock from its trigger to its commit.  The settling
  statements of one batch are one step.
* A claim id is drawn per claim and a worker uses only its last one, so a claim is
  named by its worker.
* Clocks are actions that end a lease, a claim, an event's backfill window or its
  usefulness; `next_attempt_at` is left to fairness.
* A grant is its installation, epoch and generation; sealing, signatures and App
  Attest are left out.

### Runs

Bounds: `MaxFaults` (crashes, database errors, claims outlived), `MaxChanges`
(expiries, deletions, leaving the channel, revocations, rotations), `MaxEpoch`,
`MaxGrants`, and `Versions`, the pairs of `created_at` and generation that a device
signs.

| Run | Instance | Result |
|---|---|---|
| `push_wake` | 1 device with two epochs, 1 event, 1 matcher, 2 delivery workers, a lease and its replacement, 1 fault, 1 change | `NoLostWake`, `ClaimsExclusive`, `OneSendPerRequest`, `NothingAfterAccepted`, `DisabledWasInvalid`, `NoStaleSend` hold |
| `push_live` | 1 device, 1 worker of each kind, a lease, its replacement and a newer event of the old generation, 1 fault, 1 change, fairness | `LeasesOnlyReplaced`, `JobsDrain`, `WakesSettle` hold |
| `push_expired` | a lease expires | violates `ExpiredNeverBlocks` |

Two delivery workers let one come back to a wake the other has claimed; two
attempts let a wake be retried after a lost answer and then give up; a second
matcher is not needed for a job to be taken over, since a matcher that lost its
claim in a crash claims again.

What the violation shows: before its quota check `accept_lease_event` sets
`active = false` on the author's expired leases and leaves their endpoint columns,
which the table's `CHECK` forbids for an inactive row.  The statement fails and
with it every later submission of the author, renewals and revocations included.

More that the model shows, without a run of its own:

* The comment on `backfill_push_match_jobs` says that after its commit "every event is
  either backfilled here or ordered after the activation and enqueued by the
  trigger".  A matcher reads the leases, a lease is replaced, the backfill finds the event's
  job present and leaves it, and the matcher enqueues for the old generation and
  deletes the job.  The event is woken under neither generation.  `NoLostWake` says
  what is true: the lease an event committed under keeps its wake as long as that
  generation lasts.
* A renewal with the same grant strands the wakes of the old generation: they fail
  revalidation, and a new match has the same key and is absorbed by `ON CONFLICT`.
* A 404 on a second attempt is taken for "already admitted" and recorded as
  delivered, also when it is a refusal for quota or for a revoked grant.
* `claim_due_wakes` counts an attempt but does not look at the count: a wake whose
  workers keep dying is claimed again until it expires, beyond `MAX_ATTEMPTS`.

Fairness (`LiveSpec`): matchers and delivery workers run on, the gateway's answer or
the relay's timeout ends a request, insertions commit, the reaper runs, and a
claim whose worker is gone expires.  Nothing is assumed of devices, of APNs or of
the gateway's tasks.

## 7. The huddle model

### Modules

| Module | Content |
|---|---|
| `HuddleOwner` | one huddle: its lease in Redis, the pods that serve it, their clients and the streams between pods |
| `MCHuddle` | finite instance for TLC |
| `HuddleProofs` | types, the drain, and leases without faults |

### State and actions

`lease` and `generation` are the two Redis keys of the session directory.  A generation is
handed out once, so it names a lease, the renewer task started with it and the three
cancellation tokens of its registry entry (`ren[g]`).  `pod[p]` has the pod's registry
entry for this huddle, the progress of its drain and the room in its map; `rooms` the
peers, the ended flag and the version pin of a room, which may live on in a handler after
it left the map.  `conn[c]` is the handler of a client's WebSocket, `stream[c]` the
HuddleControl stream it opens when another pod owns the huddle.

| Code | Actions |
|---|---|
| `resolve_join`, `resolve_join_owner_ready` and the directory's scripts | `Join`, `LookUp`, `Acquire`, `AcquireReplyLost`, `OwnerReady`, `ValidateOwner`, `ResolveError` |
| the handler up to admission | `EnterRoom`, `CheckChannel`, `CheckError`, `Refuse`, `Admit` |
| `attach_signals`, and the arm that reuses an entry | `Attach`, `Insert`, `Recheck`, `Signals` |
| the renewer, the lease's TTL | `RenewLost`, `RenewError`, `RenewerCancelled`, `Release`, `ReleaseError`, `Expire` |
| the drain watcher, `drain_all`, `drain` | `BeginDrain`, `DrainList`, `DrainRoom` |
| `dial_remote_owner` and the handler after it | `Dial`, `Registered`, `MirrorRefused`, `DialFails` |
| `accept_inbound`, `serve_control_loop`, `register_remote_peer` | `Accept`, `Register`, `Fence`, `RegisterPeer`, `RegisterRefused`, `LoopCloses`, `StreamError`, `RosterSendFails` |
| the end of a connection | `Leave`, `TornDown`, `RemovePeer`, `ArchiveCheck`, `Archive`, `ArchiveFails`, `CleanUp`, `RegistryRelease` |
| the end of a process | `Crash` |

Abstractions.

* One huddle.  A connection is used once; a client that rejoins is another one.  A pod
  that crashed comes back under another runtime id, so it stays down.
* A Redis script is one step; a synchronous call is one step too, except where another
  thread can look between its accesses: the insert and the second check of
  `attach_signals`, the two lookups of the reuse arm, the three parts of `drain_all`.
* A room refuses a peer when it has ended, or freely once it has admitted somebody (full,
  or another protocol version).
* A lease that a live renewer or an attaching handler holds expires only by a fault,
  since it takes three missed renewals; any other expires at any time.
* The archived check of `ensure_membership` and the draining check are one step; the
  later re-check covers what happens between.
* `archive_channel` is two statements outside a transaction, hence two steps.
* A stream that ends in order delivers what was sent before; one that is broken, by a
  fault or with its pod, may lose the owner's reply with it (`DialFails`).

### Run

| Run | Instance | Result |
|---|---|---|
| `huddle` | 2 pods, 3 connections, `MaxAttempts = 2`, 1 fault, 1 drain, fairness | `DrainComplete`, `NoLossWithoutFault`, `JoinsSettle` hold |

Two pods let the owner and the client's pod differ; two connections suffice for a race
for the lease, for a join that reuses an entry while it is released, and for a remote
client of an owner that drains.  The third lets a room that is not the owner's refuse a
client the owner has taken; it comes only where nothing has gone wrong and the others are
in or gone, and nothing goes wrong afterwards (`MaxBusy`).  `MaxRooms = 2` is a room and its
successor; a generation can be drawn by each connection at most once (`MaxGen`).
Connections and pods are alike; instead of a symmetry set, which liveness does not allow,
connections are numbered by arrival and the first one's pod is `Home`.  With both pods
draining (`MaxDrains = 2`) the same properties hold; that takes four minutes
(four workers).

Fairness (`LiveSpec`): handlers, control loops, renewers and a drain that has begun go on,
and a lease nobody holds expires.  Nothing is assumed of clients, drains or faults.

More that the model shows, without a run of its own:

* A drain closes the owner's local clients "so clients rejoin" (`mesh_boot.rs`, line 481;
  the handler logs "closing local client for rejoin").  They leave by the ordinary way: the
  last one to be removed ends the room and archives the huddle's channel, which refuses
  every later join.  The same happens when a lease is lost.
* The handler says of a local client without a loss signal that it "cannot occur".
  `resolve_join_owner_ready` sees the entry; before the client is admitted and asks for
  the signals the entry is drained, or released by a last leaver whose archiving comes
  after the client's check.  It then stays in a room whose lease is gone.
* "Exactly one release fires" when a room empties holds only if the last to leave is a
  local client whose archiving succeeds.  If it fails, if the last one is a remote client
  of the owner, or if a join that is refused removes the empty room first, the entry stays
  and its renewer keeps the lease.  Later joins find it and use it.
* "Drop every peer this stream registered, regardless of how the loop ended"
  (`join.rs`, line 1347) does not hold for `RosterSendFails`: when a roster delta or
  a resync cannot be sent (lines 1187 to 1190 and 1317 to 1322), `?` returns from
  `serve_control_loop` past its teardown.  The peer stays in the owner's room, which then
  does not empty when the others leave: the huddle is not ended and its lease is kept.
* A handler whose `SELECT` found the channel open is told that it archived it although
  another handler's `UPDATE` came first; both clean up, which is harmless.
* Two handlers that attach at once may both find no entry; the second insert replaces the
  first, whose renewer nobody can cancel any more.  It takes a lease that was lost
  between, hence a fault.
* A control stream accepted before its owner has attached has no loss or drain signal.
  The stream is then closed only when the room ends or its pod stops.

## 8. Proofs

### The harness

All proofs hold for any sets of agents, channels and events and any bounds, from
`QueueAssumption` and `HarnessAssumption` (constants have their types, `NoChannel`
is not a channel, 0 is not an event).  No assumption limits their size.

* `AcpHarnessProofs` begins with one lemma per queue operator: it maps a `QueueState`
  to a `QueueState` and says what happens to `inFlight` and `overdue`.  The recurring
  facts about sequences (a trimmed, filtered or sorted sequence of events is a
  sequence of events) are separate lemmas.
* `TypeCorrect` (`AcpHarnessProofs`): `Spec => []TypeOK`.  `TypeOK` alone is not
  inductive: a result is requeued to the channel of its task, so the proof needs
  that a task without a channel never carries events or a kept batch, and that it is
  never signalled or steered.  `TypeInv == TypeOK /\ HeartbeatQuiet` is inductive.
* `SlotsExclusive`, `HeartbeatsExact` (`AcpSafetyProofs`): from
  `SlotInv == TypeInv /\ SlotExclusive /\ Asleep /\ HeartbeatExact`.  `Asleep` says
  that a pool that is not ready has no idle agent, no task and no respawn; without
  it a wake could fill an occupied slot.
* `TurnsExclusive` and `InFlightChannelsExact`: if no turn outlives its deadline
  (`MaxHangs = 0`), then `OneTurnPerChannel` and `InFlightExact`.  The invariant is
  `TurnInv == SlotInv /\ q.overdue = {} /\ InFlightExact /\ OneTurnPerChannel`: each of
  the two needs the other, since a flush trusts the set and the set is cleared by
  channel.  The assumption is necessary, as section 3 tells.
* `SessionsFresh`: `NoStaleSessions`, for which one has to add that a pool that is not
  ready has no sessions; a wake relies on it.
* `EventInvariant` (`AcpEventProofs`) is about where events are.  Its parts:
  `HoldInv`, no list has an event twice and no two lists, of channels or of tasks,
  have one in common; `KnownInv`, nothing is held or finished that was not received;
  `BatchInv`, an empty slot holds nothing and what a batch took from a cancelled one
  is on the record as merged; `SteersEnd` and `SteerOnce`, a steer is outstanding in one
  place, at the task or as its answer, and ends with the task's read loop;
  `PunctualInv`, while no turn has outlived its deadline the event of an outstanding
  steer is withheld or finished, so that its answer cannot find it elsewhere; and
  three of the properties themselves, `TriggersConserved`, `WithheldHasAck` and
  `NoResurrection`, which need each other.
* Its proof does not go through the handlers ten times.  A first part says of every
  queue operator which events it moves where; each action is then shown to be of
  one of three shapes (`GivesUp`, `MovesWithin(c)`, `MovesBetween(c, a)`: no list gains
  an event; only channel `c` gains events, new ones; channel `c` and the task of slot
  `a` exchange events), and a lemma for each shape gives `HoldInv`, `KnownInv` and
  `NoResurrection`.  The steers have shapes of their own.
* `TriggersKept`, `FinishedStaysFinished`, `WithheldAnswered` and `HeldInOnePlace` follow;
  they hold for every handling mode and every control, with turns that outlive their
  deadline (`NoResurrection` speaks of behaviours without one, see section 3).
* `NothingLost`: `Conserved`, if `Handling = "Queue"` and no model is switched, which is
  the instance of `acp_queue`.  Then no batch is cancelled in order to be merged
  (`PlainInv`), so that nothing is ever merged and `TriggersConserved` says it all.  The
  assumption is necessary: `acp_merge_loss` refutes `Conserved` without it.

### Git publication

The proofs hold for any sets of requests, refs and objects and any limits, from
`GitAssumption`: refs are positive numbers, main is the least branch, there are
finitely many objects and each reaches itself, `1 <= CompactAt <= MaxPacks`.
The object graph is otherwise arbitrary; that reachability is transitive is not
needed.

* `TypeOK /\ IInv` is inductive (`Inductive`), where `IInv` is `StoreInv`, and
  `PushInv(p)` and `AnnInv(a)` for every request.  `StoreInv` is `Closed` and `Linear`
  with their reason: a parent has a smaller digest than its child and the chain
  ascends, so that no digest can come back to the pointer.  `PushInv` carries what
  was established when a push was not yet published: its parent is not newer than
  the pointer, its workspace has exactly the changes its client asked for
  (`Executed`), its manifest is complete and derived from its parent (`Derived`), a
  write that won is in the chain, and one that lost has a parent the pointer has
  left behind.  `AnnInv` says that a seed's write was of the empty manifest and that
  a decided one found or left a pointer.
* `Grow` is the argument shared by all steps: the store only grows, so what
  an old manifest or another request relies on stays.  Every action has one step
  per part of the invariant it disturbs.
* `ManifestsClosed`, `HistoryLinear`, `ConflictsReal`, `AnnouncedExists`,
  `ClonesComplete`, `EventsFollowCommits`, `PackListsBounded` and `HeadsPublished`
  follow.  Clones and events are inductive relative to `IInv`; the pack limit and
  HEAD have a small invariant of their own (`SoundInv`: a composed manifest has both
  before it is stored).
* `Refinement`: `Spec => RefinesRefStore`.  The refs are those of the manifest the
  pointer names, and a push has been applied when the store decided for it
  (`put = "won"`), which may be after its answer.  The step `StoreCas` maps to
  `Apply`, the steps that answer to `Answer`, `Advertise` to `Ask`, and the others
  stutter; a seed replaces an absent pointer by no refs.  That a won write changes
  only the refs its client named, from the values the client saw, is the part of
  `PushInv` about `ws`.

### Community deletion

The proofs hold for any executors, relay requests, objects and cache keys and any
numbers of requests, retries and faults, from `DeletionAssumption` (bounds have their
types, `None` is none of the things it stands for, an object is not a cache key).

* `DeletionInvariant`: the invariant `Inv` is `TypeOK` with
  `StageInv` (the state of the community, from the stage of its request),
  `FenceExcludes`, `ArchiveInv` (what `begin_quiescing` remembers is the flag the owners
  last set), `RowsInv`, `FrozenInv` (nothing is frozen before the fence), `ChunkInv` and
  `ExecutorInv`.  The last is the heart: an executor may have lost its
  lease long ago, so what it has found must be of a kind that stays true, or its
  next write must be refused.  `Found(e)` says which is which: destruction does not end,
  a key that was deleted does not come back under a lease, a delete that is
  answered has landed.  `Kept`, the keys that did not get into the store behind the fence
  without a lease, is what all of this is about; the others are the verification's
  business.
* One lemma per kind of step (`SameRequest`: the request is left alone; `Forward`: it
  goes on and the store only shrinks) carries what executors have found over the
  steps of others.
* `WritersExcluded`, `RowsPurged`, `FrozenListKept`, `ObjectsRemoved`, `FlagRestored` and
  `NothingLeft` follow.
* `DeletionImplementsLifecycle`: `Spec => RefinesLifecycle`, with the mapping of section 5 and
  no further assumption: writes that land behind the fence and the unleased cache keys
  are steps of `Spec`.  It needs one more invariant, `Strays`: an open or quiescing
  community has nothing in `late`, and a delete is on the wire only when
  destruction has begun.

### Push

The proofs hold for any devices, events and workers and any bounds, from
`GatewayAssumption` and `DeliveryAssumption` (types; `None` is none of the things it
stands for; a worker is a matcher or a delivery worker, not both).

* `PushInvariant`: `Inv` is `TypeOK` with
  `GateInv` (while an insertion that found no eligible lease is under way there is
  none: that is what the push gate's lock is for), `LeaseInv` (an endpoint has one
  active lease; a wake of a lease's generation has its grant), `MatchInv` (a matcher's
  context has every lease its events are owed to; once it has enqueued, they have
  their wakes), `NoLostWake`, `JobInv` and `WakeInv` (a claim that has not run out is
  its worker's), `DelivererInv`, `DisabledInv`, `GrantInv` and `SendInv` (a request id stays
  reserved as long as sending under it again could do harm).
* `WakesNotLost`, `ClaimsKept`, `OneSend`, `ConfirmedOnce` and `DisabledJustly` follow, and from the
  same invariant the action properties `StaleNotSent` and `LeasesReplaced`.
* The attempt corrected the model and one property.  `SendInv` was not preserved by
  the deletion of an event: the model forgot that the hour of its wakes had passed,
  which the code reads from the wake's row and the request, so that a request id
  that had been reaped looked usable again.  A deleted event now keeps its hour
  (`deleted`, `forgotten`).  And `NoStaleSend` compared the generations of grants of
  different devices: a lease may be given the grant of another installation, whose
  generations are counted separately, so the property now compares grants of the
  same device.

### Huddles

The proofs hold for any pods, connections, rooms and bounds, from `BoundsAssumption`.

* `HuddleTypes`: types, and `Located`: whoever is under way has a pod, a room and a
  generation to be under way with.
* `DrainCompletes`: `DrainComplete` is not inductive, since two joins may be between
  their insert and their second check and only one of them finds its own generation in
  the entry.  `DrainInv` is: once `drain_all` has listed the entries, one that it will not
  remove belongs to a join whose second check is to come.
* `NoSpuriousLoss`: while no fault has happened (`FaultFree`), a lease that somebody keeps
  is the one in Redis; somebody is a renewer that runs or is to release it, or the
  join that minted it and has not attached yet (`LossInv`).

### Only model-checked

Liveness: `EventuallySettled` (harness and deletion), `JobsDrain`, `WakesSettle` and
`JoinsSettle`; fairness and `ENABLED` are out of the prover's reach.  What the violation
runs show is TLC's alone.  `TypeOK` of each model and `PackCap` are proved and have
no run.

## 9. Not modelled

In the harness: the shutdown command, signals and the inactivity reaper (they end
the loop), prompt texts and thread scopes, delivery watermarks, usage metrics,
observer frames, the relay client's reconnects.  In git: authentication, the rules
of the policy hook, streaming, process and disk limits, the pack cache and index
sidecars, other owners of a name and the quota count.  In deletion: several
communities, catalog and inventory contents, the taxonomy sweep, configuration and
output.  In push: subscription filters, App Attest, sealing, expiry of grants and
installations, several authors and communities, pruning.  In huddles: peer indices,
rosters, media and its generation floor, participant events, the mesh off.  Elsewhere: the parts of the
plan not done yet, and what `PROJECT.json` lists as `not_modelled` for good: user
interfaces, parsing, pure I/O, test clients.
