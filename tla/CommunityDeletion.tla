------------------------- MODULE CommunityDeletion --------------------------
(***************************************************************************)
(* Whole-community deletion (crates/buzz-deletion, buzz-db/src/deletion.rs,*)
(* migrations 0029 and 0030) against the relay nodes that go on serving    *)
(* the community.                                                          *)
(*                                                                         *)
(* One community is modelled, with the deletion request that is its last.  *)
(* Executors are runs of `buzz-admin deletion run|drain`; several may work *)
(* on one request, since a lease that is not renewed for 60 s may be       *)
(* claimed by another while its holder is merely slow.  Writers are        *)
(* requests on the relay nodes.  Those that write to the object store or   *)
(* to Redis hold a serving lease while they do; those that only write      *)
(* Postgres rows hold the community's advisory lock, shared, from their    *)
(* check of the community's state to their commit.                         *)
(*                                                                         *)
(* A database transaction is one step, except where a lock it does not     *)
(* take leaves a gap: row writers, and the two statements of               *)
(* clear_manifest_key_chunks and append_manifest_key_chunk.  A request to  *)
(* the object store is in flight until it lands, whatever has become of    *)
(* its sender.  A lease row is either live or useless, so an expired or    *)
(* reaped serving lease is no lease at all.                                *)
(***************************************************************************)
EXTENDS Integers, FiniteSets

CONSTANTS
    Executors,   \* executor ids
    Writers,     \* requests of the relay nodes, one at a time each
    Objects,     \* keys under the community's prefixes in the object store
    CacheKeys,   \* Redis keys under buzz:{community}:
    None,
    MaxRetries,  \* consecutive transient failures that block (8)
    MaxRequests, \* bound: deletion requests
    MaxFaults    \* bound: executor crashes, expired leases, failed stages, ...

ASSUME DeletionAssumption ==
    /\ MaxRetries \in Nat \ {0} /\ MaxRequests \in Nat /\ MaxFaults \in Nat
    /\ None \notin Executors \cup Objects \cup CacheKeys \cup Nat
    /\ Objects \cap CacheKeys = {}

VARIABLES
    community,   \* its row: state, fence generation, archived
    req,         \* its latest deletion request
    chunks,      \* community_deletion_manifest_keys
    ex,          \* executors
    wr,          \* writers' program counters
    lease,       \* the fence generation of a writer's live serving lease
    wire,        \* the key a writer's external operation in flight writes
    dels,        \* deletes in flight, each with its executor's generation
    store,       \* keys in the object store and in Redis
    rows,        \* whether the community has rows in Postgres
    faults,      \* bound: faults so far
    wanted,      \* history: what the community's owners last set archived to
    late,        \* history: keys put there behind the fence without a lease
    removed      \* history: object deletes that were sent

dbVars == <<community, req, chunks, rows, wanted>>
writerVars == <<wr, lease, wire>>
storeVars == <<dels, store, late, removed>>
vars == <<dbVars, ex, writerVars, storeVars, faults>>

Stages == {"none", "submitted", "inventoried", "approved", "fenced", "drained",
           "bindings_removed", "postgres_purged", "cache_purged",
           "logically_verified", "retention_pending", "aborted"}

\* DeletionStage::runnable.
Runnable == Stages \ {"none", "submitted", "inventoried", "retention_pending",
                      "aborted"}

\* The stages object deletion has begun in, or may have.
Destructive == {"drained", "bindings_removed", "postgres_purged", "cache_purged",
                "logically_verified", "retention_pending"}

Chunk == [no: Nat, key: Objects, deleted: BOOLEAN]

NewRequest == [rid |-> 0, stage |-> "none", owner |-> None, lgen |-> 0,
               live |-> FALSE, blocked |-> FALSE, retries |-> 0,
               retryStage |-> "none", fgen |-> 0, quiesced |-> FALSE,
               pre |-> FALSE, manifest |-> None]

IdleExecutor == [pc |-> "idle", rid |-> 0, gen |-> 0, stage |-> "none",
                 fence |-> 0, frozen |-> FALSE, listed |-> {}, todo |-> {},
                 no |-> 0, chunk |-> None]

Init ==
    /\ community = [state |-> "active", gen |-> 0, archived |-> FALSE]
    /\ req = NewRequest
    /\ chunks = {}
    /\ ex = [e \in Executors |-> IdleExecutor]
    /\ wr = [w \in Writers |-> "idle"]
    /\ lease = [w \in Writers |-> None]
    /\ wire = [w \in Writers |-> None]
    /\ dels = {}
    /\ store = {}
    /\ rows = FALSE
    /\ faults = 0
    /\ wanted = FALSE
    /\ late = {}
    /\ removed = {}

Fault ==
    /\ faults < MaxFaults
    /\ faults' = faults + 1

-----------------------------------------------------------------------------
(***************************************************************************)
(* Relay nodes.                                                            *)
(***************************************************************************)
\* Mutant: guard_transaction checks the state without the lock.
OpenTxUnlocked == {w \in Writers : wr[w] = "leased"}

\* Writers inside a transaction that holds the advisory lock, shared.
OpenTx == {w \in Writers : wr[w] \in {"plain", "leased"}}

\* Mutant: leases are not counted.
AnyServingLease == TRUE

\* serving_writes_drained, and the same count in fence, mark_drained and abort.
NoServingLease == \A w \in Writers : lease[w] = None

\* verify_serving_write_lease.
ServingLeaseValid(w) ==
    /\ lease[w] # None
    /\ community.state \in {"active", "quiescing"}
    /\ lease[w] = community.gen

\* acquire_serving_write_lease.  A writer whose earlier operation is still in
\* flight stands for a finished request and takes no new one.
AcquireServingWrite(w) ==
    /\ wr[w] = "idle" /\ wire[w] = None
    /\ community.state = "active"
    /\ wr' = [wr EXCEPT ![w] = "held"]
    /\ lease' = [lease EXCEPT ![w] = community.gen]
    /\ UNCHANGED <<dbVars, ex, wire, storeVars, faults>>

\* ServingWriteGuard::protect up to the start of the operation.
Protect(w, k) ==
    /\ wr[w] = "held"
    /\ ServingLeaseValid(w)
    /\ wr' = [wr EXCEPT ![w] = "sent"]
    /\ wire' = [wire EXCEPT ![w] = k]
    /\ UNCHANGED <<dbVars, ex, lease, storeVars, faults>>

\* A key is written.  While the community takes writes it is the community's data;
\* behind the fence, so is what a lease covers and what was there before.
Put(k, leased) ==
    /\ store' = store \cup {k}
    /\ late' = IF \/ leased \/ k \in store
                 \/ community.state \in {"active", "quiescing"}
               THEN late ELSE late \cup {k}

\* The store applies the write: PutObject, SET.  Nothing in the store knows of the
\* lease, which may have expired or been dropped while the write was on the wire.
Land(w) ==
    /\ wire[w] # None
    /\ Put(wire[w], lease[w] # None)
    /\ wire' = [wire EXCEPT ![w] = None]
    /\ UNCHANGED <<dbVars, ex, wr, lease, dels, removed, faults>>

\* It never will: the connection failed, or the operation was dropped in time.
LoseWrite(w) ==
    /\ wire[w] # None
    /\ wire' = [wire EXCEPT ![w] = None]
    /\ UNCHANGED <<dbVars, ex, wr, lease, storeVars, faults>>

\* protect's second verify, once the operation has answered.
ProtectDone(w) ==
    /\ wr[w] = "sent" /\ wire[w] = None
    /\ ServingLeaseValid(w)
    /\ wr' = [wr EXCEPT ![w] = "answered"]
    /\ UNCHANGED <<dbVars, ex, lease, wire, storeVars, faults>>

\* guard_transaction_with_serving_lease and the commit after it.
GuardWithLease(w) ==
    /\ wr[w] = "answered"
    /\ ServingLeaseValid(w)
    /\ wr' = [wr EXCEPT ![w] = "leased"]
    /\ UNCHANGED <<dbVars, ex, lease, wire, storeVars, faults>>

CommitWithLease(w) ==
    /\ wr[w] = "leased"
    /\ wr' = [wr EXCEPT ![w] = "written"]
    /\ rows' = TRUE
    /\ UNCHANGED <<community, req, chunks, wanted, ex, lease, wire, storeVars, faults>>

\* ServingWriteGuard::finish.
Finish(w) ==
    /\ wr[w] \in {"answered", "written"}
    /\ wr' = [wr EXCEPT ![w] = "idle"]
    /\ lease' = [lease EXCEPT ![w] = None]
    /\ UNCHANGED <<dbVars, ex, wire, storeVars, faults>>

\* The guard is dropped (the heartbeat failed, a verify failed, the client went
\* away, the node stopped), its open transaction with it.
DropGuard(w) ==
    /\ wr[w] \in {"held", "sent", "answered", "leased", "written"}
    /\ wr' = [wr EXCEPT ![w] = "idle"]
    /\ lease' = [lease EXCEPT ![w] = None]
    /\ UNCHANGED <<dbVars, ex, wire, storeVars, faults>>

\* No renewal in 60 s.  renew_serving_write_lease keeps a lease that is live as it
\* is, and refuses one that is not.
ExpireServingLease(w) ==
    /\ lease[w] # None
    /\ lease' = [lease EXCEPT ![w] = None]
    /\ UNCHANGED <<dbVars, ex, wr, wire, storeVars, faults>>

\* guard_transaction and assert_community_write_allowed, then the commit.
GuardTransaction(w) ==
    /\ wr[w] = "idle"
    /\ community.state = "active"
    /\ wr' = [wr EXCEPT ![w] = "plain"]
    /\ UNCHANGED <<dbVars, ex, lease, wire, storeVars, faults>>

CommitTransaction(w) ==
    /\ wr[w] = "plain"
    /\ wr' = [wr EXCEPT ![w] = "idle"]
    /\ rows' = TRUE
    /\ UNCHANGED <<community, req, chunks, wanted, ex, lease, wire, storeVars, faults>>

\* Archiving and unarchiving; enforce_community_tombstone refuses it unless the
\* community is active.
SetArchived(a) ==
    /\ community.state = "active"
    /\ community.archived # a
    /\ community' = [community EXCEPT !.archived = a]
    /\ wanted' = a
    /\ UNCHANGED <<req, chunks, rows, ex, writerVars, storeVars, faults>>

\* Presence and replay keys are set without a lease, whatever the community's state,
\* and expire.
TouchCache(k) ==
    /\ k \notin store
    /\ Put(k, FALSE)
    /\ UNCHANGED <<dbVars, ex, writerVars, dels, removed, faults>>

ExpireCache(k) ==
    /\ k \in store
    /\ store' = store \ {k}
    /\ UNCHANGED <<dbVars, ex, writerVars, dels, late, removed, faults>>

-----------------------------------------------------------------------------
(***************************************************************************)
(* The operator.                                                           *)
(***************************************************************************)
\* submit: one request that is not aborted per community.
Submit ==
    /\ req.stage \in {"none", "aborted"} /\ req.rid < MaxRequests
    /\ community.state = "active"
    /\ req' = [NewRequest EXCEPT !.rid = req.rid + 1, !.stage = "submitted"]
    /\ chunks' = {}
    /\ UNCHANGED <<community, rows, wanted, ex, writerVars, storeVars, faults>>

FreezeInventory ==
    /\ req.stage = "submitted" /\ ~req.blocked
    /\ req' = [req EXCEPT !.stage = "inventoried"]
    /\ UNCHANGED <<community, chunks, rows, wanted, ex, writerVars, storeVars, faults>>

Approve ==
    /\ req.stage = "inventoried" /\ ~req.blocked
    /\ req' = [req EXCEPT !.stage = "approved"]
    /\ UNCHANGED <<community, chunks, rows, wanted, ex, writerVars, storeVars, faults>>

\* Mutant: abort is also allowed once objects may have been deleted.
AbortDrained ==
    /\ OpenTx = {}
    /\ req.stage \in {"approved", "fenced", "drained"}
    /\ NoServingLease
    /\ community' = [state |-> "active", gen |-> community.gen + 1,
                     archived |-> req.pre]
    /\ req' = [req EXCEPT !.stage = "aborted", !.owner = None, !.live = FALSE,
                          !.lgen = @ + 1, !.blocked = FALSE, !.retries = 0]
    /\ late' = {}
    /\ UNCHANGED <<chunks, rows, wanted, ex, writerVars, dels, store, removed, faults>>

\* abort.  The advisory lock, exclusive, waits for open transactions.  Whatever has
\* landed meanwhile is the community's again.
Abort ==
    /\ OpenTx = {}
    /\ req.stage \in {"approved", "fenced"}
    /\ NoServingLease
    /\ community.state \in {"active", "quiescing", "fenced"}
    /\ community' = [state |-> "active", gen |-> community.gen + 1,
                     archived |-> IF req.quiesced THEN req.pre
                                  ELSE community.archived]
    /\ req' = [req EXCEPT !.stage = "aborted", !.fgen = community.gen + 1,
                          !.owner = None, !.live = FALSE, !.lgen = @ + 1,
                          !.blocked = FALSE, !.retries = 0, !.retryStage = "none"]
    /\ late' = {}
    /\ UNCHANGED <<chunks, rows, wanted, ex, writerVars, dels, store, removed, faults>>

Unblock ==
    /\ Fault
    /\ req.blocked /\ req.stage \notin {"retention_pending", "aborted"}
    /\ ~req.live
    /\ req' = [req EXCEPT !.blocked = FALSE, !.owner = None,
                          !.retries = 0, !.retryStage = "none"]
    /\ UNCHANGED <<community, chunks, rows, wanted, ex, writerVars, storeVars>>

\* block_preclaim_setup: `deletion run` could not reach its services.
BlockPreclaimSetup ==
    /\ Fault
    /\ req.stage \notin {"none", "retention_pending", "aborted"}
    /\ ~req.live
    /\ req' = [req EXCEPT !.blocked = TRUE]
    /\ UNCHANGED <<community, chunks, rows, wanted, ex, writerVars, storeVars>>

-----------------------------------------------------------------------------
(***************************************************************************)
(* Executors: their lease, and what ends a run.                            *)
(***************************************************************************)
\* verify_lease: live, ours, and the request still at the stage we work on.
VerifyLease(e) ==
    /\ req.rid = ex[e].rid /\ req.stage = ex[e].stage
    /\ req.owner = e /\ req.lgen = ex[e].gen
    /\ req.live /\ ~req.blocked

\* verify_lease_and_fence, and verify_execution_token once there is a fence.
VerifyLeaseAndFence(e) ==
    /\ VerifyLease(e)
    /\ req.fgen = ex[e].fence
    /\ community.state \in {"fenced", "tombstone"}
    /\ community.gen = ex[e].fence

\* Mutant: an expired lease still has its owner.
ClaimUnowned(e) ==
    /\ ex[e].pc = "idle"
    /\ req.stage \in Runnable /\ ~req.blocked /\ req.owner = None
    /\ req' = [req EXCEPT !.owner = e, !.lgen = @ + 1, !.live = TRUE]
    /\ ex' = [ex EXCEPT ![e] = [IdleExecutor EXCEPT !.pc = "loop",
                                   !.rid = req.rid, !.gen = req.lgen + 1]]
    /\ UNCHANGED <<community, chunks, rows, wanted, writerVars, storeVars, faults>>

\* claim_specific and claim_next.
Claim(e) ==
    /\ ex[e].pc = "idle"
    /\ req.stage \in Runnable /\ ~req.blocked /\ ~req.live
    /\ req' = [req EXCEPT !.owner = e, !.lgen = @ + 1, !.live = TRUE]
    /\ ex' = [ex EXCEPT ![e] = [IdleExecutor EXCEPT !.pc = "loop",
                                   !.rid = req.rid, !.gen = req.lgen + 1]]
    /\ UNCHANGED <<community, chunks, rows, wanted, writerVars, storeVars, faults>>

\* A claim that finds the catalog invalid blocks the request instead.
ClaimCatalogInvalid(e) ==
    /\ Fault
    /\ ex[e].pc = "idle"
    /\ req.stage \in Runnable /\ ~req.blocked /\ ~req.live
    /\ req' = [req EXCEPT !.blocked = TRUE, !.owner = None]
    /\ UNCHANGED <<community, chunks, rows, wanted, ex, writerVars, storeVars>>

\* The first step of each stage's work.
FirstStep(stage) ==
    CASE stage = "approved" -> "quiesce"
      [] stage = "fenced" -> "check"
      [] stage = "drained" -> "next"
      [] stage = "bindings_removed" -> "purge"
      [] stage = "postgres_purged" -> "redis"
      [] stage = "cache_purged" -> "v_rows"
      [] stage = "logically_verified" -> "retain"

\* heartbeat.
Heartbeat(e) ==
    /\ req.rid = ex[e].rid /\ req.owner = e /\ req.lgen = ex[e].gen
    /\ req.live /\ ~req.blocked /\ req.stage \in Runnable

\* execute_claim's loop: read the request, renew the lease, start the stage.  Only
\* the holder of the lease can have moved the request in between.
StartStage(e) ==
    /\ ex[e].pc = "loop"
    /\ Heartbeat(e)
    /\ ex' = [ex EXCEPT ![e].pc = FirstStep(req.stage), ![e].stage = req.stage,
                        ![e].fence = req.fgen,
                        ![e].frozen = (req.manifest # None)]
    /\ UNCHANGED <<dbVars, writerVars, storeVars, faults>>

\* Every check of a lease that is gone ends the run and records nothing: the
\* heartbeat's, the stage's own, and record_stage_failure's.  A run that finds the
\* request settled ends the same way.
Exit(e) ==
    /\ \/ ex[e].pc = "loop" /\ ~Heartbeat(e)
       \/ ex[e].pc \notin {"idle", "loop"} /\ ~VerifyLease(e)
    /\ ex' = [ex EXCEPT ![e] = IdleExecutor]
    /\ UNCHANGED <<dbVars, writerVars, storeVars, faults>>

\* record_retry and block.
Failed(permanent) ==
    LET n == IF req.retryStage = req.stage THEN req.retries + 1 ELSE 1 IN
    IF permanent
    THEN [req EXCEPT !.blocked = TRUE, !.owner = None, !.live = FALSE]
    ELSE [req EXCEPT !.retries = n, !.retryStage = req.stage,
                     !.blocked = (n >= MaxRetries),
                     !.owner = None, !.live = FALSE]

\* record_stage_failure, and the end of the run.
FailStage(e, permanent) ==
    /\ VerifyLease(e)
    /\ req' = Failed(permanent)
    /\ ex' = [ex EXCEPT ![e] = IdleExecutor]

\* An error of Postgres, Redis or the object store, or one of the checks of the
\* catalog, the inventory and the bucket that are not modelled.
StageFails(e, permanent) ==
    /\ Fault
    /\ ex[e].pc \notin {"idle", "loop"}
    /\ FailStage(e, permanent)
    /\ UNCHANGED <<community, chunks, rows, wanted, writerVars, storeVars>>

\* Shutdown: stop_executor releases the lease if it is still ours, expired or not.
Stop(e) ==
    /\ Fault
    /\ ex[e].pc # "idle"
    /\ req' = IF req.rid = ex[e].rid /\ req.owner = e /\ req.lgen = ex[e].gen
              THEN [req EXCEPT !.owner = None, !.live = FALSE] ELSE req
    /\ ex' = [ex EXCEPT ![e] = IdleExecutor]
    /\ UNCHANGED <<community, chunks, rows, wanted, writerVars, storeVars>>

Crash(e) ==
    /\ Fault
    /\ ex[e].pc # "idle"
    /\ ex' = [ex EXCEPT ![e] = IdleExecutor]
    /\ UNCHANGED <<dbVars, writerVars, storeVars>>

\* No heartbeat in 60 s, though its holder runs on ...
ExpireLease ==
    /\ Fault
    /\ req.live
    /\ req' = [req EXCEPT !.live = FALSE]
    /\ UNCHANGED <<community, chunks, rows, wanted, ex, writerVars, storeVars>>

\* ... or because it does not.
LapseLease ==
    /\ req.live
    /\ \A e \in Executors : ex[e].pc = "idle" \/ req.owner # e \/ req.lgen # ex[e].gen
    /\ req' = [req EXCEPT !.live = FALSE]
    /\ UNCHANGED <<community, chunks, rows, wanted, ex, writerVars, storeVars, faults>>

\* advance_request_tx.
Advanced(to) ==
    [req EXCEPT !.stage = to, !.retries = 0, !.retryStage = "none"]

-----------------------------------------------------------------------------
(***************************************************************************)
(* Approved: stop new writes, wait for those under way, fence.             *)
(***************************************************************************)
Goto(e, pc) == ex' = [ex EXCEPT ![e].pc = pc]

\* Mutant: the flag is remembered on every attempt.
BeginQuiescingAgain(e) ==
    /\ ex[e].pc = "quiesce"
    /\ OpenTx = {}
    /\ VerifyLease(e)
    /\ req' = [req EXCEPT !.quiesced = TRUE, !.pre = community.archived]
    /\ community' = [community EXCEPT !.state = "quiescing", !.archived = TRUE]
    /\ Goto(e, "fence")
    /\ UNCHANGED <<chunks, rows, wanted, writerVars, storeVars, faults>>

\* begin_quiescing; the advisory lock, exclusive, waits for open transactions.
\* What the community's archived flag was is remembered once per request.
BeginQuiescing(e) ==
    /\ ex[e].pc = "quiesce"
    /\ OpenTx = {}
    /\ VerifyLease(e)
    /\ community.state \in {"active", "quiescing"}
    /\ req' = IF req.quiesced THEN req
              ELSE [req EXCEPT !.quiesced = TRUE, !.pre = community.archived]
    /\ community' = [community EXCEPT !.state = "quiescing", !.archived = TRUE]
    /\ Goto(e, "fence")
    /\ UNCHANGED <<chunks, rows, wanted, writerVars, storeVars, faults>>

\* Mutant: the fence does not wait for serving leases.
FenceCommunityUndrained(e) ==
    /\ ex[e].pc = "fence"
    /\ OpenTx = {}
    /\ VerifyLease(e)
    /\ community.state = "quiescing"
    /\ community' = [community EXCEPT !.state = "fenced", !.gen = @ + 1]
    /\ req' = [Advanced("fenced") EXCEPT !.fgen = community.gen + 1]
    /\ Goto(e, "loop")
    /\ UNCHANGED <<chunks, rows, wanted, writerVars, storeVars, faults>>

\* fence.
FenceCommunity(e) ==
    /\ ex[e].pc = "fence"
    /\ OpenTx = {}
    /\ VerifyLease(e)
    /\ NoServingLease
    /\ community.state = "quiescing"
    /\ community' = [community EXCEPT !.state = "fenced", !.gen = @ + 1]
    /\ req' = [Advanced("fenced") EXCEPT !.fgen = community.gen + 1]
    /\ Goto(e, "loop")
    /\ UNCHANGED <<chunks, rows, wanted, writerVars, storeVars, faults>>

\* ServingWritesNotDrained, at the fence and, behind it, at the drain check.
NotDrained(e) ==
    /\ ex[e].pc \in {"fence", "check"}
    /\ ex[e].pc = "fence" => OpenTx = {}
    /\ ~NoServingLease
    /\ FailStage(e, FALSE)
    /\ UNCHANGED <<community, chunks, rows, wanted, writerVars, storeVars, faults>>

-----------------------------------------------------------------------------
(***************************************************************************)
(* Fenced: freeze the list of objects to delete.                           *)
(***************************************************************************)
\* The disconnect message to the relay nodes between two token checks, then
\* serving_writes_drained.
DrainCheck(e) ==
    /\ ex[e].pc = "check"
    /\ VerifyLeaseAndFence(e)
    /\ NoServingLease
    /\ Goto(e, IF ex[e].frozen THEN "drain" ELSE "clear")
    /\ UNCHANGED <<dbVars, writerVars, storeVars, faults>>

\* clear_manifest_key_chunks: the check, then the DELETE, which the chunk table's
\* trigger refuses once the manifest is frozen.
ClearCheck(e) ==
    /\ ex[e].pc = "clear"
    /\ VerifyLeaseAndFence(e)
    /\ Goto(e, "clearing")
    /\ UNCHANGED <<dbVars, writerVars, storeVars, faults>>

\* Mutant: the chunk table has no trigger.
ClearAlwaysDeletes == TRUE

\* The trigger fires for each row.
ClearMayDelete ==
    \/ chunks = {} \/ req.manifest = None
    \/ req.stage \in {"logically_verified", "retention_pending"}

ClearChunks(e) ==
    /\ ex[e].pc = "clearing"
    /\ req.rid = ex[e].rid /\ ClearMayDelete
    /\ chunks' = {}
    /\ Goto(e, "list")
    /\ UNCHANGED <<community, req, rows, wanted, writerVars, storeVars, faults>>

\* enumerate_tenant_prefixes.
ListObjects(e) ==
    /\ ex[e].pc = "list"
    /\ LET found == store \cap Objects IN
       ex' = [ex EXCEPT ![e].pc = IF found = {} THEN "freeze" ELSE "append",
                        ![e].listed = found, ![e].todo = found, ![e].no = 0]
    /\ UNCHANGED <<dbVars, writerVars, storeVars, faults>>

\* append_manifest_key_chunk, of one key: the check, then the INSERT, which the
\* trigger allows only while the request is fenced and its manifest not frozen, and
\* the primary key only under a new number.
AppendCheck(e) ==
    /\ ex[e].pc = "append"
    /\ VerifyLeaseAndFence(e)
    /\ Goto(e, "appending")
    /\ UNCHANGED <<dbVars, writerVars, storeVars, faults>>

AppendMayInsert == req.stage = "fenced" /\ req.manifest = None

AppendChunk(e) ==
    /\ ex[e].pc = "appending"
    /\ req.rid = ex[e].rid /\ AppendMayInsert
    /\ \A c \in chunks : c.no # ex[e].no
    /\ \E k \in ex[e].todo :
       /\ chunks' = chunks \cup {[no |-> ex[e].no, key |-> k, deleted |-> FALSE]}
       /\ ex' = [ex EXCEPT ![e].pc = IF ex[e].todo = {k} THEN "freeze" ELSE "append",
                           ![e].todo = @ \ {k}, ![e].no = @ + 1]
    /\ UNCHANGED <<community, req, rows, wanted, writerVars, storeVars, faults>>

\* The INSERT is refused for its number: an error like any other of Postgres.
AppendConflict(e) ==
    /\ ex[e].pc = "appending"
    /\ \E c \in chunks : c.no = ex[e].no
    /\ FailStage(e, FALSE)
    /\ UNCHANGED <<community, chunks, rows, wanted, writerVars, storeVars, faults>>

\* validate_manifest_key_chunks: the chunks hash to the listing's digests.
ChunksMatch(e) ==
    /\ {c.key : c \in chunks} = ex[e].listed
    /\ \A c, d \in chunks : c.key = d.key => c = d

\* freeze_destructive_storage_manifest, under the request's row lock.
FreezeManifest(e) ==
    /\ ex[e].pc = "freeze"
    /\ VerifyLeaseAndFence(e)
    /\ ChunksMatch(e) /\ req.manifest \in {None, ex[e].listed}
    /\ req' = [req EXCEPT !.manifest = ex[e].listed]
    /\ Goto(e, "drain")
    /\ UNCHANGED <<community, chunks, rows, wanted, writerVars, storeVars, faults>>

FreezeMismatch(e) ==
    /\ ex[e].pc = "freeze"
    /\ ~(ChunksMatch(e) /\ req.manifest \in {None, ex[e].listed})
    /\ FailStage(e, TRUE)
    /\ UNCHANGED <<community, chunks, rows, wanted, writerVars, storeVars, faults>>

\* mark_drained.
MarkDrained(e) ==
    /\ ex[e].pc = "drain"
    /\ VerifyLeaseAndFence(e)
    /\ NoServingLease
    /\ req' = Advanced("drained")
    /\ Goto(e, "loop")
    /\ UNCHANGED <<community, chunks, rows, wanted, writerVars, storeVars, faults>>

-----------------------------------------------------------------------------
(***************************************************************************)
(* Drained: delete the listed objects, chunk by chunk.                     *)
(***************************************************************************)
Pending == {c \in chunks : ~c.deleted}

\* next_pending_manifest_chunk, which checks no lease.
NextChunk(e) ==
    /\ ex[e].pc = "next"
    /\ \/ /\ Pending = {}
          /\ Goto(e, "bindings")
       \/ \E c \in Pending :
          /\ \A d \in Pending : c.no <= d.no
          /\ ex' = [ex EXCEPT ![e].pc = "delete", ![e].chunk = c]
    /\ UNCHANGED <<dbVars, writerVars, storeVars, faults>>

\* run_guarded_external_step around delete_objects.
SendDelete(e) ==
    /\ ex[e].pc = "delete"
    /\ VerifyLeaseAndFence(e)
    /\ dels' = dels \cup {[gen |-> ex[e].gen, key |-> ex[e].chunk.key]}
    /\ removed' = removed \cup {ex[e].chunk.key}
    /\ Goto(e, "deleting")
    /\ UNCHANGED <<dbVars, writerVars, store, late, faults>>

LandDelete(d) ==
    /\ store' = store \ {d.key}
    /\ dels' = dels \ {d}
    /\ UNCHANGED <<dbVars, ex, writerVars, late, removed, faults>>

\* A delete nobody waits for any more may also be lost.
LoseDelete(d) ==
    /\ \A e \in Executors : ex[e].pc = "deleting" => ex[e].gen # d.gen
    /\ dels' = dels \ {d}
    /\ UNCHANGED <<dbVars, ex, writerVars, store, late, removed, faults>>

\* Mutant: the chunk is stamped before the store has answered.
DeleteNotAwaited(e) ==
    /\ ex[e].pc = "deleting"
    /\ VerifyLeaseAndFence(e)
    /\ Goto(e, "stamp")
    /\ UNCHANGED <<dbVars, writerVars, storeVars, faults>>

DeleteDone(e) ==
    /\ ex[e].pc = "deleting"
    /\ [gen |-> ex[e].gen, key |-> ex[e].chunk.key] \notin dels
    /\ VerifyLeaseAndFence(e)
    /\ Goto(e, "stamp")
    /\ UNCHANGED <<dbVars, writerVars, storeVars, faults>>

\* mark_manifest_chunk_deleted.
StampChunk(e) ==
    /\ ex[e].pc = "stamp"
    /\ VerifyLeaseAndFence(e)
    /\ ex[e].chunk \in chunks
    /\ chunks' = (chunks \ {ex[e].chunk}) \cup {[ex[e].chunk EXCEPT !.deleted = TRUE]}
    /\ Goto(e, "next")
    /\ UNCHANGED <<community, req, rows, wanted, writerVars, storeVars, faults>>

MarkBindingsRemoved(e) ==
    /\ ex[e].pc = "bindings"
    /\ VerifyLeaseAndFence(e)
    /\ req' = Advanced("bindings_removed")
    /\ Goto(e, "loop")
    /\ UNCHANGED <<community, chunks, rows, wanted, writerVars, storeVars, faults>>

-----------------------------------------------------------------------------
(***************************************************************************)
(* BindingsRemoved to LogicallyVerified: purge the rows and the cache, then*)
(* look that nothing is left.                                              *)
(***************************************************************************)
\* purge_postgres, one transaction that takes no advisory lock.
PurgePostgres(e) ==
    /\ ex[e].pc = "purge"
    /\ VerifyLeaseAndFence(e)
    /\ community.state = "fenced"
    /\ rows' = FALSE
    /\ community' = [community EXCEPT !.state = "tombstone", !.archived = TRUE]
    /\ req' = Advanced("postgres_purged")
    /\ Goto(e, "loop")
    /\ UNCHANGED <<chunks, wanted, writerVars, storeVars, faults>>

RedisCheck(e) ==
    /\ ex[e].pc = "redis"
    /\ VerifyLeaseAndFence(e)
    /\ Goto(e, "unlink")
    /\ UNCHANGED <<dbVars, writerVars, storeVars, faults>>

\* purge_redis_namespace.
PurgeRedis(e) ==
    /\ ex[e].pc = "unlink"
    /\ store' = store \ CacheKeys
    /\ Goto(e, "cache")
    /\ UNCHANGED <<dbVars, writerVars, dels, late, removed, faults>>

MarkCachePurged(e) ==
    /\ ex[e].pc = "cache"
    /\ VerifyLeaseAndFence(e)
    /\ req' = Advanced("cache_purged")
    /\ Goto(e, "loop")
    /\ UNCHANGED <<community, chunks, rows, wanted, writerVars, storeVars, faults>>

\* verify_postgres_logically_deleted, verify_storage_absence and
\* verify_redis_absence, one after the other.
VerifyRows(e) ==
    /\ ex[e].pc = "v_rows"
    /\ VerifyLeaseAndFence(e) /\ community.state = "tombstone" /\ ~rows
    /\ Goto(e, "v_store")
    /\ UNCHANGED <<dbVars, writerVars, storeVars, faults>>

VerifyStore(e) ==
    /\ ex[e].pc = "v_store"
    /\ store \cap Objects = {}
    /\ Goto(e, "v_cache")
    /\ UNCHANGED <<dbVars, writerVars, storeVars, faults>>

VerifyCache(e) ==
    /\ ex[e].pc = "v_cache"
    /\ store \cap CacheKeys = {}
    /\ Goto(e, "verified")
    /\ UNCHANGED <<dbVars, writerVars, storeVars, faults>>

\* A key is left: a transient failure, tried again and at last blocked.
KeyLeft(e) ==
    /\ \/ ex[e].pc = "v_store" /\ store \cap Objects # {}
       \/ ex[e].pc = "v_cache" /\ store \cap CacheKeys # {}
    /\ FailStage(e, FALSE)
    /\ UNCHANGED <<community, chunks, rows, wanted, writerVars, storeVars, faults>>

\* mark_logically_verified, which drops the chunks.
MarkLogicallyVerified(e) ==
    /\ ex[e].pc = "verified"
    /\ VerifyLeaseAndFence(e)
    /\ req' = Advanced("logically_verified")
    /\ chunks' = {}
    /\ Goto(e, "loop")
    /\ UNCHANGED <<community, rows, wanted, writerVars, storeVars, faults>>

\* mark_retention_pending.
MarkRetentionPending(e) ==
    /\ ex[e].pc = "retain"
    /\ VerifyLeaseAndFence(e)
    /\ req' = [Advanced("retention_pending") EXCEPT !.owner = None, !.live = FALSE]
    /\ Goto(e, "loop")
    /\ UNCHANGED <<community, chunks, rows, wanted, writerVars, storeVars, faults>>

-----------------------------------------------------------------------------
WriterStep(w) ==
    \/ AcquireServingWrite(w)
    \/ \E k \in Objects \cup CacheKeys : Protect(w, k)
    \/ Land(w)
    \/ LoseWrite(w)
    \/ ProtectDone(w)
    \/ GuardWithLease(w)
    \/ CommitWithLease(w)
    \/ Finish(w)
    \/ DropGuard(w)
    \/ ExpireServingLease(w)
    \/ GuardTransaction(w)
    \/ CommitTransaction(w)

OperatorStep ==
    \/ Submit
    \/ FreezeInventory
    \/ Approve
    \/ Abort
    \/ Unblock
    \/ BlockPreclaimSetup

\* What a run under way does unless something goes wrong.
ExecutorStep(e) ==
    \/ StartStage(e)
    \/ Exit(e)
    \/ BeginQuiescing(e)
    \/ FenceCommunity(e)
    \/ NotDrained(e)
    \/ DrainCheck(e)
    \/ ClearCheck(e)
    \/ ClearChunks(e)
    \/ ListObjects(e)
    \/ AppendCheck(e)
    \/ AppendChunk(e)
    \/ AppendConflict(e)
    \/ FreezeManifest(e)
    \/ FreezeMismatch(e)
    \/ MarkDrained(e)
    \/ NextChunk(e)
    \/ SendDelete(e)
    \/ DeleteDone(e)
    \/ StampChunk(e)
    \/ MarkBindingsRemoved(e)
    \/ PurgePostgres(e)
    \/ RedisCheck(e)
    \/ PurgeRedis(e)
    \/ MarkCachePurged(e)
    \/ VerifyRows(e)
    \/ VerifyStore(e)
    \/ VerifyCache(e)
    \/ KeyLeft(e)
    \/ MarkLogicallyVerified(e)
    \/ MarkRetentionPending(e)

ExecutorFault(e) ==
    \/ ClaimCatalogInvalid(e)
    \/ \E permanent \in BOOLEAN : StageFails(e, permanent)
    \/ Stop(e)
    \/ Crash(e)

StoreStep ==
    \/ \E d \in dels : LandDelete(d) \/ LoseDelete(d)
    \/ \E k \in CacheKeys : TouchCache(k) \/ ExpireCache(k)

Next ==
    \/ \E w \in Writers : WriterStep(w)
    \/ \E a \in BOOLEAN : SetArchived(a)
    \/ OperatorStep
    \/ \E e \in Executors : Claim(e) \/ ExecutorStep(e) \/ ExecutorFault(e)
    \/ ExpireLease
    \/ LapseLease
    \/ StoreStep

Spec == Init /\ [][Next]_vars

-----------------------------------------------------------------------------
(***************************************************************************)
(* Fairness.  A run under way and the store's answers go on; a transaction *)
(* ends; a lease nobody renews runs out.  Postgres queues lock requests in *)
(* order, so an exclusive request for the advisory lock is not overtaken   *)
(* for ever.  Nothing is assumed of the relay nodes' requests, nor of the  *)
(* operator, who starts the runs: a run returns when its request is        *)
(* settled or a stage fails, and nothing in the system starts another.     *)
(***************************************************************************)
LiveSpec ==
    /\ Spec
    /\ \A e \in Executors : /\ WF_vars(ExecutorStep(e))
                            /\ SF_vars(BeginQuiescing(e))
                            /\ SF_vars(FenceCommunity(e) \/ NotDrained(e))
    /\ \A w \in Writers : WF_vars(CommitTransaction(w) \/ CommitWithLease(w)
                                  \/ (wr[w] = "leased" /\ DropGuard(w)))
    /\ WF_vars(LapseLease)
    /\ WF_vars(\E d \in dels : LandDelete(d))

-----------------------------------------------------------------------------
(***************************************************************************)
(* Properties.                                                             *)
(***************************************************************************)
ExecutorPc == {"idle", "loop", "quiesce", "fence", "check", "clear", "clearing",
               "list", "append", "appending", "freeze", "drain", "next", "delete",
               "deleting", "stamp", "bindings", "purge", "redis", "unlink",
               "cache", "v_rows", "v_store", "v_cache", "verified", "retain"}

WriterPc == {"idle", "held", "sent", "answered", "leased", "written", "plain"}

CommunityRow == [state: {"active", "quiescing", "fenced", "tombstone"}, gen: Nat,
                 archived: BOOLEAN]
Request == [rid: Nat, stage: Stages, owner: Executors \cup {None}, lgen: Nat,
            live: BOOLEAN, blocked: BOOLEAN, retries: Nat, retryStage: Stages,
            fgen: Nat, quiesced: BOOLEAN, pre: BOOLEAN,
            manifest: (SUBSET Objects) \cup {None}]
Executor == [pc: ExecutorPc, rid: Nat, gen: Nat, stage: Stages, fence: Nat,
             frozen: BOOLEAN, listed: SUBSET Objects, todo: SUBSET Objects,
             no: Nat, chunk: Chunk \cup {None}]

\* Every variable keeps its type; a listing holds objects only.
TypeOK ==
    /\ community \in CommunityRow
    /\ req \in Request
    /\ chunks \subseteq Chunk
    /\ ex \in [Executors -> Executor]
    /\ wr \in [Writers -> WriterPc]
    /\ lease \in [Writers -> Nat \cup {None}]
    /\ wire \in [Writers -> Objects \cup CacheKeys \cup {None}]
    /\ dels \subseteq [gen: Nat, key: Objects]
    /\ store \subseteq Objects \cup CacheKeys
    /\ late \subseteq Objects \cup CacheKeys
    /\ removed \subseteq Objects
    /\ rows \in BOOLEAN /\ wanted \in BOOLEAN
    /\ faults \in Nat

\* The fence excludes every writer: from begin_quiescing on no row writer that
\* checked the state before it is still to commit, and once the community is fenced
\* no serving lease is live, nor is one whose generation an abort has overtaken.
FenceExcludes ==
    /\ \A w \in Writers : lease[w] # None => /\ community.state \in {"active", "quiescing"}
                                             /\ lease[w] = community.gen
    /\ \A w \in Writers : wr[w] = "plain" => community.state = "active"
    /\ \A w \in Writers : wr[w] = "leased" => community.state \in {"active", "quiescing"}

\* Rows purged by purge_postgres stay purged, though it takes no lock against the
\* relay nodes' transactions, and the tombstone stays.
RowsStayPurged ==
    req.stage \in {"postgres_purged", "cache_purged", "logically_verified",
                   "retention_pending"}
        => ~rows /\ community.state = "tombstone"

\* Once frozen, the chunks are exactly the frozen listing until they are dropped,
\* whatever an executor that lost its lease half way through clearing or writing
\* chunks still does (the trigger of migration 0029).
FrozenChunksExact ==
    /\ req.manifest # None
    /\ req.stage \in {"fenced", "drained", "bindings_removed", "postgres_purged",
                      "cache_purged"}
    => /\ {c.key : c \in chunks} = req.manifest
       /\ \A c, d \in chunks : c.key = d.key => c = d

\* Bindings are marked removed only when every listed object has been deleted,
\* across crashes, takeovers and deletes that land late: only a write behind the
\* fence and without a lease can have put one back.
RemovedStaysRemoved ==
    /\ \A c \in chunks : c.deleted => c.key \in removed /\ c.key \notin store \ late
    /\ req.stage \in Destructive \ {"drained"} => \A c \in chunks : c.deleted

\* An active community has the archived flag its owners gave it, also after
\* begin_quiescing set it, was retried, and the request was aborted.
ArchivedRestored ==
    community.state = "active" => community.archived = wanted

\* What mark_logically_verified reports: nothing is left of what the community had,
\* only what was written behind the fence without a lease.
VerifiedIsEmpty ==
    req.stage \in {"logically_verified", "retention_pending"}
        => ~rows /\ store \subseteq late

\* "the post-drain listing is the final storage state, so no tenant key can appear
\* after the freeze" (execute_stage).
FreezeIsFinal ==
    req.manifest # None /\ req.stage # "aborted"
        => store \cap Objects \subseteq req.manifest

\* The operator runs the command again as long as there is a request to claim.
Reruns == WF_vars(\E e \in Executors : Claim(e))

\* Every run comes to its end, whatever writers, operators and other runs do; and if
\* the operator runs the command again whenever the request can be claimed, an
\* approved request is finished, aborted, or blocked for the operator to see.
EventuallySettled ==
    /\ \A e \in Executors : ex[e].pc # "idle" ~> ex[e].pc = "idle"
    /\ Reruns => (req.stage \in Runnable
                     ~> req.stage \in {"retention_pending", "aborted"} \/ req.blocked)

\* What the tenant sees of it.
Lifecycle == INSTANCE TenantLifecycle WITH
    Data <- Objects \cup CacheKeys \cup {None},
    Volatile <- CacheKeys,
    phase <- CASE community.state = "active" -> "open"
               [] community.state = "quiescing" -> "closing"
               [] req.stage = "retention_pending" -> "gone"
               [] OTHER -> "sealed",
    data <- (store \ late) \cup (IF rows THEN {None} ELSE {}),
    archived <- wanted,
    doomed <- req.stage \in Destructive

\* Deletion keeps the promises of TenantLifecycle, with writes that land behind the
\* fence left out of account until an abort: data only grows while open or closing,
\* shrinks only once doomed, but for cache keys that expire, and is gone at the end.
RefinesLifecycle == Lifecycle!Spec
=============================================================================
