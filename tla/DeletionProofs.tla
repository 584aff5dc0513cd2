--------------------------- MODULE DeletionProofs ---------------------------
(***************************************************************************)
(* Proofs about CommunityDeletion, for any executors, writers and keys, any*)
(* number of requests and faults, and writes that land behind the fence.   *)
(***************************************************************************)
EXTENDS CommunityDeletion, TLAPS

-----------------------------------------------------------------------------
(***************************************************************************)
(* Types.                                                                  *)
(***************************************************************************)
\* Fresh records.
LEMMA FreshTypes ==
    /\ NewRequest \in Request /\ IdleExecutor \in Executor
    /\ IdleExecutor.pc = "idle" /\ IdleExecutor.stage = "none"
    /\ NewRequest.stage = "none" /\ NewRequest.manifest = None /\ ~NewRequest.quiesced
<1>1. "none" \in Stages /\ "idle" \in ExecutorPc
    BY DEF Stages, ExecutorPc
<1> QED BY <1>1 DEF NewRequest, IdleExecutor, Request, Executor

\* An executor moves on, or its run ends.
LEMMA GotoTypes ==
    ASSUME TypeOK, NEW e \in Executors, NEW pc \in ExecutorPc, Goto(e, pc)
    PROVE  /\ ex' \in [Executors -> Executor]
           /\ ex'[e] = [ex[e] EXCEPT !.pc = pc]
           /\ ex'[e].pc = pc /\ ex'[e].stage = ex[e].stage /\ ex'[e].chunk = ex[e].chunk
           /\ ex'[e].gen = ex[e].gen
           /\ \A d \in Executors \ {e} : ex'[d] = ex[d]
<1>1. ex \in [Executors -> Executor] /\ ex[e] \in Executor
    BY DEF TypeOK
<1>2. ex' = [ex EXCEPT ![e] = [ex[e] EXCEPT !.pc = pc]]
    BY <1>1 DEF Goto
<1> QED BY <1>1, <1>2 DEF Executor

LEMMA IdleTypes ==
    ASSUME TypeOK, NEW e \in Executors, ex' = [ex EXCEPT ![e] = IdleExecutor]
    PROVE  /\ ex' \in [Executors -> Executor]
           /\ ex'[e].pc = "idle" /\ ex'[e].stage = "none"
           /\ \A d \in Executors \ {e} : ex'[d] = ex[d]
<1>1. ex \in [Executors -> Executor]
    BY DEF TypeOK
<1> QED BY <1>1, FreshTypes

\* advance_request_tx moves the stage and forgets the retries.
LEMMA AdvancedTypes ==
    ASSUME TypeOK, NEW to \in Stages
    PROVE  /\ Advanced(to) \in Request /\ Advanced(to).stage = to
           /\ Advanced(to).manifest = req.manifest
           /\ Advanced(to).quiesced = req.quiesced /\ Advanced(to).pre = req.pre
<1>1. req \in Request /\ "none" \in Stages
    BY DEF TypeOK, Stages
<1> QED BY <1>1 DEF Advanced, Request

\* record_retry and block touch neither the stage nor what it has achieved.
LEMMA FailedTypes ==
    ASSUME TypeOK, NEW permanent \in BOOLEAN
    PROVE  /\ Failed(permanent) \in Request /\ Failed(permanent).stage = req.stage
           /\ Failed(permanent).manifest = req.manifest
           /\ Failed(permanent).quiesced = req.quiesced /\ Failed(permanent).pre = req.pre
<1>1. req \in Request
    BY DEF TypeOK
<1> DEFINE n == IF req.retryStage = req.stage THEN req.retries + 1 ELSE 1
           b == n >= MaxRetries
           f == [req EXCEPT !.retries = n, !.retryStage = req.stage, !.blocked = b,
                            !.owner = None, !.live = FALSE]
           g == [req EXCEPT !.blocked = TRUE, !.owner = None, !.live = FALSE]
<1>2. n \in Nat /\ b \in BOOLEAN
    BY <1>1 DEF Request
<1>3. Failed(permanent) = IF permanent THEN g ELSE f
    BY DEF Failed
<1> HIDE DEF n, b
<1>4. /\ f \in Request /\ f.stage = req.stage /\ f.manifest = req.manifest
      /\ f.quiesced = req.quiesced /\ f.pre = req.pre
    BY <1>1, <1>2 DEF Request
<1>5. /\ g \in Request /\ g.stage = req.stage /\ g.manifest = req.manifest
      /\ g.quiesced = req.quiesced /\ g.pre = req.pre
    BY <1>1 DEF Request
<1> QED BY <1>3, <1>4, <1>5

LEMMA FailStageTypes ==
    ASSUME TypeOK, NEW e \in Executors, NEW permanent \in BOOLEAN, FailStage(e, permanent)
    PROVE  /\ req' \in Request /\ ex' \in [Executors -> Executor]
           /\ req'.stage = req.stage /\ req'.manifest = req.manifest
           /\ req'.quiesced = req.quiesced /\ req'.pre = req.pre
           /\ ex'[e].pc = "idle" /\ ex'[e].stage = "none"
           /\ \A d \in Executors \ {e} : ex'[d] = ex[d]
BY FailedTypes, IdleTypes DEF FailStage

LEMMA FaultTypes ==
    ASSUME TypeOK, Fault
    PROVE  faults' \in Nat
BY DEF TypeOK, Fault

\* The initial state.
LEMMA TypeInit == Init => TypeOK
<1> SUFFICES ASSUME Init PROVE TypeOK
    OBVIOUS
<1>1. community \in CommunityRow
    BY DEF Init, CommunityRow
<1>2. req \in Request /\ ex \in [Executors -> Executor]
    BY FreshTypes DEF Init
<1>3. wr \in [Writers -> WriterPc]
    BY DEF Init, WriterPc
<1> QED BY <1>1, <1>2, <1>3 DEF Init, TypeOK

\* Steps of the relay nodes.
LEMMA WriterTypes ==
    ASSUME TypeOK, NEW w \in Writers, WriterStep(w)
    PROVE  TypeOK' /\ UNCHANGED <<community, req, chunks, wanted, ex, dels, removed>>
<1>a. wr \in [Writers -> WriterPc]
    BY DEF TypeOK
<1>b. lease \in [Writers -> Nat \cup {None}]
    BY DEF TypeOK
<1>c. wire \in [Writers -> Objects \cup CacheKeys \cup {None}]
    BY DEF TypeOK
<1>d. community.gen \in Nat
    BY DEF TypeOK, CommunityRow
<1> USE DEF dbVars, storeVars
<1>1. CASE AcquireServingWrite(w)
    BY <1>a, <1>b, <1>d, <1>1 DEF AcquireServingWrite, TypeOK, WriterPc
<1>2. ASSUME NEW k \in Objects \cup CacheKeys, Protect(w, k)
      PROVE  TypeOK' /\ UNCHANGED <<community, req, chunks, wanted, ex, dels, removed>>
    BY <1>a, <1>c, <1>2 DEF Protect, TypeOK, WriterPc
<1>3. CASE Land(w)
    <2>1. wire[w] \in Objects \cup CacheKeys
        BY <1>c, <1>3 DEF Land
    <2>2. wire' \in [Writers -> Objects \cup CacheKeys \cup {None}]
        BY <1>c, <1>3 DEF Land
    <2> QED BY <1>3, <2>1, <2>2 DEF Land, Put, TypeOK
<1>4. CASE LoseWrite(w)
    BY <1>c, <1>4 DEF LoseWrite, TypeOK
<1>5. CASE ProtectDone(w)
    BY <1>a, <1>5 DEF ProtectDone, TypeOK, WriterPc
<1>6. CASE GuardWithLease(w)
    BY <1>a, <1>6 DEF GuardWithLease, TypeOK, WriterPc
<1>7. CASE CommitWithLease(w)
    BY <1>a, <1>7 DEF CommitWithLease, TypeOK, WriterPc
<1>8. CASE Finish(w)
    BY <1>a, <1>b, <1>8 DEF Finish, TypeOK, WriterPc
<1>9. CASE DropGuard(w)
    BY <1>a, <1>b, <1>9 DEF DropGuard, TypeOK, WriterPc
<1>10. CASE ExpireServingLease(w)
    BY <1>b, <1>10 DEF ExpireServingLease, TypeOK
<1>11. CASE GuardTransaction(w)
    BY <1>a, <1>11 DEF GuardTransaction, TypeOK, WriterPc
<1>12. CASE CommitTransaction(w)
    BY <1>a, <1>12 DEF CommitTransaction, TypeOK, WriterPc
<1> QED BY <1>1, <1>2, <1>3, <1>4, <1>5, <1>6, <1>7, <1>8, <1>9, <1>10, <1>11, <1>12
        DEF WriterStep

\* Steps of the owners, the operator and the request's lease.
LEMMA OperatorTypes ==
    ASSUME TypeOK, OperatorStep \/ ExpireLease \/ LapseLease \/ \E a \in BOOLEAN : SetArchived(a)
    PROVE  TypeOK'
<1> USE DEF writerVars, storeVars
<1>a. req \in Request
    BY DEF TypeOK
<1>b. community \in CommunityRow
    BY DEF TypeOK
<1>c. {"none", "submitted", "inventoried", "approved", "aborted"} \subseteq Stages
    BY DEF Stages
<1>1. CASE Submit
    <2>1. req' \in Request
        <3>1. req.rid + 1 \in Nat
            BY <1>a DEF Request
        <3>2. [NewRequest EXCEPT !.rid = req.rid + 1, !.stage = "submitted"] \in Request
            BY <1>c, <3>1, FreshTypes DEF Request
        <3> QED BY <1>1, <3>2 DEF Submit
    <2> QED BY <1>1, <2>1 DEF Submit, TypeOK
<1>2. CASE FreezeInventory
    <2>1. req' \in Request
        BY <1>a, <1>c, <1>2 DEF FreezeInventory, Request
    <2> QED BY <1>2, <2>1 DEF FreezeInventory, TypeOK
<1>3. CASE Approve
    <2>1. req' \in Request
        BY <1>a, <1>c, <1>3 DEF Approve, Request
    <2> QED BY <1>3, <2>1 DEF Approve, TypeOK
<1>4. CASE Abort
    <2>1. community' \in CommunityRow
        BY <1>a, <1>b, <1>4 DEF Abort, CommunityRow, Request
    <2>2. req' \in Request
        <3> DEFINE f == community.gen + 1
                   l == req.lgen + 1
        <3>1. f \in Nat /\ l \in Nat
            BY <1>a, <1>b DEF CommunityRow, Request
        <3>2. req' = [req EXCEPT !.stage = "aborted", !.fgen = f, !.owner = None,
                                 !.live = FALSE, !.lgen = l, !.blocked = FALSE,
                                 !.retries = 0, !.retryStage = "none"]
            BY <1>4 DEF Abort
        <3> HIDE DEF f, l
        <3> QED BY <1>a, <1>c, <3>1, <3>2 DEF Request
    <2> QED BY <1>4, <2>1, <2>2 DEF Abort, TypeOK
<1>5. CASE Unblock
    <2>1. req' \in Request
        BY <1>a, <1>c, <1>5 DEF Unblock, Request
    <2> QED BY <1>5, <2>1, FaultTypes DEF Unblock, TypeOK
<1>6. CASE BlockPreclaimSetup
    <2>1. req' \in Request
        BY <1>a, <1>6 DEF BlockPreclaimSetup, Request
    <2> QED BY <1>6, <2>1, FaultTypes DEF BlockPreclaimSetup, TypeOK
<1>7. CASE ExpireLease
    <2>1. req' \in Request
        BY <1>a, <1>7 DEF ExpireLease, Request
    <2> QED BY <1>7, <2>1, FaultTypes DEF ExpireLease, TypeOK
<1>8. CASE LapseLease
    <2>1. req' \in Request
        BY <1>a, <1>8 DEF LapseLease, Request
    <2> QED BY <1>8, <2>1 DEF LapseLease, TypeOK
<1>9. ASSUME NEW a \in BOOLEAN, SetArchived(a) PROVE TypeOK'
    <2>1. community' \in CommunityRow
        BY <1>b, <1>9 DEF SetArchived, CommunityRow
    <2> QED BY <1>9, <2>1 DEF SetArchived, TypeOK
<1> QED BY <1>1, <1>2, <1>3, <1>4, <1>5, <1>6, <1>7, <1>8, <1>9 DEF OperatorStep

\* Faults of an executor, and the store's own steps.
LEMMA FaultStepTypes ==
    ASSUME TypeOK, StoreStep \/ \E e \in Executors : ExecutorFault(e)
    PROVE  TypeOK'
<1> USE DEF dbVars, writerVars, storeVars
<1>a. req \in Request
    BY DEF TypeOK
<1>1. ASSUME NEW e \in Executors, ClaimCatalogInvalid(e) PROVE TypeOK'
    <2>1. req' \in Request
        BY <1>a, <1>1 DEF ClaimCatalogInvalid, Request
    <2> QED BY <1>1, <2>1, FaultTypes DEF ClaimCatalogInvalid, TypeOK
<1>2. ASSUME NEW e \in Executors, NEW permanent \in BOOLEAN, StageFails(e, permanent)
      PROVE  TypeOK'
    BY <1>2, FailStageTypes, FaultTypes DEF StageFails, TypeOK
<1>3. ASSUME NEW e \in Executors, Stop(e) PROVE TypeOK'
    <2>1. req' \in Request
        BY <1>a, <1>3 DEF Stop, Request
    <2> QED BY <1>3, <2>1, IdleTypes, FaultTypes DEF Stop, TypeOK
<1>4. ASSUME NEW e \in Executors, Crash(e) PROVE TypeOK'
    BY <1>4, IdleTypes, FaultTypes DEF Crash, TypeOK
<1>5. ASSUME NEW d \in dels, LandDelete(d) \/ LoseDelete(d) PROVE TypeOK'
    BY <1>5 DEF LandDelete, LoseDelete, TypeOK
<1>6. ASSUME NEW k \in CacheKeys, TouchCache(k) \/ ExpireCache(k) PROVE TypeOK'
    BY <1>6 DEF TouchCache, ExpireCache, Put, TypeOK
<1> QED BY <1>1, <1>2, <1>3, <1>4, <1>5, <1>6 DEF StoreStep, ExecutorFault

\* A first step belongs to its stage.
LEMMA FirstStepTypes ==
    ASSUME NEW stage \in Runnable
    PROVE  FirstStep(stage) \in ExecutorPc
BY DEF Runnable, Stages, FirstStep, ExecutorPc

\* A run starts, and starts a stage.
LEMMA ClaimFacts ==
    ASSUME TypeOK, NEW e \in Executors, Claim(e)
    PROVE  /\ req' \in Request /\ ex' \in [Executors -> Executor]
           /\ req'.stage = req.stage /\ req'.manifest = req.manifest
           /\ req'.quiesced = req.quiesced /\ req'.pre = req.pre
           /\ ex'[e].pc = "loop" /\ ex'[e].stage = "none"
           /\ \A d \in Executors \ {e} : ex'[d] = ex[d]
<1>1. req \in Request /\ req.rid \in Nat /\ req.lgen + 1 \in Nat
    BY DEF TypeOK, Request
<1>2. /\ req' \in Request /\ req'.stage = req.stage /\ req'.manifest = req.manifest
      /\ req'.quiesced = req.quiesced /\ req'.pre = req.pre
    BY <1>1 DEF Claim, Request
<1> DEFINE x == [IdleExecutor EXCEPT !.pc = "loop", !.rid = req.rid, !.gen = req.lgen + 1]
<1>3. x \in Executor /\ x.pc = "loop" /\ x.stage = "none"
    BY <1>1, FreshTypes DEF Executor, ExecutorPc
<1>4. ex \in [Executors -> Executor] /\ ex' = [ex EXCEPT ![e] = x]
    BY DEF TypeOK, Claim
<1> HIDE DEF x
<1> QED BY <1>2, <1>3, <1>4

LEMMA StartStageFacts ==
    ASSUME TypeOK, NEW e \in Executors, StartStage(e)
    PROVE  /\ ex' \in [Executors -> Executor]
           /\ req.stage \in Runnable
           /\ ex'[e].pc = FirstStep(req.stage) /\ ex'[e].stage = req.stage
           /\ \A d \in Executors \ {e} : ex'[d] = ex[d]
<1>1. /\ req.stage \in Runnable /\ req.stage \in Stages /\ req.fgen \in Nat
      /\ (req.manifest # None) \in BOOLEAN
    BY DEF TypeOK, Request, StartStage, Heartbeat
<1>2. ex \in [Executors -> Executor] /\ ex[e] \in Executor
    BY DEF TypeOK
<1> DEFINE f == (req.manifest # None)
           x == [ex[e] EXCEPT !.pc = FirstStep(req.stage), !.stage = req.stage,
                              !.fence = req.fgen, !.frozen = f]
<1>3. ex' = [ex EXCEPT ![e] = x] /\ f \in BOOLEAN
    BY <1>2 DEF StartStage
<1> HIDE DEF f
<1>4. x \in Executor /\ x.pc = FirstStep(req.stage) /\ x.stage = req.stage
    BY <1>1, <1>2, <1>3, FirstStepTypes DEF Executor
<1> HIDE DEF x
<1> QED BY <1>1, <1>2, <1>3, <1>4

\* A listing holds objects, and appends one of them at a time.
LEMMA ListFacts ==
    ASSUME TypeOK, NEW e \in Executors, ListObjects(e)
    PROVE  /\ ex' \in [Executors -> Executor]
           /\ ex'[e].pc \in {"freeze", "append"} /\ ex'[e].stage = ex[e].stage
           /\ \A d \in Executors \ {e} : ex'[d] = ex[d]
<1>1. ex \in [Executors -> Executor] /\ ex[e] \in Executor
    BY DEF TypeOK
<1> DEFINE found == store \cap Objects
           x == [ex[e] EXCEPT !.pc = IF found = {} THEN "freeze" ELSE "append",
                              !.listed = found, !.todo = found, !.no = 0]
<1>2. ex' = [ex EXCEPT ![e] = x] /\ found \in SUBSET Objects
    BY <1>1 DEF ListObjects
<1>3. {"freeze", "append"} \subseteq ExecutorPc
    BY DEF ExecutorPc
<1> HIDE DEF found
<1>4. x \in Executor /\ x.pc \in {"freeze", "append"} /\ x.stage = ex[e].stage
    BY <1>1, <1>2, <1>3 DEF Executor
<1> HIDE DEF x
<1> QED BY <1>1, <1>2, <1>4

LEMMA AppendFacts ==
    ASSUME TypeOK, NEW e \in Executors, AppendChunk(e)
    PROVE  /\ ex' \in [Executors -> Executor]
           /\ ex'[e].pc \in {"freeze", "append"} /\ ex'[e].stage = ex[e].stage
           /\ \A d \in Executors \ {e} : ex'[d] = ex[d]
           /\ chunks' \subseteq Chunk
           /\ \A c \in chunks' : c \in chunks \/ ~c.deleted
           /\ chunks \subseteq chunks'
<1>1. ex \in [Executors -> Executor] /\ ex[e] \in Executor /\ chunks \subseteq Chunk
    BY DEF TypeOK
<1>2. PICK k \in ex[e].todo :
        /\ chunks' = chunks \cup {[no |-> ex[e].no, key |-> k, deleted |-> FALSE]}
        /\ ex' = [ex EXCEPT ![e].pc = IF ex[e].todo = {k} THEN "freeze" ELSE "append",
                            ![e].todo = @ \ {k}, ![e].no = @ + 1]
    BY DEF AppendChunk
<1>3. k \in Objects /\ ex[e].no \in Nat /\ ex[e].todo \ {k} \in SUBSET Objects
    BY <1>1 DEF Executor
<1> DEFINE c == [no |-> ex[e].no, key |-> k, deleted |-> FALSE]
           n == ex[e].no + 1
           t == ex[e].todo \ {k}
           x == [ex[e] EXCEPT !.pc = IF ex[e].todo = {k} THEN "freeze" ELSE "append",
                              !.todo = t, !.no = n]
<1>4. c \in Chunk /\ ~c.deleted
    BY <1>3 DEF Chunk
<1>5. n \in Nat /\ t \in SUBSET Objects
    BY <1>3
<1>8. ex' = [ex EXCEPT ![e] = x]
    BY <1>1, <1>2
<1>6. {"freeze", "append"} \subseteq ExecutorPc
    BY DEF ExecutorPc
<1> HIDE DEF n, t
<1>7. x \in Executor /\ x.pc \in {"freeze", "append"} /\ x.stage = ex[e].stage
    BY <1>1, <1>5, <1>6 DEF Executor
<1> HIDE DEF x
<1>9. \A d \in chunks' : d \in chunks \/ d = c
    BY <1>2
<1> HIDE DEF c
<1>10. chunks' = chunks \cup {c}
    BY <1>2 DEF c
<1> QED BY <1>1, <1>4, <1>7, <1>8, <1>9, <1>10

\* The next chunk is one that is still to be deleted.
LEMMA NextChunkFacts ==
    ASSUME TypeOK, NEW e \in Executors, NextChunk(e)
    PROVE  /\ ex' \in [Executors -> Executor]
           /\ ex'[e].stage = ex[e].stage
           /\ \/ ex'[e].pc = "bindings" /\ \A c \in chunks : c.deleted
              \/ ex'[e].pc = "delete" /\ ex'[e].chunk \in Chunk
           /\ \A d \in Executors \ {e} : ex'[d] = ex[d]
<1>1. ex \in [Executors -> Executor] /\ ex[e] \in Executor /\ chunks \subseteq Chunk
    BY DEF TypeOK
<1>2. {"bindings", "delete"} \subseteq ExecutorPc
    BY DEF ExecutorPc
<1>3. CASE Pending = {} /\ Goto(e, "bindings")
    BY <1>2, <1>3, GotoTypes DEF Pending
<1>4. ASSUME NEW c \in Pending, ex' = [ex EXCEPT ![e].pc = "delete", ![e].chunk = c]
      PROVE  /\ ex' \in [Executors -> Executor] /\ ex'[e].stage = ex[e].stage
             /\ ex'[e].pc = "delete" /\ ex'[e].chunk \in Chunk
             /\ \A d \in Executors \ {e} : ex'[d] = ex[d]
    <2>1. c \in Chunk
        BY <1>1 DEF Pending
    <2> DEFINE x == [ex[e] EXCEPT !.pc = "delete", !.chunk = c]
    <2>2. x \in Executor /\ x.stage = ex[e].stage /\ x.pc = "delete" /\ x.chunk \in Chunk
        BY <1>1, <1>2, <2>1 DEF Executor
    <2>3. ex' = [ex EXCEPT ![e] = x]
        BY <1>1, <1>4
    <2> HIDE DEF x
    <2> QED BY <1>1, <2>2, <2>3
<1> QED BY <1>3, <1>4 DEF NextChunk

-----------------------------------------------------------------------------
(***************************************************************************)
(* The invariant.                                                          *)
(***************************************************************************)
\* Where the community is, from where its request is.
StageInv ==
    /\ req.stage \in {"none", "submitted", "inventoried", "aborted"} => community.state = "active"
    /\ req.stage = "approved" => community.state \in {"active", "quiescing"}
    /\ req.stage \in {"fenced", "drained", "bindings_removed"} => community.state = "fenced"
    /\ req.stage \in {"postgres_purged", "cache_purged", "logically_verified",
                      "retention_pending"} => community.state = "tombstone"

\* What begin_quiescing remembers: the flag the owners last set, once it has run.
ArchiveInv ==
    /\ ArchivedRestored
    /\ community.state \in {"quiescing", "fenced"} => req.quiesced /\ req.pre = wanted
    /\ community.state = "active" /\ req.stage \in {"submitted", "inventoried", "approved"}
           => ~req.quiesced

RowsInv ==
    req.stage \in {"postgres_purged", "cache_purged", "logically_verified",
                   "retention_pending"} => ~rows

\* Nothing is frozen before the fence, and then the chunks are what was listed.
FrozenInv ==
    /\ req.stage \in {"none", "submitted", "inventoried", "approved"} => req.manifest = None
    /\ FrozenChunksExact

\* Keys of the store that did not get there behind the fence without a lease.
Kept == store \ late

\* A chunk that is stamped, once all of them are, and what was verified.
ChunkInv ==
    /\ \A c \in chunks : c.deleted => /\ req.stage \in Destructive
                                      /\ c.key \in removed /\ c.key \notin Kept
    /\ req.stage \in Destructive \ {"drained"} => \A c \in chunks : c.deleted
    /\ req.stage \in {"logically_verified", "retention_pending"} => Kept = {}

\* The stage an executor works on, from where it is in it.
WorksOn(e) ==
    /\ ex[e].pc \in {"quiesce", "fence"} => ex[e].stage = "approved"
    /\ ex[e].pc \in {"check", "clear", "clearing", "list", "append", "appending",
                     "freeze", "drain"} => ex[e].stage = "fenced"
    /\ ex[e].pc \in {"next", "delete", "deleting", "stamp", "bindings"}
          => ex[e].stage = "drained"
    /\ ex[e].pc = "purge" => ex[e].stage = "bindings_removed"
    /\ ex[e].pc \in {"redis", "unlink", "cache"} => ex[e].stage = "postgres_purged"
    /\ ex[e].pc \in {"v_rows", "v_store", "v_cache", "verified"}
          => ex[e].stage = "cache_purged"
    /\ ex[e].pc = "retain" => ex[e].stage = "logically_verified"

\* What an executor has found stays true after it lost its lease: destruction
\* does not end, and what is gone does not come back under a lease.
Found(e) ==
    /\ ex[e].stage \in Destructive => req.stage \in Destructive
    /\ ex[e].pc \in {"delete", "deleting", "stamp"} => ex[e].chunk \in Chunk
    /\ ex[e].pc \in {"deleting", "stamp"} => ex[e].chunk.key \in removed
    /\ ex[e].pc = "deleting" /\ [gen |-> ex[e].gen, key |-> ex[e].chunk.key] \notin dels
          => ex[e].chunk.key \notin Kept
    /\ ex[e].pc = "stamp" => ex[e].chunk.key \notin Kept
    /\ ex[e].pc = "bindings" => \A c \in chunks : c.deleted
    /\ ex[e].pc \in {"v_cache", "verified"} => Kept \cap Objects = {}
    /\ ex[e].pc = "verified" => Kept = {}

ExecutorInv == \A e \in Executors : WorksOn(e) /\ Found(e)

Inv ==
    /\ TypeOK /\ StageInv /\ FenceExcludes /\ ArchiveInv /\ RowsInv /\ FrozenInv
    /\ ChunkInv /\ ExecutorInv

\* The invariant says what the runs check.
LEMMA InvImplies ==
    Inv => /\ FenceExcludes /\ RowsStayPurged /\ FrozenChunksExact
           /\ RemovedStaysRemoved /\ ArchivedRestored /\ VerifiedIsEmpty
<1> SUFFICES ASSUME Inv
             PROVE  /\ RowsStayPurged /\ FrozenChunksExact
                    /\ RemovedStaysRemoved /\ ArchivedRestored /\ VerifiedIsEmpty
    BY DEF Inv
<1>1. RowsStayPurged
    BY DEF Inv, RowsInv, StageInv, RowsStayPurged
<1>2. RemovedStaysRemoved
    BY DEF Inv, ChunkInv, RemovedStaysRemoved, Kept
<1>3. VerifiedIsEmpty
    BY DEF Inv, ChunkInv, RowsInv, VerifiedIsEmpty, Kept
<1> QED BY <1>1, <1>2, <1>3 DEF Inv, FrozenInv, ArchiveInv

\* The initial state.
LEMMA InvInit == Init => Inv
<1> SUFFICES ASSUME Init PROVE Inv
    OBVIOUS
<1>1. TypeOK
    BY TypeInit
<1>2. \A e \in Executors : ex[e].pc = "idle" /\ ex[e].stage = "none"
    BY FreshTypes DEF Init
<1>3. ExecutorInv
    BY <1>2 DEF ExecutorInv, WorksOn, Found, Destructive
<1>4. req.stage = "none" /\ req.manifest = None
    BY FreshTypes DEF Init
<1> QED BY <1>1, <1>3, <1>4 DEF Init, Inv, StageInv, FenceExcludes, ArchiveInv,
           ArchivedRestored, RowsInv, FrozenInv, FrozenChunksExact, ChunkInv, Destructive

-----------------------------------------------------------------------------
(***************************************************************************)
(* What no step undoes.                                                    *)
(***************************************************************************)
\* Destruction does not end, nothing comes back under a lease once it has begun,
\* no chunk is added then, and a delete that is waited for ends by landing.
Forward ==
    /\ req.stage \in Destructive => /\ req'.stage \in Destructive
                                    /\ Kept' \subseteq Kept
                                    /\ \A c \in chunks' : c \in chunks \/ c.deleted
    /\ removed \subseteq removed'
    /\ \A x \in dels : \/ x \in dels' \/ x.key \notin Kept'
                       \/ \A e \in Executors : ex[e].pc = "deleting" => ex[e].gen # x.gen

\* So what an executor that does not move has found stays found.
LEMMA ForwardFound ==
    ASSUME NEW e \in Executors, WorksOn(e), Found(e), Forward, ex'[e] = ex[e]
    PROVE  WorksOn(e)' /\ Found(e)'
<1>1. WorksOn(e)'
    BY DEF WorksOn
<1>2. ex[e].pc \in {"deleting", "stamp", "bindings", "v_cache", "verified"}
        => req.stage \in Destructive
    BY DEF WorksOn, Found, Destructive
<1>3. ex[e].stage \in Destructive => req'.stage \in Destructive
    BY DEF Found, Forward
<1>4. ex[e].pc \in {"deleting", "stamp"} => ex[e].chunk.key \in removed'
    BY DEF Found, Forward
<1>5. ASSUME ex[e].pc = "deleting",
             [gen |-> ex[e].gen, key |-> ex[e].chunk.key] \notin dels'
      PROVE  ex[e].chunk.key \notin Kept'
    <2> DEFINE x == [gen |-> ex[e].gen, key |-> ex[e].chunk.key]
    <2>1. CASE x \in dels
        <3>1. x.gen = ex[e].gen /\ x.key = ex[e].chunk.key
            OBVIOUS
        <3> QED BY <1>5, <2>1, <3>1 DEF Forward
    <2>2. CASE x \notin dels
        BY <1>2, <1>5, <2>2 DEF Found, Forward
    <2> QED BY <2>1, <2>2
<1>6. ex[e].pc = "stamp" => ex[e].chunk.key \notin Kept'
    BY <1>2 DEF Found, Forward
<1>7. ex[e].pc = "bindings" => \A c \in chunks' : c.deleted
    BY <1>2 DEF Found, Forward
<1>8. ex[e].pc \in {"v_cache", "verified"} => Kept' \cap Objects = {}
    BY <1>2 DEF Found, Forward
<1>9. ex[e].pc = "verified" => Kept' = {}
    BY <1>2 DEF Found, Forward
<1>10. ex[e].pc \in {"delete", "deleting", "stamp"} => ex[e].chunk \in Chunk
    BY DEF Found
<1> HIDE DEF Kept
<1> QED BY <1>1, <1>3, <1>4, <1>5, <1>6, <1>7, <1>8, <1>9, <1>10 DEF Found

\* One executor moves, or none does.
LEMMA OneMoves ==
    ASSUME ExecutorInv, Forward, NEW e \in Executors,
           \A d \in Executors \ {e} : ex'[d] = ex[d], WorksOn(e)', Found(e)'
    PROVE  ExecutorInv'
BY ForwardFound DEF ExecutorInv

LEMMA NoneMoves ==
    ASSUME ExecutorInv, Forward, UNCHANGED ex
    PROVE  ExecutorInv'
BY ForwardFound DEF ExecutorInv

\* A run that ends has nothing to keep to; one that begins neither.
LEMMA RunEnds ==
    ASSUME ExecutorInv, Forward, NEW e \in Executors,
           \A d \in Executors \ {e} : ex'[d] = ex[d],
           ex'[e].pc \in {"idle", "loop"}, ex'[e].stage \in {"none", ex[e].stage}
    PROVE  ExecutorInv'
<1>1. WorksOn(e)'
    BY DEF WorksOn
<1>2. ex'[e].stage \in Destructive => req'.stage \in Destructive
    BY DEF ExecutorInv, Found, Forward, Destructive
<1>3. Found(e)'
    BY <1>2 DEF Found
<1> QED BY <1>1, <1>3, OneMoves

\* The request's stage and what goes with it are unchanged, and so are the
\* community and the writers.
SameRequest ==
    /\ req'.stage = req.stage /\ req'.manifest = req.manifest
    /\ req'.quiesced = req.quiesced /\ req'.pre = req.pre
    /\ UNCHANGED <<community, rows, wanted, wr, lease>>

LEMMA SameRequestKeeps ==
    ASSUME Inv, SameRequest
    PROVE  StageInv' /\ FenceExcludes' /\ ArchiveInv' /\ RowsInv'
<1>1. StageInv' /\ RowsInv'
    BY DEF Inv, SameRequest, StageInv, RowsInv
<1>2. FenceExcludes'
    BY DEF Inv, SameRequest, FenceExcludes
<1>3. ArchiveInv'
    BY DEF Inv, SameRequest, ArchiveInv, ArchivedRestored
<1> QED BY <1>1, <1>2, <1>3

\* A step that leaves the chunks alone too.
LEMMA SameChunks ==
    ASSUME Inv, Forward, SameRequest, UNCHANGED chunks
    PROVE  /\ StageInv' /\ FenceExcludes' /\ ArchiveInv' /\ RowsInv' /\ FrozenInv'
           /\ ChunkInv'
<1>1. FrozenInv'
    BY DEF Inv, SameRequest, FrozenInv, FrozenChunksExact
<1>2. ChunkInv'
    BY DEF Inv, SameRequest, Forward, ChunkInv, Destructive
<1> QED BY <1>1, <1>2, SameRequestKeeps

\* A step of which nobody but its executor knows.
LEMMA Quiet ==
    ASSUME Inv, UNCHANGED <<dbVars, writerVars, storeVars>>
    PROVE  /\ Forward /\ SameRequest
           /\ StageInv' /\ FenceExcludes' /\ ArchiveInv' /\ RowsInv' /\ FrozenInv'
           /\ ChunkInv'
<1>1. Forward
    BY DEF Forward, Kept, dbVars, storeVars
<1>2. SameRequest
    BY DEF SameRequest, dbVars, writerVars
<1> QED BY <1>1, <1>2, SameChunks DEF dbVars

LEMMA QuietStep ==
    ASSUME Inv, NEW e \in Executors, NEW pc \in ExecutorPc, Goto(e, pc),
           UNCHANGED <<dbVars, writerVars, storeVars, faults>>, WorksOn(e)', Found(e)'
    PROVE  Inv'
<1>1. TypeOK'
    BY GotoTypes DEF Inv, TypeOK, dbVars, writerVars, storeVars
<1>2. ExecutorInv'
    BY GotoTypes, OneMoves, Quiet DEF Inv
<1> QED BY <1>1, <1>2, Quiet DEF Inv

-----------------------------------------------------------------------------
(***************************************************************************)
(* The relay nodes, the owners and the operator keep the invariant.        *)
(***************************************************************************)
\* No lease is live once destruction has begun.
LEMMA Fenced ==
    ASSUME Inv, req.stage \in Destructive \cup {"fenced"}
    PROVE  /\ community.state \in {"fenced", "tombstone"}
           /\ \A w \in Writers : lease[w] = None
BY DEF Inv, StageInv, FenceExcludes, Destructive

LEMMA WriterFence ==
    ASSUME TypeOK, FenceExcludes, NEW w \in Writers, WriterStep(w)
    PROVE  FenceExcludes'
<1>a. wr \in [Writers -> WriterPc] /\ lease \in [Writers -> Nat \cup {None}]
    BY DEF TypeOK
<1>b. UNCHANGED community
    BY WriterTypes
<1>1. CASE AcquireServingWrite(w)
    <2>1. \A v \in Writers : lease'[v] = lease[v] \/ lease'[v] = community.gen
        BY <1>a, <1>1 DEF AcquireServingWrite
    <2>2. \A v \in Writers : wr'[v] = wr[v] \/ wr'[v] = "held"
        BY <1>a, <1>1 DEF AcquireServingWrite
    <2> QED BY <1>b, <1>1, <2>1, <2>2 DEF AcquireServingWrite, FenceExcludes
<1>2. CASE GuardWithLease(w)
    <2>1. /\ \A v \in Writers : wr'[v] = wr[v] \/ wr'[v] = "leased"
          /\ UNCHANGED lease /\ community.state \in {"active", "quiescing"}
        BY <1>a, <1>2 DEF GuardWithLease, ServingLeaseValid
    <2> QED BY <1>b, <2>1 DEF FenceExcludes
<1>3. CASE GuardTransaction(w)
    <2>1. /\ \A v \in Writers : wr'[v] = wr[v] \/ wr'[v] = "plain"
          /\ UNCHANGED lease /\ community.state = "active"
        BY <1>a, <1>3 DEF GuardTransaction
    <2> QED BY <1>b, <2>1 DEF FenceExcludes
<1>4. CASE ~(AcquireServingWrite(w) \/ GuardWithLease(w) \/ GuardTransaction(w))
    <2>1. /\ \A v \in Writers : wr'[v] = wr[v] \/ wr'[v] \notin {"plain", "leased"}
          /\ \A v \in Writers : lease'[v] = lease[v] \/ lease'[v] = None
        BY <1>a, <1>4 DEF WriterStep, Protect, Land, Put, LoseWrite, ProtectDone,
              CommitWithLease, Finish, DropGuard, ExpireServingLease, CommitTransaction
    <2> QED BY <1>b, <2>1 DEF FenceExcludes
<1> QED BY <1>1, <1>2, <1>3, <1>4

\* Every step of a relay node.
LEMMA WriterInv ==
    ASSUME Inv, NEW w \in Writers, WriterStep(w)
    PROVE  Inv'
<1>1. TypeOK' /\ UNCHANGED <<community, req, chunks, wanted, ex, dels, removed>>
    BY WriterTypes DEF Inv
<1>2. FenceExcludes'
    BY WriterFence DEF Inv
<1>3. rows' = rows \/ wr[w] \in {"plain", "leased"}
    BY DEF WriterStep, AcquireServingWrite, Protect, Land, LoseWrite, ProtectDone,
           GuardWithLease, CommitWithLease, Finish, DropGuard, ExpireServingLease,
           GuardTransaction, CommitTransaction, dbVars
<1>4. RowsInv'
    BY <1>1, <1>3 DEF Inv, RowsInv, StageInv, FenceExcludes
<1>5. req.stage \in Destructive => Kept' \subseteq Kept
    <2>1. CASE Land(w)
        BY <2>1, Fenced DEF Land, Put, Kept
    <2>2. CASE ~Land(w)
        <3>1. UNCHANGED <<store, late>>
            BY <2>2 DEF WriterStep, AcquireServingWrite, Protect, LoseWrite, ProtectDone,
                   GuardWithLease, CommitWithLease, Finish, DropGuard, ExpireServingLease,
                   GuardTransaction, CommitTransaction, storeVars
        <3> QED BY <3>1 DEF Kept
    <2> QED BY <2>1, <2>2
<1>6. Forward
    BY <1>1, <1>5 DEF Forward
<1>7. ExecutorInv'
    BY <1>1, <1>6, NoneMoves DEF Inv
<1>8. StageInv' /\ FrozenInv'
    BY <1>1 DEF Inv, StageInv, FrozenInv, FrozenChunksExact
<1>9. ArchiveInv'
    BY <1>1 DEF Inv, ArchiveInv, ArchivedRestored
<1>10. ChunkInv'
    BY <1>1, <1>5 DEF Inv, ChunkInv, Destructive
<1> QED BY <1>1, <1>2, <1>4, <1>7, <1>8, <1>9, <1>10 DEF Inv

\* The owners' flag.
LEMMA ArchivedInv ==
    ASSUME Inv, NEW a \in BOOLEAN, SetArchived(a)
    PROVE  Inv'
<1>1. TypeOK'
    BY OperatorTypes DEF Inv
<1>2. /\ community'.state = "active" /\ community'.archived = a /\ wanted' = a
      /\ community.state = "active" /\ community'.gen = community.gen
      /\ UNCHANGED <<req, chunks, rows, ex, wr, lease, dels, store, late, removed>>
    BY DEF SetArchived, Inv, TypeOK, CommunityRow, writerVars, storeVars
<1>3. Forward
    BY <1>2 DEF Forward, Kept
<1>4. ExecutorInv'
    BY <1>2, <1>3, NoneMoves DEF Inv
<1>5. ArchiveInv'
    BY <1>2 DEF Inv, ArchiveInv, ArchivedRestored
<1>6. StageInv' /\ RowsInv' /\ FrozenInv'
    BY <1>2 DEF Inv, StageInv, RowsInv, FrozenInv, FrozenChunksExact
<1>7. FenceExcludes'
    BY <1>2 DEF Inv, FenceExcludes
<1>8. ChunkInv'
    BY <1>2 DEF Inv, ChunkInv, Kept
<1> QED BY <1>1, <1>4, <1>5, <1>6, <1>7, <1>8 DEF Inv

\* Steps that only touch the request's lease, its retries and its block.
LEMMA LeaseOnly ==
    ASSUME Inv, TypeOK', SameRequest, UNCHANGED <<chunks, storeVars>>,
           \/ UNCHANGED ex
           \/ \E e \in Executors : /\ \A d \in Executors \ {e} : ex'[d] = ex[d]
                                   /\ ex'[e].pc \in {"idle", "loop"}
                                   /\ ex'[e].stage \in {"none", ex[e].stage}
    PROVE  Inv'
<1>1. Forward
    BY DEF Forward, SameRequest, Kept, storeVars
<1>2. ExecutorInv'
    BY <1>1, NoneMoves, RunEnds DEF Inv
<1> QED BY <1>1, <1>2, SameChunks DEF Inv

LEMMA LeaseStepInv ==
    ASSUME Inv, Unblock \/ BlockPreclaimSetup \/ ExpireLease \/ LapseLease
    PROVE  Inv'
<1>1. TypeOK'
    BY OperatorTypes DEF Inv, OperatorStep
<1>2. /\ req'.stage = req.stage /\ req'.manifest = req.manifest
      /\ req'.quiesced = req.quiesced /\ req'.pre = req.pre
    <2>1. req \in Request
        BY DEF Inv, TypeOK
    <2> QED BY <2>1 DEF Unblock, BlockPreclaimSetup, ExpireLease, LapseLease, Request
<1>3. UNCHANGED <<community, rows, wanted, wr, lease, chunks, storeVars, ex>>
    BY DEF Unblock, BlockPreclaimSetup, ExpireLease, LapseLease, writerVars
<1> QED BY <1>1, <1>2, <1>3, LeaseOnly DEF SameRequest

\* An executor's run fails, is stopped or crashes.
LEMMA FaultInv ==
    ASSUME Inv, NEW e \in Executors, ExecutorFault(e)
    PROVE  Inv'
<1>1. TypeOK'
    BY FaultStepTypes DEF Inv
<1>a. req \in Request /\ TypeOK
    BY DEF Inv, TypeOK
<1>2. CASE ClaimCatalogInvalid(e)
    <2>1. SameRequest
        BY <1>a, <1>2 DEF ClaimCatalogInvalid, Request, SameRequest, writerVars
    <2> QED BY <1>1, <1>2, <2>1, LeaseOnly DEF ClaimCatalogInvalid
<1>3. ASSUME NEW permanent \in BOOLEAN, StageFails(e, permanent) PROVE Inv'
    <2>1. SameRequest
        BY <1>a, <1>3, FailStageTypes DEF StageFails, SameRequest, writerVars
    <2> QED BY <1>a, <1>1, <1>3, <2>1, FailStageTypes, LeaseOnly DEF StageFails
<1>4. CASE Stop(e)
    <2>1. SameRequest
        BY <1>a, <1>4 DEF Stop, Request, SameRequest, writerVars
    <2> QED BY <1>a, <1>1, <1>4, <2>1, IdleTypes, LeaseOnly DEF Stop
<1>5. CASE Crash(e)
    <2>1. SameRequest
        BY <1>5 DEF Crash, SameRequest, writerVars, dbVars
    <2> QED BY <1>a, <1>1, <1>5, <2>1, IdleTypes, LeaseOnly DEF Crash, dbVars
<1> QED BY <1>2, <1>3, <1>4, <1>5 DEF ExecutorFault

\* The operator's steps before anything is destroyed.
LEMMA OperatorInv ==
    ASSUME Inv, Submit \/ FreezeInventory \/ Approve \/ Abort
    PROVE  Inv'
<1>1. TypeOK'
    BY OperatorTypes DEF Inv, OperatorStep
<1>a. req \in Request
    BY DEF Inv, TypeOK
<1>2. /\ req.stage \notin Destructive /\ req'.stage \notin Destructive
      /\ UNCHANGED <<rows, wanted, ex, wr, lease, dels, store, removed>>
    <2>1. UNCHANGED <<rows, wanted, ex, wr, lease, dels, store, removed>>
        BY DEF Submit, FreezeInventory, Approve, Abort, writerVars, storeVars
    <2>2. req.stage \notin Destructive
        BY DEF Submit, FreezeInventory, Approve, Abort, Destructive
    <2>3. req'.stage \in {"submitted", "inventoried", "approved", "aborted"}
        BY <1>a, FreshTypes DEF Submit, FreezeInventory, Approve, Abort, Request
    <2> QED BY <2>1, <2>2, <2>3 DEF Destructive
<1>3. Forward
    BY <1>2 DEF Forward
<1>4. ExecutorInv'
    BY <1>2, <1>3, NoneMoves DEF Inv
<1>5. chunks' = {} \/ chunks' = chunks
    BY DEF Submit, FreezeInventory, Approve, Abort
<1>6. \A c \in chunks : ~c.deleted
    BY <1>2 DEF Inv, ChunkInv
<1>7. ChunkInv'
    <2>1. \A c \in chunks' : ~c.deleted
        BY <1>5, <1>6
    <2> QED BY <1>2, <2>1 DEF ChunkInv, Destructive
<1>8. CASE Submit
    <2>1. /\ req'.stage = "submitted" /\ req'.manifest = None /\ ~req'.quiesced
          /\ UNCHANGED community /\ community.state = "active"
        <3>1. NewRequest \in Request
            BY FreshTypes
        <3> QED BY <1>8, <3>1, FreshTypes DEF Submit, Request
    <2>2. StageInv' /\ RowsInv' /\ FrozenInv'
        BY <2>1 DEF StageInv, RowsInv, FrozenInv, FrozenChunksExact
    <2>3. FenceExcludes' /\ ArchiveInv'
        BY <1>2, <2>1 DEF Inv, FenceExcludes, ArchiveInv, ArchivedRestored
    <2> QED BY <1>1, <1>4, <1>7, <2>2, <2>3 DEF Inv
<1>9. CASE FreezeInventory \/ Approve
    <2>1. /\ req'.stage \in {"inventoried", "approved"} /\ req'.manifest = req.manifest
          /\ req'.quiesced = req.quiesced /\ UNCHANGED community
          /\ req.stage \in {"submitted", "inventoried"}
        BY <1>9, <1>a DEF FreezeInventory, Approve, Request
    <2>2. StageInv' /\ RowsInv' /\ FrozenInv'
        BY <2>1 DEF Inv, StageInv, RowsInv, FrozenInv, FrozenChunksExact
    <2>3. FenceExcludes'
        BY <1>2, <2>1 DEF Inv, FenceExcludes
    <2>4. ArchiveInv'
        BY <1>2, <2>1 DEF Inv, StageInv, ArchiveInv, ArchivedRestored
    <2> QED BY <1>1, <1>4, <1>7, <2>2, <2>3, <2>4 DEF Inv
<1>10. CASE Abort
    <2>1. /\ req'.stage = "aborted" /\ community'.state = "active"
          /\ community'.archived = IF req.quiesced THEN req.pre ELSE community.archived
          /\ \A w \in Writers : lease[w] = None /\ wr[w] \notin {"plain", "leased"}
          /\ req.stage \in {"approved", "fenced"}
          /\ community.state \in {"active", "quiescing", "fenced"}
        BY <1>10, <1>a DEF Abort, Request, NoServingLease, OpenTx
    <2>2. StageInv' /\ RowsInv' /\ FrozenInv'
        BY <2>1 DEF StageInv, RowsInv, FrozenInv, FrozenChunksExact
    <2>3. FenceExcludes'
        BY <1>2, <2>1 DEF FenceExcludes
    <2>4. ArchiveInv'
        BY <1>2, <2>1 DEF Inv, StageInv, ArchiveInv, ArchivedRestored
    <2> QED BY <1>1, <1>4, <1>7, <2>2, <2>3, <2>4 DEF Inv
<1> QED BY <1>8, <1>9, <1>10

\* The store's own steps.
LEMMA StoreInv ==
    ASSUME Inv, StoreStep
    PROVE  Inv'
<1>1. TypeOK'
    BY FaultStepTypes DEF Inv
<1>2. SameRequest /\ UNCHANGED <<chunks, ex, removed>>
    BY DEF StoreStep, LandDelete, LoseDelete, TouchCache, ExpireCache, SameRequest,
           dbVars, writerVars
<1>3. req.stage \in Destructive => Kept' \subseteq Kept
    <2>1. ASSUME NEW k \in CacheKeys, TouchCache(k), req.stage \in Destructive
          PROVE  Kept' \subseteq Kept
        BY <2>1, Fenced DEF TouchCache, Put, Kept
    <2>2. ASSUME NEW k \in CacheKeys, ExpireCache(k) PROVE Kept' \subseteq Kept
        BY <2>2 DEF ExpireCache, Kept
    <2>3. ASSUME NEW d \in dels, LandDelete(d) \/ LoseDelete(d) PROVE Kept' \subseteq Kept
        BY <2>3 DEF LandDelete, LoseDelete, Kept
    <2> QED BY <2>1, <2>2, <2>3 DEF StoreStep
<1>4. ASSUME NEW x \in dels, x \notin dels'
      PROVE  \/ x.key \notin Kept'
             \/ \A e \in Executors : ex[e].pc = "deleting" => ex[e].gen # x.gen
    BY <1>4 DEF StoreStep, LandDelete, LoseDelete, TouchCache, ExpireCache, Kept
<1>5. Forward
    BY <1>2, <1>3, <1>4 DEF Forward, SameRequest
<1> QED BY <1>1, <1>2, <1>5, NoneMoves, SameChunks DEF Inv

-----------------------------------------------------------------------------
(***************************************************************************)
(* The executors keep the invariant.                                       *)
(***************************************************************************)
\* An executor with a valid lease works on the request's stage.
LEMMA Verified ==
    ASSUME Inv, NEW e \in Executors, VerifyLease(e)
    PROVE  WorksOn(e) /\ Found(e) /\ req.stage = ex[e].stage
BY DEF Inv, ExecutorInv, VerifyLease

\* Claiming a request, starting a stage, and the ends of a run.
LEMMA RunInv ==
    ASSUME Inv, NEW e \in Executors, Claim(e) \/ StartStage(e) \/ Exit(e)
    PROVE  Inv'
<1>a. TypeOK
    BY DEF Inv
<1>1. CASE Claim(e)
    <2>1. /\ req' \in Request /\ ex' \in [Executors -> Executor]
          /\ req'.stage = req.stage /\ req'.manifest = req.manifest
          /\ req'.quiesced = req.quiesced /\ req'.pre = req.pre
          /\ ex'[e].pc = "loop" /\ ex'[e].stage = "none"
          /\ \A d \in Executors \ {e} : ex'[d] = ex[d]
        BY <1>a, <1>1, ClaimFacts
    <2>2. TypeOK'
        BY <1>a, <1>1, <2>1 DEF Claim, TypeOK, writerVars, storeVars
    <2>3. SameRequest
        BY <1>1, <2>1 DEF Claim, SameRequest, writerVars
    <2> QED BY <1>1, <2>1, <2>2, <2>3, LeaseOnly DEF Claim
<1>2. CASE StartStage(e)
    <2>1. /\ ex' \in [Executors -> Executor] /\ req.stage \in Runnable
          /\ ex'[e].pc = FirstStep(req.stage) /\ ex'[e].stage = req.stage
          /\ \A d \in Executors \ {e} : ex'[d] = ex[d]
        BY <1>a, <1>2, StartStageFacts
    <2>2. UNCHANGED <<dbVars, writerVars, storeVars, faults>>
        BY <1>2 DEF StartStage
    <2>3. TypeOK'
        BY <1>a, <2>1, <2>2 DEF TypeOK, dbVars, writerVars, storeVars
    <2>4. \/ req.stage = "approved" /\ ex'[e].pc = "quiesce"
          \/ req.stage = "fenced" /\ ex'[e].pc = "check"
          \/ req.stage = "drained" /\ ex'[e].pc = "next"
          \/ req.stage = "bindings_removed" /\ ex'[e].pc = "purge"
          \/ req.stage = "postgres_purged" /\ ex'[e].pc = "redis"
          \/ req.stage = "cache_purged" /\ ex'[e].pc = "v_rows"
          \/ req.stage = "logically_verified" /\ ex'[e].pc = "retain"
        BY <2>1 DEF Runnable, Stages, FirstStep
    <2>5. WorksOn(e)'
        BY <2>1, <2>4 DEF WorksOn
    <2>6. Found(e)'
        BY <2>1, <2>2, <2>4 DEF Found, dbVars
    <2>7. ExecutorInv'
        BY <2>1, <2>2, <2>5, <2>6, OneMoves, Quiet DEF Inv
    <2> QED BY <2>2, <2>3, <2>7, Quiet DEF Inv
<1>3. CASE Exit(e)
    <2>1. /\ ex' \in [Executors -> Executor]
          /\ ex'[e].pc = "idle" /\ ex'[e].stage = "none"
          /\ \A d \in Executors \ {e} : ex'[d] = ex[d]
        BY <1>a, <1>3, IdleTypes DEF Exit
    <2>2. TypeOK'
        BY <1>a, <1>3, <2>1 DEF Exit, TypeOK, dbVars, writerVars, storeVars
    <2>3. SameRequest
        BY <1>3 DEF Exit, SameRequest, dbVars, writerVars
    <2> QED BY <1>3, <2>1, <2>2, <2>3, LeaseOnly DEF Exit, dbVars
<1> QED BY <1>1, <1>2, <1>3

\* A stage that fails.
LEMMA FailInv ==
    ASSUME Inv, NEW e \in Executors, NEW permanent \in BOOLEAN, FailStage(e, permanent),
           UNCHANGED <<community, chunks, rows, wanted, writerVars, storeVars, faults>>
    PROVE  Inv'
<1>1. TypeOK
    BY DEF Inv
<1>2. TypeOK'
    BY <1>1, FailStageTypes DEF TypeOK, writerVars, storeVars
<1>3. SameRequest
    BY <1>1, FailStageTypes DEF SameRequest, writerVars
<1> QED BY <1>1, <1>2, <1>3, FailStageTypes, LeaseOnly

\* Steps that only move their executor on within its stage.
LEMMA StayInv ==
    ASSUME Inv, NEW e \in Executors,
           \/ DrainCheck(e) \/ ClearCheck(e) \/ AppendCheck(e) \/ DeleteDone(e)
           \/ RedisCheck(e) \/ VerifyRows(e) \/ VerifyStore(e) \/ VerifyCache(e)
    PROVE  Inv'
<1>a. TypeOK /\ WorksOn(e) /\ Found(e)
    BY DEF Inv, ExecutorInv
<1>b. {"drain", "clear", "clearing", "appending", "stamp", "unlink", "v_store", "v_cache",
       "verified"} \subseteq ExecutorPc
    BY DEF ExecutorPc
<1>1. ASSUME NEW pc \in ExecutorPc, Goto(e, pc), pc \in {"drain", "clear", "clearing", "appending"},
             ex[e].stage = "fenced", UNCHANGED <<dbVars, writerVars, storeVars, faults>>
      PROVE  Inv'
    <2>1. ex'[e].pc = pc /\ ex'[e].stage = "fenced"
        BY <1>a, <1>1, GotoTypes
    <2>2. WorksOn(e)' /\ Found(e)'
        BY <1>1, <2>1 DEF WorksOn, Found, Destructive
    <2> QED BY <1>1, <2>2, QuietStep
<1>2. CASE DrainCheck(e) \/ ClearCheck(e) \/ AppendCheck(e)
    BY <1>a, <1>b, <1>1, <1>2 DEF DrainCheck, ClearCheck, AppendCheck, WorksOn
<1>3. CASE DeleteDone(e)
    <2>1. /\ ex'[e].pc = "stamp" /\ ex'[e].stage = ex[e].stage /\ ex'[e].chunk = ex[e].chunk
        BY <1>a, <1>b, <1>3, GotoTypes DEF DeleteDone
    <2>2. WorksOn(e)'
        BY <1>a, <1>3, <2>1 DEF WorksOn, DeleteDone
    <2>3. Found(e)'
        <3>1. ex[e].chunk \in Chunk /\ ex[e].chunk.key \in removed /\ ex[e].chunk.key \notin Kept
            BY <1>a, <1>3 DEF DeleteDone, Found
        <3>2. UNCHANGED <<req, removed>> /\ Kept' = Kept
            BY <1>3 DEF DeleteDone, dbVars, storeVars, Kept
        <3> QED BY <1>a, <2>1, <3>1, <3>2 DEF Found
    <2> QED BY <1>b, <1>3, <2>2, <2>3, QuietStep DEF DeleteDone
<1>4. CASE RedisCheck(e)
    <2>1. ex'[e].pc = "unlink" /\ ex'[e].stage = ex[e].stage /\ UNCHANGED req
        BY <1>a, <1>b, <1>4, GotoTypes DEF RedisCheck, dbVars
    <2>2. WorksOn(e)' /\ Found(e)'
        BY <1>a, <1>4, <2>1 DEF WorksOn, Found, RedisCheck
    <2> QED BY <1>b, <1>4, <2>2, QuietStep DEF RedisCheck
<1>5. CASE VerifyRows(e)
    <2>1. ex'[e].pc = "v_store" /\ ex'[e].stage = ex[e].stage /\ UNCHANGED req
        BY <1>a, <1>b, <1>5, GotoTypes DEF VerifyRows, dbVars
    <2>2. WorksOn(e)' /\ Found(e)'
        BY <1>a, <1>5, <2>1 DEF WorksOn, Found, VerifyRows
    <2> QED BY <1>b, <1>5, <2>2, QuietStep DEF VerifyRows
<1>6. CASE VerifyStore(e)
    <2>1. ex'[e].pc = "v_cache" /\ ex'[e].stage = ex[e].stage /\ UNCHANGED req
        BY <1>a, <1>b, <1>6, GotoTypes DEF VerifyStore, dbVars
    <2>2. Kept' \cap Objects = {}
        BY <1>6 DEF VerifyStore, storeVars, Kept
    <2>3. WorksOn(e)' /\ Found(e)'
        BY <1>a, <1>6, <2>1, <2>2 DEF WorksOn, Found, VerifyStore
    <2> QED BY <1>b, <1>6, <2>3, QuietStep DEF VerifyStore
<1>7. CASE VerifyCache(e)
    <2>1. ex'[e].pc = "verified" /\ ex'[e].stage = ex[e].stage /\ UNCHANGED req
        BY <1>a, <1>b, <1>7, GotoTypes DEF VerifyCache, dbVars
    <2>2. Kept \cap Objects = {} /\ store \subseteq Objects \cup CacheKeys
        BY <1>a, <1>7 DEF VerifyCache, Found, TypeOK
    <2>3. Kept' = {}
        BY <1>7, <2>2 DEF VerifyCache, storeVars, Kept
    <2>4. WorksOn(e)' /\ Found(e)'
        BY <1>a, <1>7, <2>1, <2>3 DEF WorksOn, Found, VerifyCache
    <2> QED BY <1>b, <1>7, <2>4, QuietStep DEF VerifyCache
<1> QED BY <1>2, <1>3, <1>4, <1>5, <1>6, <1>7

\* Steps that end in a failure of their stage.
LEMMA RefusedInv ==
    ASSUME Inv, NEW e \in Executors,
           NotDrained(e) \/ AppendConflict(e) \/ FreezeMismatch(e) \/ KeyLeft(e)
    PROVE  Inv'
BY FailInv DEF NotDrained, AppendConflict, FreezeMismatch, KeyLeft

\* begin_quiescing remembers the owners' flag before it overwrites it.
LEMMA QuiesceInv ==
    ASSUME Inv, NEW e \in Executors, BeginQuiescing(e)
    PROVE  Inv'
<1>a. TypeOK /\ req \in Request /\ community \in CommunityRow
    BY DEF Inv, TypeOK
<1>b. req.stage = "approved" /\ ex[e].stage = "approved"
    BY Verified DEF BeginQuiescing, WorksOn
<1>1. /\ community' \in CommunityRow /\ community'.state = "quiescing"
      /\ community'.gen = community.gen /\ community'.archived
    BY <1>a DEF BeginQuiescing, CommunityRow
<1>2. /\ req' \in Request /\ req'.stage = req.stage /\ req'.manifest = req.manifest
      /\ req'.quiesced /\ req'.pre = (IF req.quiesced THEN req.pre ELSE community.archived)
    <2>1. community.archived \in BOOLEAN
        BY <1>a DEF CommunityRow
    <2>2. CASE req.quiesced
        BY <1>a, <2>2 DEF BeginQuiescing
    <2>3. CASE ~req.quiesced
        <3>1. req' = [req EXCEPT !.quiesced = TRUE, !.pre = community.archived]
            BY <2>3 DEF BeginQuiescing
        <3> QED BY <1>a, <2>1, <2>3, <3>1 DEF Request
    <2> QED BY <2>2, <2>3
<1>3. UNCHANGED <<chunks, rows, wanted, wr, lease, wire, dels, store, late, removed, faults>>
    BY DEF BeginQuiescing, writerVars, storeVars
<1>4. "fence" \in ExecutorPc
    BY DEF ExecutorPc
<1>5. /\ ex' \in [Executors -> Executor] /\ ex'[e].pc = "fence"
      /\ ex'[e].stage = "approved" /\ \A d \in Executors \ {e} : ex'[d] = ex[d]
    BY <1>a, <1>b, <1>4, GotoTypes DEF BeginQuiescing
<1>6. TypeOK'
    BY <1>a, <1>1, <1>2, <1>3, <1>5 DEF TypeOK
<1>7. Forward
    BY <1>b, <1>3 DEF Forward, Destructive
<1>8. WorksOn(e)' /\ Found(e)'
    BY <1>5 DEF WorksOn, Found, Destructive
<1>9. ExecutorInv'
    BY <1>5, <1>7, <1>8, OneMoves DEF Inv
<1>10. StageInv' /\ RowsInv' /\ FrozenInv'
    BY <1>b, <1>1, <1>2, <1>3 DEF Inv, StageInv, RowsInv, FrozenInv, FrozenChunksExact
<1>11. FenceExcludes'
    <2>1. \A w \in Writers : wr[w] \notin {"plain", "leased"}
        BY DEF BeginQuiescing, OpenTx
    <2> QED BY <1>1, <1>3, <2>1 DEF Inv, FenceExcludes
<1>12. ArchiveInv'
    <2>1. community.state = "active" => ~req.quiesced /\ community.archived = wanted
        BY <1>b DEF Inv, ArchiveInv, ArchivedRestored
    <2>2. community.state = "quiescing" => req.quiesced /\ req.pre = wanted
        BY DEF Inv, ArchiveInv
    <2>3. community.state \in {"active", "quiescing"}
        BY DEF BeginQuiescing
    <2>4. req'.pre = wanted
        BY <1>2, <2>1, <2>2, <2>3
    <2> QED BY <1>1, <1>2, <1>3, <2>4 DEF ArchiveInv, ArchivedRestored
<1>13. ChunkInv'
    BY <1>2, <1>3 DEF Inv, ChunkInv, Kept
<1> QED BY <1>6, <1>9, <1>10, <1>11, <1>12, <1>13 DEF Inv

\* fence finds no writer left.
LEMMA FenceInv ==
    ASSUME Inv, NEW e \in Executors, FenceCommunity(e)
    PROVE  Inv'
<1>a. TypeOK /\ req \in Request /\ community \in CommunityRow
    BY DEF Inv, TypeOK
<1>b. req.stage = "approved" /\ ex[e].stage = "approved"
    BY Verified DEF FenceCommunity, WorksOn
<1>c. "loop" \in ExecutorPc /\ "fenced" \in Stages
    BY DEF Stages, ExecutorPc
<1>1. community' \in CommunityRow /\ community'.state = "fenced"
    <2>1. community' = [community EXCEPT !.state = "fenced", !.gen = community.gen + 1]
        BY <1>a DEF FenceCommunity, CommunityRow
    <2>2. community.gen + 1 \in Nat
        BY <1>a DEF CommunityRow
    <2> QED BY <1>a, <2>1, <2>2 DEF CommunityRow
<1>2. /\ req' \in Request /\ req'.stage = "fenced" /\ req'.manifest = req.manifest
      /\ req'.quiesced = req.quiesced /\ req'.pre = req.pre
    <2>1. /\ Advanced("fenced") \in Request /\ Advanced("fenced").stage = "fenced"
          /\ Advanced("fenced").manifest = req.manifest
          /\ Advanced("fenced").quiesced = req.quiesced /\ Advanced("fenced").pre = req.pre
        BY <1>a, <1>c, AdvancedTypes
    <2>2. req' = [Advanced("fenced") EXCEPT !.fgen = community.gen + 1]
        BY DEF FenceCommunity
    <2>3. community.gen + 1 \in Nat
        BY <1>a DEF CommunityRow
    <2> QED BY <2>1, <2>2, <2>3 DEF Request
<1>3. UNCHANGED <<chunks, rows, wanted, wr, lease, wire, dels, store, late, removed, faults>>
    BY DEF FenceCommunity, writerVars, storeVars
<1>5. /\ ex' \in [Executors -> Executor] /\ ex'[e].pc = "loop"
      /\ ex'[e].stage = ex[e].stage /\ \A d \in Executors \ {e} : ex'[d] = ex[d]
    BY <1>a, <1>c, GotoTypes DEF FenceCommunity
<1>6. TypeOK'
    BY <1>a, <1>1, <1>2, <1>3, <1>5 DEF TypeOK
<1>7. Forward
    BY <1>b, <1>3 DEF Forward, Destructive
<1>9. ExecutorInv'
    BY <1>5, <1>7, RunEnds DEF Inv
<1>10. req.manifest = None
    BY <1>b DEF Inv, FrozenInv
<1>11. StageInv' /\ RowsInv' /\ FrozenInv'
    BY <1>1, <1>2, <1>10 DEF StageInv, RowsInv, FrozenInv, FrozenChunksExact
<1>12. FenceExcludes'
    <2>1. \A w \in Writers : wr[w] \notin {"plain", "leased"} /\ lease[w] = None
        BY DEF FenceCommunity, OpenTx, NoServingLease
    <2> QED BY <1>3, <2>1 DEF FenceExcludes
<1>13. ArchiveInv'
    BY <1>1, <1>2, <1>3 DEF Inv, ArchiveInv, ArchivedRestored, FenceCommunity
<1>14. ChunkInv'
    <2>1. \A c \in chunks : ~c.deleted
        BY <1>b DEF Inv, ChunkInv, Destructive
    <2> QED BY <1>2, <1>3, <2>1 DEF ChunkInv, Destructive
<1> QED BY <1>6, <1>9, <1>11, <1>12, <1>13, <1>14 DEF Inv

\* Writing the chunks: what the trigger refuses is what would break a frozen list.
LEMMA ManifestInv ==
    ASSUME Inv, NEW e \in Executors, ClearChunks(e) \/ ListObjects(e) \/ AppendChunk(e)
    PROVE  Inv'
<1>a. TypeOK /\ WorksOn(e) /\ Found(e)
    BY DEF Inv, ExecutorInv
<1>b. {"list", "freeze", "append"} \subseteq ExecutorPc
    BY DEF ExecutorPc
<1>1. ASSUME ex'[e].pc \in {"list", "freeze", "append"}, ex'[e].stage = ex[e].stage,
             ex[e].stage = "fenced"
      PROVE  WorksOn(e)' /\ Found(e)'
    BY <1>1 DEF WorksOn, Found, Destructive
<1>2. CASE ClearChunks(e)
    <2>1. /\ ex' \in [Executors -> Executor] /\ ex'[e].pc = "list"
          /\ ex'[e].stage = ex[e].stage /\ \A d \in Executors \ {e} : ex'[d] = ex[d]
        BY <1>a, <1>b, <1>2, GotoTypes DEF ClearChunks
    <2>2. ex[e].stage = "fenced" /\ chunks' = {}
        BY <1>a, <1>2 DEF ClearChunks, WorksOn
    <2>3. UNCHANGED <<community, req, rows, wanted, writerVars, storeVars, faults>>
        BY <1>2 DEF ClearChunks
    <2>4. TypeOK'
        BY <1>a, <2>1, <2>2, <2>3 DEF TypeOK, writerVars, storeVars
    <2>5. Forward /\ SameRequest
        BY <2>2, <2>3 DEF Forward, SameRequest, Kept, writerVars, storeVars
    <2>6. ExecutorInv'
        BY <1>1, <2>1, <2>2, <2>5, OneMoves DEF Inv
    <2>7. FrozenInv'
        <3>1. chunks = {} \/ req.manifest = None
                \/ req.stage \in {"logically_verified", "retention_pending"}
            BY <1>2 DEF ClearChunks, ClearMayDelete
        <3> QED BY <2>2, <2>3, <3>1 DEF Inv, FrozenInv, FrozenChunksExact
    <2>8. ChunkInv'
        BY <2>2, <2>3 DEF Inv, ChunkInv, Kept, storeVars
    <2> QED BY <2>4, <2>5, <2>6, <2>7, <2>8, SameRequestKeeps DEF Inv
<1>3. CASE ListObjects(e)
    <2>1. /\ ex' \in [Executors -> Executor] /\ ex'[e].pc \in {"freeze", "append"}
          /\ ex'[e].stage = ex[e].stage /\ \A d \in Executors \ {e} : ex'[d] = ex[d]
        BY <1>a, <1>3, ListFacts
    <2>2. ex[e].stage = "fenced" /\ UNCHANGED <<dbVars, writerVars, storeVars, faults>>
        BY <1>a, <1>3 DEF ListObjects, WorksOn
    <2>3. TypeOK'
        BY <1>a, <2>1, <2>2 DEF TypeOK, dbVars, writerVars, storeVars
    <2>4. ExecutorInv'
        BY <1>1, <2>1, <2>2, OneMoves, Quiet DEF Inv
    <2> QED BY <2>2, <2>3, <2>4, Quiet DEF Inv
<1>4. CASE AppendChunk(e)
    <2>1. /\ ex' \in [Executors -> Executor] /\ ex'[e].pc \in {"freeze", "append"}
          /\ ex'[e].stage = ex[e].stage /\ \A d \in Executors \ {e} : ex'[d] = ex[d]
          /\ chunks' \subseteq Chunk
          /\ \A c \in chunks' : c \in chunks \/ ~c.deleted
        BY <1>a, <1>4, AppendFacts
    <2>2. ex[e].stage = "fenced" /\ req.stage = "fenced" /\ req.manifest = None
        BY <1>a, <1>4 DEF AppendChunk, AppendMayInsert, WorksOn
    <2>3. UNCHANGED <<community, req, rows, wanted, writerVars, storeVars, faults>>
        BY <1>4 DEF AppendChunk
    <2>4. TypeOK'
        BY <1>a, <2>1, <2>3 DEF TypeOK, writerVars, storeVars
    <2>5. Forward
        BY <2>2, <2>3 DEF Forward, Destructive, storeVars
    <2>6. SameRequest
        BY <2>3 DEF SameRequest, writerVars
    <2>7. ExecutorInv'
        BY <1>1, <2>1, <2>2, <2>5, OneMoves DEF Inv
    <2>8. FrozenInv'
        BY <2>2, <2>3 DEF FrozenInv, FrozenChunksExact
    <2>9. ChunkInv'
        <3>1. \A c \in chunks' : ~c.deleted
            BY <2>1, <2>2 DEF Inv, ChunkInv, Destructive
        <3> QED BY <2>2, <2>3, <3>1 DEF ChunkInv, Destructive
    <2> QED BY <2>4, <2>6, <2>7, <2>8, <2>9, SameRequestKeeps DEF Inv
<1> QED BY <1>2, <1>3, <1>4

\* freeze_destructive_storage_manifest freezes a listing the chunks match.
LEMMA FreezeInv ==
    ASSUME Inv, NEW e \in Executors, FreezeManifest(e)
    PROVE  Inv'
<1>a. TypeOK /\ req \in Request /\ ex \in [Executors -> Executor]
    BY DEF Inv, TypeOK
<1>b. req.stage = "fenced" /\ ex[e].stage = "fenced"
    BY Verified DEF FreezeManifest, VerifyLeaseAndFence, WorksOn
<1>c. "drain" \in ExecutorPc /\ ex[e].listed \in SUBSET Objects
    BY <1>a DEF ExecutorPc, Executor
<1>1. /\ ex' \in [Executors -> Executor] /\ ex'[e].pc = "drain"
      /\ ex'[e].stage = ex[e].stage /\ \A d \in Executors \ {e} : ex'[d] = ex[d]
    BY <1>a, <1>c, GotoTypes DEF FreezeManifest
<1>2. /\ req' \in Request /\ req'.stage = req.stage /\ req'.manifest = ex[e].listed
      /\ req'.quiesced = req.quiesced /\ req'.pre = req.pre
    BY <1>a, <1>c DEF FreezeManifest, Request
<1>3. UNCHANGED <<community, chunks, rows, wanted, writerVars, storeVars, faults>>
    BY DEF FreezeManifest
<1>4. TypeOK'
    BY <1>a, <1>1, <1>2, <1>3 DEF TypeOK, writerVars, storeVars
<1>5. Forward
    BY <1>b, <1>3 DEF Forward, Destructive, storeVars
<1>6. ExecutorInv'
    <2>1. WorksOn(e)' /\ Found(e)'
        BY <1>b, <1>1 DEF WorksOn, Found, Destructive
    <2> QED BY <1>1, <1>5, <2>1, OneMoves DEF Inv
<1>7. StageInv' /\ RowsInv'
    BY <1>2, <1>3 DEF Inv, StageInv, RowsInv
<1>8. FenceExcludes'
    BY <1>3 DEF Inv, FenceExcludes, writerVars
<1>9. ArchiveInv'
    BY <1>2, <1>3 DEF Inv, ArchiveInv, ArchivedRestored
<1>10. FrozenInv'
    <2>1. {c.key : c \in chunks} = ex[e].listed /\ \A c, d \in chunks : c.key = d.key => c = d
        BY DEF FreezeManifest, ChunksMatch
    <2> QED BY <1>b, <1>2, <1>3, <2>1 DEF FrozenInv, FrozenChunksExact
<1>11. ChunkInv'
    <2>1. \A c \in chunks : ~c.deleted
        BY <1>b DEF Inv, ChunkInv, Destructive
    <2> QED BY <1>b, <1>2, <1>3, <2>1 DEF ChunkInv, Destructive
<1> QED BY <1>4, <1>6, <1>7, <1>8, <1>9, <1>10, <1>11 DEF Inv

\* Moving a request that is fenced on to a stage of its destruction.
LEMMA AdvanceFacts ==
    ASSUME Inv, NEW e \in Executors, NEW to \in Destructive, VerifyLease(e),
           req.stage \in Destructive \cup {"fenced"},
           \/ req' = Advanced(to)
           \/ req' = [Advanced(to) EXCEPT !.owner = None, !.live = FALSE],
           Goto(e, "loop"), chunks' \subseteq chunks,
           UNCHANGED <<wanted, writerVars, storeVars, faults>>,
           rows' \in BOOLEAN, community' \in CommunityRow
    PROVE  /\ TypeOK' /\ ExecutorInv'
           /\ req'.stage = to /\ req'.manifest = req.manifest
           /\ req'.quiesced = req.quiesced /\ req'.pre = req.pre
<1>a. TypeOK
    BY DEF Inv
<1>b. "loop" \in ExecutorPc /\ to \in Stages
    BY DEF ExecutorPc, Destructive, Stages
<1>1. /\ ex' \in [Executors -> Executor] /\ ex'[e].pc = "loop"
      /\ ex'[e].stage = ex[e].stage /\ \A d \in Executors \ {e} : ex'[d] = ex[d]
    BY <1>a, <1>b, GotoTypes
<1>2. /\ req' \in Request /\ req'.stage = to /\ req'.manifest = req.manifest
      /\ req'.quiesced = req.quiesced /\ req'.pre = req.pre
    <2>1. /\ Advanced(to) \in Request /\ Advanced(to).stage = to
          /\ Advanced(to).manifest = req.manifest
          /\ Advanced(to).quiesced = req.quiesced /\ Advanced(to).pre = req.pre
        BY <1>a, <1>b, AdvancedTypes
    <2> QED BY <2>1 DEF Request
<1>3. TypeOK'
    BY <1>a, <1>1, <1>2 DEF TypeOK, writerVars, storeVars
<1>4. Forward
    BY <1>2 DEF Forward, Kept, storeVars
<1>5. ExecutorInv'
    BY <1>1, <1>4, RunEnds DEF Inv
<1> QED BY <1>2, <1>3, <1>5

\* The steps that only move the request on: each has found what its stage promises.
LEMMA MarkInv ==
    ASSUME Inv, NEW e \in Executors,
           \/ MarkDrained(e) \/ MarkBindingsRemoved(e) \/ MarkCachePurged(e)
           \/ MarkLogicallyVerified(e) \/ MarkRetentionPending(e)
    PROVE  Inv'
<1> DEFINE Move(from, to) ==
        /\ req.stage = from /\ VerifyLease(e) /\ Goto(e, "loop")
        /\ \/ req' = Advanced(to)
           \/ req' = [Advanced(to) EXCEPT !.owner = None, !.live = FALSE]
        /\ UNCHANGED <<community, rows, wanted, writerVars, storeVars, faults>>
<1>a. \/ Move("fenced", "drained") /\ UNCHANGED chunks
      \/ /\ Move("drained", "bindings_removed") /\ UNCHANGED chunks
         /\ \A c \in chunks : c.deleted
      \/ Move("postgres_purged", "cache_purged") /\ UNCHANGED chunks
      \/ Move("cache_purged", "logically_verified") /\ chunks' = {} /\ Kept = {}
      \/ Move("logically_verified", "retention_pending") /\ UNCHANGED chunks
    <2>1. CASE MarkDrained(e)
        BY <2>1, Verified DEF MarkDrained, VerifyLeaseAndFence, WorksOn
    <2>2. CASE MarkBindingsRemoved(e)
        BY <2>2, Verified DEF MarkBindingsRemoved, VerifyLeaseAndFence, WorksOn, Found
    <2>3. CASE MarkCachePurged(e)
        BY <2>3, Verified DEF MarkCachePurged, VerifyLeaseAndFence, WorksOn
    <2>4. CASE MarkLogicallyVerified(e)
        BY <2>4, Verified DEF MarkLogicallyVerified, VerifyLeaseAndFence, WorksOn, Found
    <2>5. CASE MarkRetentionPending(e)
        BY <2>5, Verified DEF MarkRetentionPending, VerifyLeaseAndFence, WorksOn
    <2> QED BY <2>1, <2>2, <2>3, <2>4, <2>5
<1>b. community \in CommunityRow /\ rows \in BOOLEAN
    BY DEF Inv, TypeOK
<1>1. ASSUME NEW from \in Destructive \cup {"fenced"}, NEW to \in Destructive,
             Move(from, to), chunks' \subseteq chunks
      PROVE  /\ TypeOK' /\ ExecutorInv' /\ req.stage = from /\ req'.stage = to
             /\ req'.manifest = req.manifest
             /\ req'.quiesced = req.quiesced /\ req'.pre = req.pre
             /\ UNCHANGED <<community, rows, wanted, wr, lease, store, late, removed>>
             /\ Kept' = Kept
    <2>1. /\ req.stage \in Destructive \cup {"fenced"} /\ VerifyLease(e) /\ Goto(e, "loop")
          /\ rows' \in BOOLEAN /\ community' \in CommunityRow
          /\ UNCHANGED <<wanted, writerVars, storeVars, faults>>
          /\ \/ req' = Advanced(to)
             \/ req' = [Advanced(to) EXCEPT !.owner = None, !.live = FALSE]
        BY <1>b, <1>1
    <2>2. /\ TypeOK' /\ ExecutorInv'
          /\ req'.stage = to /\ req'.manifest = req.manifest
          /\ req'.quiesced = req.quiesced /\ req'.pre = req.pre
        BY <1>1, <2>1, AdvanceFacts
    <2>3. UNCHANGED <<community, rows, wanted, wr, lease, store, late, removed>>
        BY <1>1 DEF writerVars, storeVars
    <2> QED BY <1>1, <2>2, <2>3 DEF Kept
<1>c. {"drained", "bindings_removed", "postgres_purged", "cache_purged",
       "logically_verified", "retention_pending"} \subseteq Destructive
    BY DEF Destructive
<1>2. /\ TypeOK' /\ ExecutorInv' /\ Kept' = Kept
      /\ req'.manifest = req.manifest /\ req'.quiesced = req.quiesced /\ req'.pre = req.pre
      /\ UNCHANGED <<community, rows, wanted, wr, lease, store, late, removed>>
      /\ \/ req.stage = "fenced" /\ req'.stage = "drained" /\ UNCHANGED chunks
         \/ /\ req.stage = "drained" /\ req'.stage = "bindings_removed" /\ UNCHANGED chunks
            /\ \A c \in chunks : c.deleted
         \/ req.stage = "postgres_purged" /\ req'.stage = "cache_purged" /\ UNCHANGED chunks
         \/ /\ req.stage = "cache_purged" /\ req'.stage = "logically_verified"
            /\ chunks' = {} /\ Kept = {}
         \/ /\ req.stage = "logically_verified" /\ req'.stage = "retention_pending"
            /\ UNCHANGED chunks
    <2> HIDE DEF Move
    <2> QED BY <1>a, <1>c, <1>1
<1>3. StageInv' /\ RowsInv'
    BY <1>2 DEF Inv, StageInv, RowsInv
<1>4. FenceExcludes'
    BY <1>2 DEF Inv, FenceExcludes
<1>5. ArchiveInv'
    BY <1>2 DEF Inv, StageInv, ArchiveInv, ArchivedRestored
<1>6. FrozenInv'
    BY <1>2 DEF Inv, FrozenInv, FrozenChunksExact
<1>7. ChunkInv'
    BY <1>2 DEF Inv, ChunkInv, Destructive
<1> QED BY <1>2, <1>3, <1>4, <1>5, <1>6, <1>7 DEF Inv

\* purge_postgres finds no writer that could still commit.
LEMMA PurgeInv ==
    ASSUME Inv, NEW e \in Executors, PurgePostgres(e)
    PROVE  Inv'
<1>a. req.stage = "bindings_removed" /\ VerifyLease(e)
    BY Verified DEF PurgePostgres, VerifyLeaseAndFence, WorksOn
<1>1. /\ community' \in CommunityRow /\ community'.state = "tombstone"
      /\ community'.gen = community.gen
    <2>1. community \in CommunityRow
        BY DEF Inv, TypeOK
    <2> QED BY <2>1 DEF PurgePostgres, CommunityRow
<1>2. /\ rows' = FALSE /\ UNCHANGED <<chunks, wanted, writerVars, storeVars, faults>>
      /\ Goto(e, "loop") /\ req' = Advanced("postgres_purged")
    BY DEF PurgePostgres
<1>3. /\ TypeOK' /\ ExecutorInv'
      /\ req'.stage = "postgres_purged" /\ req'.manifest = req.manifest
    <2>1. "postgres_purged" \in Destructive /\ req.stage \in Destructive \cup {"fenced"}
        BY <1>a DEF Destructive
    <2> QED BY <1>a, <1>1, <1>2, <2>1, AdvanceFacts
<1>4. StageInv' /\ RowsInv'
    BY <1>1, <1>2, <1>3 DEF StageInv, RowsInv
<1>5. FenceExcludes'
    <2>1. \A w \in Writers : lease[w] = None /\ wr[w] \notin {"plain", "leased"}
        BY <1>a DEF Inv, StageInv, FenceExcludes
    <2> QED BY <1>2, <2>1 DEF FenceExcludes, writerVars
<1>6. ArchiveInv'
    BY <1>1 DEF ArchiveInv, ArchivedRestored
<1>7. FrozenInv'
    BY <1>a, <1>2, <1>3 DEF Inv, FrozenInv, FrozenChunksExact
<1>8. ChunkInv'
    BY <1>a, <1>2, <1>3 DEF Inv, ChunkInv, Destructive, Kept, storeVars
<1> QED BY <1>3, <1>4, <1>5, <1>6, <1>7, <1>8 DEF Inv

\* Deleting one chunk after the other, and the cache.
LEMMA DeleteInv ==
    ASSUME Inv, NEW e \in Executors, NextChunk(e) \/ SendDelete(e) \/ PurgeRedis(e)
    PROVE  Inv'
<1>a. TypeOK /\ WorksOn(e) /\ Found(e)
    BY DEF Inv, ExecutorInv
<1>b. {"deleting", "cache"} \subseteq ExecutorPc
    BY DEF ExecutorPc
<1>1. CASE NextChunk(e)
    <2>1. /\ ex' \in [Executors -> Executor] /\ ex'[e].stage = ex[e].stage
          /\ \/ ex'[e].pc = "bindings" /\ \A c \in chunks : c.deleted
             \/ ex'[e].pc = "delete" /\ ex'[e].chunk \in Chunk
          /\ \A d \in Executors \ {e} : ex'[d] = ex[d]
        BY <1>a, <1>1, NextChunkFacts
    <2>2. ex[e].stage = "drained" /\ UNCHANGED <<dbVars, writerVars, storeVars, faults>>
        BY <1>a, <1>1 DEF NextChunk, WorksOn
    <2>3. TypeOK'
        BY <1>a, <2>1, <2>2 DEF TypeOK, dbVars, writerVars, storeVars
    <2>4. WorksOn(e)'
        BY <2>1, <2>2 DEF WorksOn
    <2>5. Found(e)'
        BY <1>a, <2>1, <2>2 DEF Found, dbVars
    <2>6. ExecutorInv'
        BY <2>1, <2>2, <2>4, <2>5, OneMoves, Quiet DEF Inv
    <2> QED BY <2>2, <2>3, <2>6, Quiet DEF Inv
<1>2. CASE SendDelete(e)
    <2> DEFINE x == [gen |-> ex[e].gen, key |-> ex[e].chunk.key]
    <2>1. /\ ex' \in [Executors -> Executor] /\ ex'[e].pc = "deleting"
          /\ ex'[e].stage = ex[e].stage /\ ex'[e].chunk = ex[e].chunk
          /\ ex'[e].gen = ex[e].gen /\ \A d \in Executors \ {e} : ex'[d] = ex[d]
        BY <1>a, <1>b, <1>2, GotoTypes DEF SendDelete
    <2>2. ex[e].stage = "drained" /\ ex[e].chunk \in Chunk
        BY <1>a, <1>2 DEF SendDelete, WorksOn, Found
    <2>3. ex[e].chunk.key \in Objects /\ ex[e].gen \in Nat
        BY <1>a, <2>2 DEF Chunk, TypeOK, Executor
    <2>4. /\ dels' = dels \cup {x} /\ removed' = removed \cup {ex[e].chunk.key}
          /\ UNCHANGED <<dbVars, writerVars, store, late, faults>>
        BY <1>2 DEF SendDelete
    <2>5. x \in [gen: Nat, key: Objects]
        BY <2>3
    <2> HIDE DEF x
    <2>6. TypeOK'
        BY <1>a, <2>1, <2>3, <2>4, <2>5 DEF TypeOK, dbVars, writerVars
    <2>7. Forward /\ SameRequest /\ UNCHANGED chunks
        BY <2>4 DEF Forward, SameRequest, Kept, dbVars, writerVars
    <2>8. WorksOn(e)'
        BY <2>1, <2>2 DEF WorksOn
    <2>9. Found(e)'
        <3>1. [gen |-> ex'[e].gen, key |-> ex'[e].chunk.key] \in dels'
            BY <2>1, <2>4 DEF x
        <3>2. ex'[e].chunk.key \in removed' /\ ex'[e].chunk \in Chunk
            BY <2>1, <2>2, <2>4
        <3>3. req'.stage \in Destructive
            BY <1>a, <2>2, <2>4 DEF Found, Destructive, dbVars
        <3> QED BY <2>1, <3>1, <3>2, <3>3 DEF Found
    <2>10. ExecutorInv'
        BY <2>1, <2>7, <2>8, <2>9, OneMoves DEF Inv
    <2> QED BY <2>6, <2>7, <2>10, SameChunks DEF Inv
<1>3. CASE PurgeRedis(e)
    <2>1. /\ ex' \in [Executors -> Executor] /\ ex'[e].pc = "cache"
          /\ ex'[e].stage = ex[e].stage /\ \A d \in Executors \ {e} : ex'[d] = ex[d]
        BY <1>a, <1>b, <1>3, GotoTypes DEF PurgeRedis
    <2>2. /\ ex[e].stage = "postgres_purged" /\ store' = store \ CacheKeys
          /\ UNCHANGED <<dbVars, writerVars, dels, late, removed, faults>>
        BY <1>a, <1>3 DEF PurgeRedis, WorksOn
    <2>3. TypeOK'
        BY <1>a, <2>1, <2>2 DEF TypeOK, dbVars, writerVars
    <2>4. Forward /\ SameRequest /\ UNCHANGED chunks
        BY <2>2 DEF Forward, SameRequest, Kept, dbVars, writerVars
    <2>5. WorksOn(e)' /\ Found(e)'
        BY <1>a, <2>1, <2>2 DEF WorksOn, Found, dbVars
    <2>6. ExecutorInv'
        BY <2>1, <2>4, <2>5, OneMoves DEF Inv
    <2> QED BY <2>3, <2>4, <2>6, SameChunks DEF Inv
<1> QED BY <1>1, <1>2, <1>3

\* mark_manifest_chunk_deleted stamps a chunk whose object is gone.
LEMMA StampInv ==
    ASSUME Inv, NEW e \in Executors, StampChunk(e)
    PROVE  Inv'
<1>a. TypeOK /\ WorksOn(e) /\ Found(e) /\ chunks \subseteq Chunk
    BY DEF Inv, ExecutorInv, TypeOK
<1>b. req.stage = "drained" /\ ex[e].stage = "drained" /\ "next" \in ExecutorPc
    BY Verified DEF StampChunk, VerifyLeaseAndFence, WorksOn, ExecutorPc
<1> DEFINE c0 == ex[e].chunk
           c1 == [c0 EXCEPT !.deleted = TRUE]
<1>1. c0 \in chunks /\ chunks' = (chunks \ {c0}) \cup {c1}
    BY DEF StampChunk
<1>2. c1 \in Chunk /\ c1.deleted /\ c1.key = c0.key
    BY <1>a, <1>1 DEF Chunk
<1>3. c0.key \in removed /\ c0.key \notin Kept
    BY <1>a DEF StampChunk, Found
<1>4. /\ ex' \in [Executors -> Executor] /\ ex'[e].pc = "next"
      /\ ex'[e].stage = ex[e].stage /\ \A d \in Executors \ {e} : ex'[d] = ex[d]
    BY <1>a, <1>b, GotoTypes DEF StampChunk
<1>5. UNCHANGED <<community, req, rows, wanted, writerVars, storeVars, faults>>
    BY DEF StampChunk
<1> HIDE DEF c0, c1
<1>6. TypeOK'
    BY <1>a, <1>1, <1>2, <1>4, <1>5 DEF TypeOK, writerVars, storeVars
<1>7. Forward /\ SameRequest
    BY <1>1, <1>2, <1>5 DEF Forward, SameRequest, Kept, writerVars, storeVars
<1>8. WorksOn(e)' /\ Found(e)'
    BY <1>b, <1>4, <1>5 DEF WorksOn, Found, Destructive
<1>9. ExecutorInv'
    BY <1>4, <1>7, <1>8, OneMoves DEF Inv
<1>10. FrozenInv'
    <2>1. {c.key : c \in chunks'} = {c.key : c \in chunks}
        BY <1>1, <1>2
    <2>2. ASSUME \A c, d \in chunks : c.key = d.key => c = d
          PROVE  \A c, d \in chunks' : c.key = d.key => c = d
        BY <1>1, <1>2, <2>2
    <2> QED BY <1>5, <2>1, <2>2 DEF Inv, FrozenInv, FrozenChunksExact
<1>11. ChunkInv'
    <2>1. UNCHANGED <<req, removed>> /\ Kept' = Kept
        BY <1>5 DEF Kept, storeVars
    <2>2. \A c \in chunks' : c.deleted => c.key \in removed /\ c.key \notin Kept
        BY <1>1, <1>2, <1>3 DEF Inv, ChunkInv
    <2> QED BY <1>b, <2>1, <2>2 DEF ChunkInv, Destructive
<1> QED BY <1>6, <1>7, <1>9, <1>10, <1>11, SameRequestKeeps DEF Inv

LEMMA ExecutorStepInv ==
    ASSUME Inv, NEW e \in Executors, ExecutorStep(e)
    PROVE  Inv'
BY RunInv, StayInv, RefusedInv, QuiesceInv, FenceInv, ManifestInv, FreezeInv, MarkInv,
   PurgeInv, DeleteInv, StampInv DEF ExecutorStep

LEMMA NextInv ==
    ASSUME Inv, Next
    PROVE  Inv'
BY WriterInv, ArchivedInv, OperatorInv, LeaseStepInv, RunInv, ExecutorStepInv, FaultInv,
   StoreInv DEF Next, OperatorStep

\* Nothing that happens while no step is taken.
LEMMA StutterInv ==
    ASSUME Inv, UNCHANGED vars
    PROVE  Inv'
<1>1. /\ UNCHANGED <<community, req, chunks, rows, wanted, ex, wr, lease, wire>>
      /\ UNCHANGED <<dels, store, late, removed, faults>>
    BY DEF vars, dbVars, writerVars, storeVars
<1>2. TypeOK'
    BY <1>1 DEF Inv, TypeOK
<1>3. SameRequest /\ Forward
    BY <1>1 DEF SameRequest, Forward, Kept
<1> QED BY <1>1, <1>2, <1>3, NoneMoves, SameChunks DEF Inv

-----------------------------------------------------------------------------
(***************************************************************************)
(* The safety of a deletion.                                               *)
(***************************************************************************)
\* The inductive invariant holds in every reachable state, whatever executors,
\* writers and operators do and whichever of them fail.
THEOREM DeletionInvariant == Spec => []Inv
<1>1. Inv /\ [Next]_vars => Inv'
    BY NextInv, StutterInv
<1> QED BY InvInit, <1>1, PTL DEF Spec

\* Every variable keeps its type, whatever fails and however often.
THEOREM DeletionTypes == Spec => []TypeOK
<1>1. Inv => TypeOK
    BY DEF Inv
<1> QED BY <1>1, DeletionInvariant, PTL

\* begin_quiescing, fence and abort exclude the relay nodes' writers.
THEOREM WritersExcluded == Spec => []FenceExcludes
BY InvImplies, DeletionInvariant, PTL

\* What purge_postgres purged stays purged.
THEOREM RowsPurged == Spec => []RowsStayPurged
BY InvImplies, DeletionInvariant, PTL

\* The trigger of migration 0029 keeps a frozen list of objects as it is.
THEOREM FrozenListKept == Spec => []FrozenChunksExact
BY InvImplies, DeletionInvariant, PTL

\* A chunk is stamped, and the bindings marked removed, only when the objects are gone.
THEOREM ObjectsRemoved == Spec => []RemovedStaysRemoved
BY InvImplies, DeletionInvariant, PTL

\* Whatever was retried or aborted, an active community has its owners' flag.
THEOREM FlagRestored == Spec => []ArchivedRestored
BY InvImplies, DeletionInvariant, PTL

\* A deletion that is reported verified has left nothing of what the community had.
THEOREM NothingLeft == Spec => []VerifiedIsEmpty
BY InvImplies, DeletionInvariant, PTL

-----------------------------------------------------------------------------
(***************************************************************************)
(* Deletion implements TenantLifecycle.  A write that lands before the     *)
(* fence is the tenant's write, purge_postgres, the deletes that land and  *)
(* purge_redis_namespace destroy, mark_drained dooms, abort reopens and    *)
(* mark_retention_pending buries; a write that lands behind the fence and  *)
(* what else nobody sees is a stutter.                                     *)
(***************************************************************************)
absPhase == CASE community.state = "active" -> "open"
              [] community.state = "quiescing" -> "closing"
              [] req.stage = "retention_pending" -> "gone"
              [] OTHER -> "sealed"
absData == (store \ late) \cup (IF rows THEN {None} ELSE {})
absDoomed == req.stage \in Destructive

\* Nothing is behind a fence that does not stand, and deletes in flight belong to
\* a destruction that has begun.
Strays ==
    /\ community.state \in {"active", "quiescing"} => late = {}
    /\ dels # {} => req.stage \in Destructive

\* What the tenant sees of a state, by the stage of its request.
LEMMA Phases ==
    ASSUME Inv
    PROVE  /\ community.state = "active" => absPhase = "open" /\ ~absDoomed
           /\ community.state = "quiescing" => absPhase = "closing" /\ ~absDoomed
           /\ community.state \in {"fenced", "tombstone"}
                => absPhase = IF req.stage = "retention_pending" THEN "gone" ELSE "sealed"
           /\ req.stage \in Destructive \cup {"fenced"}
                => community.state \in {"fenced", "tombstone"}
BY DEF Inv, TypeOK, CommunityRow, StageInv, Destructive, absPhase, absDoomed

\* A step the tenant does not see.
LEMMA Unseen ==
    ASSUME absPhase' = absPhase, absData' = absData, wanted' = wanted,
           absDoomed' <=> absDoomed
    PROVE  UNCHANGED Lifecycle!vars
<1>1. (req.stage \in Destructive)' = (req.stage \in Destructive)
    BY DEF absDoomed
<1> QED BY <1>1 DEF Lifecycle!vars, absPhase, absData

LEMMA Hidden ==
    ASSUME Inv, Strays, req'.stage = req.stage, UNCHANGED <<community, rows, wanted>>,
           UNCHANGED <<store, late>>, dels' # {} => req.stage \in Destructive
    PROVE  UNCHANGED Lifecycle!vars /\ Strays'
<1>1. absPhase' = absPhase /\ absData' = absData /\ (absDoomed' <=> absDoomed)
    BY DEF absPhase, absData, absDoomed
<1> QED BY <1>1, Unseen DEF Strays

\* A key is written: by the tenant, or behind its back.
LEMMA PutMaps ==
    ASSUME Inv, Strays, NEW k \in Objects \cup CacheKeys, NEW leased \in BOOLEAN,
           Put(k, leased), leased => community.state \in {"active", "quiescing"},
           UNCHANGED <<community, req, rows, wanted, dels>>
    PROVE  [Lifecycle!Next]_(Lifecycle!vars) /\ Strays'
<1>1. CASE community.state \in {"active", "quiescing"}
    <2>1. late = {} /\ late' = {} /\ store' = store \cup {k}
        BY <1>1 DEF Put, Strays
    <2>2. absData' = absData \cup {k}
        BY <2>1 DEF absData
    <2>3. absPhase \in {"open", "closing"} /\ absPhase' = absPhase
        BY <1>1, Phases DEF absPhase
    <2>4. Lifecycle!Write(k)
        BY <2>2, <2>3 DEF Lifecycle!Write, absPhase, absData
    <2> QED BY <2>1, <2>4 DEF Lifecycle!Next, Strays
<1>2. CASE community.state \notin {"active", "quiescing"}
    <2>1. store' \ late' = store \ late
        BY <1>2 DEF Put
    <2>2. absData' = absData /\ absPhase' = absPhase /\ (absDoomed' <=> absDoomed)
        BY <2>1 DEF absData, absPhase, absDoomed
    <2> QED BY <1>2, <2>2, Unseen DEF Strays
<1> QED BY <1>1, <1>2

\* A relay node writes while the tenant is open or closing.
LEMMA WriterMaps ==
    ASSUME Inv, Strays, NEW w \in Writers, WriterStep(w)
    PROVE  [Lifecycle!Next]_(Lifecycle!vars) /\ Strays'
<1>a. UNCHANGED <<community, req, wanted, dels>>
    BY WriterTypes DEF Inv
<1>1. CASE Land(w)
    <2>1. /\ wire[w] \in Objects \cup CacheKeys /\ Put(wire[w], lease[w] # None)
          /\ UNCHANGED rows
        BY <1>1 DEF Inv, TypeOK, Land, dbVars
    <2>2. lease[w] # None => community.state \in {"active", "quiescing"}
        BY DEF Inv, FenceExcludes
    <2>3. (lease[w] # None) \in BOOLEAN
        OBVIOUS
    <2> QED BY <1>a, <2>1, <2>2, <2>3, PutMaps
<1>2. CASE CommitWithLease(w) \/ CommitTransaction(w)
    <2>1. community.state \in {"active", "quiescing"}
        BY <1>2 DEF Inv, FenceExcludes, CommitWithLease, CommitTransaction
    <2>2. rows' = TRUE /\ UNCHANGED <<store, late>>
        BY <1>2 DEF CommitWithLease, CommitTransaction, storeVars
    <2>3. absData' = absData \cup {None}
        BY <2>2 DEF absData
    <2>4. absPhase \in {"open", "closing"} /\ absPhase' = absPhase
        BY <1>a, <2>1, Phases DEF absPhase
    <2>5. Lifecycle!Write(None)
        BY <1>a, <2>3, <2>4 DEF Lifecycle!Write, absPhase, absData
    <2> QED BY <1>a, <2>2, <2>5 DEF Lifecycle!Next, Strays
<1>3. CASE ~(Land(w) \/ CommitWithLease(w) \/ CommitTransaction(w))
    <2>1. UNCHANGED <<rows, store, late>>
        BY <1>3 DEF WriterStep, AcquireServingWrite, Protect, LoseWrite, ProtectDone,
               GuardWithLease, Finish, DropGuard, ExpireServingLease, GuardTransaction,
               dbVars, storeVars
    <2> QED BY <1>a, <2>1, Hidden DEF Strays
<1> QED BY <1>1, <1>2, <1>3

\* The owners and the operator.
LEMMA ArchiveMaps ==
    ASSUME Inv, Strays, NEW a \in BOOLEAN, SetArchived(a)
    PROVE  [Lifecycle!Next]_(Lifecycle!vars) /\ Strays'
<1>1. /\ community.state = "active" /\ community'.state = "active" /\ wanted' = a
      /\ UNCHANGED <<req, rows, store, late, dels>>
    BY DEF SetArchived, Inv, TypeOK, CommunityRow, storeVars
<1>2. absPhase = "open" /\ absPhase' = "open" /\ absData' = absData
    <2>1. req.stage # "retention_pending"
        BY <1>1 DEF Inv, StageInv
    <2> QED BY <1>1, <2>1 DEF absPhase, absData
<1>3. Lifecycle!Archive(a)
    BY <1>1, <1>2 DEF Lifecycle!Archive, absPhase, absData
<1> QED BY <1>1, <1>3 DEF Lifecycle!Next, Strays

LEMMA OperatorMaps ==
    ASSUME Inv, Strays, Submit \/ FreezeInventory \/ Approve \/ Abort
    PROVE  [Lifecycle!Next]_(Lifecycle!vars) /\ Strays'
<1>a. req \in Request
    BY DEF Inv, TypeOK
<1>1. req.stage \notin Destructive /\ dels = {}
    BY DEF Submit, FreezeInventory, Approve, Abort, Destructive, Strays
<1>2. req'.stage \in {"submitted", "inventoried", "approved", "aborted"}
    BY <1>a, FreshTypes DEF Submit, FreezeInventory, Approve, Abort, Request
<1>3. UNCHANGED <<rows, wanted, dels, store>>
    BY DEF Submit, FreezeInventory, Approve, Abort, storeVars
<1>4. ~absDoomed /\ ~absDoomed'
    BY <1>1, <1>2 DEF absDoomed, Destructive
<1>5. CASE Submit \/ FreezeInventory \/ Approve
    <2>1. community.state = "active" /\ UNCHANGED <<community, late>>
        BY <1>5 DEF Submit, FreezeInventory, Approve, Inv, StageInv, storeVars
    <2>2. absPhase' = absPhase /\ absData' = absData
        BY <1>1, <1>2, <1>3, <2>1 DEF absPhase, absData, Destructive
    <2> QED BY <1>1, <1>3, <1>4, <2>1, <2>2, Unseen DEF Strays
<1>6. CASE Abort
    <2>1. /\ community'.state = "active" /\ req.stage # "retention_pending" /\ late' = {}
          /\ community.state \in {"active", "quiescing", "fenced"}
        BY <1>6 DEF Abort
    <2>2. absPhase' = "open" /\ Strays'
        BY <1>1, <1>2, <1>3, <2>1 DEF absPhase, Strays
    <2>3. CASE community.state = "active"
        <3>1. absPhase = "open" /\ absData' = absData
            BY <1>3, <2>1, <2>3 DEF absPhase, absData, Strays
        <3> QED BY <1>3, <1>4, <2>2, <3>1, Unseen
    <2>4. CASE community.state # "active"
        <3> DEFINE strays == store \cap late
        <3>1. absPhase \in {"closing", "sealed"}
            BY <2>1, <2>4 DEF absPhase
        <3>2. (req.stage \in Destructive)' = (req.stage \in Destructive)
            BY <1>4 DEF absDoomed
        <3>3. absData' = absData \cup strays
            BY <1>3, <2>1 DEF absData
        <3>4. strays \in SUBSET (Objects \cup CacheKeys \cup {None})
            BY DEF Inv, TypeOK
        <3> HIDE DEF strays
        <3>5. Lifecycle!Reopen(strays)
            BY <1>3, <1>4, <2>2, <3>1, <3>2, <3>3
               DEF Lifecycle!Reopen, absPhase, absData, absDoomed
        <3> QED BY <2>2, <3>4, <3>5 DEF Lifecycle!Next
    <2> QED BY <2>3, <2>4
<1> QED BY <1>5, <1>6

LEMMA LeaseMaps ==
    ASSUME Inv, Strays, Unblock \/ BlockPreclaimSetup \/ ExpireLease \/ LapseLease
    PROVE  [Lifecycle!Next]_(Lifecycle!vars) /\ Strays'
<1>1. req'.stage = req.stage
    <2>1. req \in Request
        BY DEF Inv, TypeOK
    <2> QED BY <2>1 DEF Unblock, BlockPreclaimSetup, ExpireLease, LapseLease, Request
<1>2. UNCHANGED <<community, rows, wanted, dels, store, late>>
    BY DEF Unblock, BlockPreclaimSetup, ExpireLease, LapseLease, storeVars
<1> QED BY <1>1, <1>2, Hidden DEF Strays

LEMMA FaultMaps ==
    ASSUME Inv, Strays, NEW e \in Executors, ExecutorFault(e)
    PROVE  [Lifecycle!Next]_(Lifecycle!vars) /\ Strays'
<1>a. TypeOK /\ req \in Request
    BY DEF Inv, TypeOK
<1>1. req'.stage = req.stage
    <2>1. CASE ClaimCatalogInvalid(e) \/ Stop(e) \/ Crash(e)
        BY <1>a, <2>1 DEF ClaimCatalogInvalid, Stop, Crash, Request, dbVars
    <2>2. ASSUME NEW permanent \in BOOLEAN, StageFails(e, permanent)
          PROVE  req'.stage = req.stage
        BY <1>a, <2>2, FailStageTypes DEF StageFails
    <2> QED BY <2>1, <2>2 DEF ExecutorFault
<1>2. UNCHANGED <<community, rows, wanted, dels, store, late>>
    BY DEF ExecutorFault, ClaimCatalogInvalid, StageFails, Stop, Crash, dbVars, storeVars
<1> QED BY <1>1, <1>2, Hidden DEF Strays

\* Data that goes while the tenant is doomed: destroyed, or gone already.
LEMMA Destroys ==
    ASSUME Inv, Strays, NEW gone \in SUBSET (Objects \cup CacheKeys),
           req.stage \in Destructive, store' = store \ gone, dels' \subseteq dels,
           UNCHANGED <<community, req, rows, wanted, late>>
    PROVE  [Lifecycle!Next]_(Lifecycle!vars) /\ Strays'
<1>1. None \notin gone
    BY DeletionAssumption
<1>2. absData' = absData \ gone
    BY <1>1 DEF absData
<1>3. /\ community.state \in {"fenced", "tombstone"} /\ absPhase' = absPhase
      /\ Strays'
    BY Phases DEF absPhase, Strays
<1>4. CASE req.stage = "retention_pending"
    <2>1. store \ late = {}
        BY <1>4 DEF Inv, ChunkInv, Kept
    <2>2. absData' = absData
        BY <1>1, <1>2, <2>1 DEF absData
    <2> QED BY <1>3, <2>2, Unseen DEF absDoomed
<1>5. CASE req.stage # "retention_pending"
    <2>1. absPhase = "sealed"
        BY <1>3, <1>5, Phases
    <2>2. Lifecycle!Destroy(gone)
        BY <1>2, <1>3, <2>1 DEF Lifecycle!Destroy, absPhase, absData
    <2>3. gone \in SUBSET (Objects \cup CacheKeys \cup {None})
        OBVIOUS
    <2> QED BY <1>3, <2>2, <2>3 DEF Lifecycle!Next
<1> QED BY <1>4, <1>5

LEMMA StoreMaps ==
    ASSUME Inv, Strays, StoreStep
    PROVE  [Lifecycle!Next]_(Lifecycle!vars) /\ Strays'
<1>1. ASSUME NEW d \in dels, LandDelete(d)
      PROVE  [Lifecycle!Next]_(Lifecycle!vars) /\ Strays'
    <2>1. {d.key} \in SUBSET (Objects \cup CacheKeys) /\ req.stage \in Destructive
        BY DEF Inv, TypeOK, Strays
    <2>2. /\ store' = store \ {d.key} /\ dels' \subseteq dels
          /\ UNCHANGED <<community, req, rows, wanted, late>>
        BY <1>1 DEF LandDelete, dbVars
    <2> QED BY <2>1, <2>2, Destroys
<1>2. ASSUME NEW d \in dels, LoseDelete(d)
      PROVE  [Lifecycle!Next]_(Lifecycle!vars) /\ Strays'
    BY <1>2, Hidden DEF LoseDelete, dbVars, Strays
<1>3. ASSUME NEW k \in CacheKeys, TouchCache(k)
      PROVE  [Lifecycle!Next]_(Lifecycle!vars) /\ Strays'
    <2>1. Put(k, FALSE) /\ UNCHANGED <<community, req, rows, wanted, dels>>
        BY <1>3 DEF TouchCache, dbVars
    <2> QED BY <2>1, PutMaps
<1>4. ASSUME NEW k \in CacheKeys, ExpireCache(k)
      PROVE  [Lifecycle!Next]_(Lifecycle!vars) /\ Strays'
    <2>1. store' = store \ {k} /\ UNCHANGED <<community, req, rows, wanted, dels, late>>
        BY <1>4 DEF ExpireCache, dbVars
    <2>2. absData' = absData \ {k}
        BY <2>1, DeletionAssumption DEF absData
    <2>3. absPhase' = absPhase
        BY <2>1 DEF absPhase
    <2>4. Lifecycle!Expire(k)
        BY <2>1, <2>2, <2>3 DEF Lifecycle!Expire, absPhase, absData
    <2> QED BY <2>1, <2>4 DEF Lifecycle!Next, Strays
<1> QED BY <1>1, <1>2, <1>3, <1>4 DEF StoreStep

\* The steps of an executor that nobody else sees.
LEMMA QuietMaps ==
    ASSUME Inv, Strays, NEW e \in Executors,
           \/ Claim(e) \/ StartStage(e) \/ Exit(e) \/ NotDrained(e) \/ DrainCheck(e)
           \/ ClearCheck(e) \/ ClearChunks(e) \/ ListObjects(e) \/ AppendCheck(e)
           \/ AppendChunk(e) \/ AppendConflict(e) \/ FreezeManifest(e) \/ FreezeMismatch(e)
           \/ NextChunk(e) \/ SendDelete(e) \/ DeleteDone(e) \/ StampChunk(e)
           \/ RedisCheck(e) \/ VerifyRows(e) \/ VerifyStore(e) \/ VerifyCache(e) \/ KeyLeft(e)
    PROVE  [Lifecycle!Next]_(Lifecycle!vars) /\ Strays'
<1>a. TypeOK /\ req \in Request
    BY DEF Inv, TypeOK
<1>1. CASE Claim(e) \/ FreezeManifest(e)
    <2>1. /\ req'.stage = req.stage
          /\ UNCHANGED <<community, rows, wanted, dels, store, late>>
        BY <1>a, <1>1 DEF Claim, FreezeManifest, Request, storeVars
    <2> QED BY <2>1, Hidden DEF Strays
<1>2. CASE NotDrained(e) \/ AppendConflict(e) \/ FreezeMismatch(e) \/ KeyLeft(e)
    <2>1. PICK permanent \in BOOLEAN : FailStage(e, permanent)
        BY <1>2 DEF NotDrained, AppendConflict, FreezeMismatch, KeyLeft
    <2>2. req'.stage = req.stage
        BY <1>a, <2>1, FailStageTypes
    <2>3. UNCHANGED <<community, rows, wanted, dels, store, late>>
        BY <1>2 DEF NotDrained, AppendConflict, FreezeMismatch, KeyLeft, storeVars
    <2> QED BY <2>2, <2>3, Hidden DEF Strays
<1>3. CASE SendDelete(e)
    <2>1. req.stage \in Destructive
        BY <1>3, Verified DEF SendDelete, VerifyLeaseAndFence, WorksOn, Destructive
    <2> QED BY <1>3, <2>1, Hidden DEF SendDelete, dbVars, Strays
<1>4. CASE \/ ClearChunks(e) \/ AppendChunk(e) \/ StampChunk(e) \/ StartStage(e) \/ Exit(e)
           \/ DrainCheck(e) \/ ClearCheck(e) \/ ListObjects(e) \/ AppendCheck(e)
           \/ NextChunk(e) \/ DeleteDone(e) \/ RedisCheck(e) \/ VerifyRows(e)
           \/ VerifyStore(e) \/ VerifyCache(e)
    <2>1. UNCHANGED <<community, req, rows, wanted, dels, store, late>>
        BY <1>4 DEF ClearChunks, AppendChunk, StampChunk, StartStage, Exit, DrainCheck,
               ClearCheck, ListObjects, AppendCheck, NextChunk, DeleteDone, RedisCheck,
               VerifyRows, VerifyStore, VerifyCache, dbVars, storeVars
    <2> QED BY <2>1, Hidden DEF Strays
<1> QED BY <1>1, <1>2, <1>3, <1>4

\* Closing and sealing.
LEMMA SealMaps ==
    ASSUME Inv, Strays, NEW e \in Executors, BeginQuiescing(e) \/ FenceCommunity(e)
    PROVE  [Lifecycle!Next]_(Lifecycle!vars) /\ Strays'
<1>a. TypeOK /\ req \in Request /\ community \in CommunityRow /\ "fenced" \in Stages
    BY DEF Inv, TypeOK, Stages
<1>b. req.stage = "approved"
    BY Verified DEF BeginQuiescing, FenceCommunity, WorksOn
<1>1. UNCHANGED <<rows, wanted, dels, store, late>>
    BY DEF BeginQuiescing, FenceCommunity, storeVars
<1>2. req'.stage \in {"approved", "fenced"}
    <2>1. CASE BeginQuiescing(e)
        BY <1>a, <1>b, <2>1 DEF BeginQuiescing, Request
    <2>2. CASE FenceCommunity(e)
        <3>1. Advanced("fenced") \in Request /\ Advanced("fenced").stage = "fenced"
            BY <1>a, AdvancedTypes
        <3> QED BY <2>2, <3>1 DEF FenceCommunity, Request
    <2> QED BY <2>1, <2>2
<1>c. late = {} /\ dels = {}
    BY <1>b DEF Inv, StageInv, Strays, Destructive
<1>3. Strays' /\ absData' = absData /\ ~absDoomed /\ ~absDoomed'
    BY <1>b, <1>c, <1>1, <1>2 DEF Strays, absData, absDoomed, Destructive
<1>4. (req.stage \in Destructive)' = (req.stage \in Destructive)
    BY <1>3 DEF absDoomed
<1>5. CASE BeginQuiescing(e)
    <2>1. community'.state = "quiescing" /\ community.state \in {"active", "quiescing"}
        BY <1>a, <1>5 DEF BeginQuiescing, CommunityRow
    <2>2. absPhase' = "closing"
        BY <1>2, <2>1 DEF absPhase
    <2>3. CASE community.state = "active"
        <3>1. absPhase = "open"
            BY <1>b, <2>3 DEF absPhase
        <3>2. Lifecycle!Close
            BY <1>1, <1>3, <1>4, <2>2, <3>1 DEF Lifecycle!Close, absPhase, absData
        <3> QED BY <1>3, <3>2 DEF Lifecycle!Next
    <2>4. CASE community.state = "quiescing"
        <3>1. absPhase = "closing"
            BY <1>b, <2>4 DEF absPhase
        <3> QED BY <1>1, <1>3, <2>2, <3>1, Unseen
    <2> QED BY <2>1, <2>3, <2>4
<1>6. CASE FenceCommunity(e)
    <2>1. community'.state = "fenced" /\ community.state = "quiescing"
        BY <1>a, <1>6 DEF FenceCommunity, CommunityRow
    <2>2. absPhase = "closing" /\ absPhase' = "sealed"
        BY <1>b, <1>2, <2>1 DEF absPhase
    <2>3. Lifecycle!Seal
        BY <1>1, <1>3, <1>4, <2>2 DEF Lifecycle!Seal, absPhase, absData
    <2> QED BY <1>3, <2>3 DEF Lifecycle!Next
<1> QED BY <1>5, <1>6

\* Moving on through the stages of destruction: doomed first, buried last.
LEMMA MarkMaps ==
    ASSUME Inv, Strays, NEW e \in Executors,
           \/ MarkDrained(e) \/ MarkBindingsRemoved(e) \/ PurgePostgres(e) \/ PurgeRedis(e)
           \/ MarkCachePurged(e) \/ MarkLogicallyVerified(e) \/ MarkRetentionPending(e)
    PROVE  [Lifecycle!Next]_(Lifecycle!vars) /\ Strays'
<1>a. TypeOK /\ req \in Request /\ community \in CommunityRow
    BY DEF Inv, TypeOK
<1>b. \A to \in {"drained", "bindings_removed", "postgres_purged", "cache_purged",
                 "logically_verified", "retention_pending"} :
        /\ to \in Stages
        /\ Advanced(to) \in Request /\ Advanced(to).stage = to
        /\ [Advanced(to) EXCEPT !.owner = None, !.live = FALSE].stage = to
    <2>1. ASSUME NEW to \in Destructive
          PROVE  /\ to \in Stages
                 /\ Advanced(to) \in Request /\ Advanced(to).stage = to
        BY <1>a, AdvancedTypes DEF Destructive, Stages
    <2> QED BY <2>1 DEF Request, Destructive
<1>1. CASE PurgeRedis(e)
    <2>1. /\ store' = store \ CacheKeys /\ dels' \subseteq dels
          /\ UNCHANGED <<community, req, rows, wanted, late>>
        BY <1>1 DEF PurgeRedis, dbVars
    <2>2. req.stage \in Destructive
        BY <1>1 DEF Inv, ExecutorInv, PurgeRedis, WorksOn, Found, Destructive
    <2> QED BY <2>1, <2>2, Destroys
<1>2. CASE MarkDrained(e)
    <2>1. req.stage = "fenced"
        BY <1>2, Verified DEF MarkDrained, VerifyLeaseAndFence, WorksOn
    <2>2. /\ req'.stage = "drained"
          /\ UNCHANGED <<community, rows, wanted, dels, store, late>>
        BY <1>b, <1>2 DEF MarkDrained, storeVars
    <2>3. community.state = "fenced"
        BY <2>1 DEF Inv, StageInv
    <2>4. absPhase = "sealed" /\ absPhase' = "sealed" /\ absData' = absData
        BY <2>1, <2>2, <2>3 DEF absPhase, absData
    <2>5. (req.stage \in Destructive)' = TRUE
        BY <2>2 DEF Destructive
    <2>6. Lifecycle!Doom
        BY <2>2, <2>4, <2>5 DEF Lifecycle!Doom, absPhase, absData
    <2> QED BY <2>2, <2>5, <2>6 DEF Lifecycle!Next, Strays
<1>3. CASE MarkBindingsRemoved(e) \/ MarkCachePurged(e) \/ MarkLogicallyVerified(e)
    <2>1. req.stage \in {"drained", "postgres_purged", "cache_purged"}
        BY <1>3, Verified DEF MarkBindingsRemoved, MarkCachePurged, MarkLogicallyVerified,
               VerifyLeaseAndFence, WorksOn
    <2>2. /\ req'.stage \in {"bindings_removed", "cache_purged", "logically_verified"}
          /\ UNCHANGED <<community, rows, wanted, dels, store, late>>
        BY <1>b, <1>3 DEF MarkBindingsRemoved, MarkCachePurged, MarkLogicallyVerified, storeVars
    <2>3. community.state \in {"fenced", "tombstone"}
        BY <2>1 DEF Inv, StageInv
    <2>4. absPhase = "sealed" /\ absPhase' = "sealed" /\ absData' = absData
        BY <2>1, <2>2, <2>3 DEF absPhase, absData
    <2>5. absDoomed /\ absDoomed'
        BY <2>1, <2>2 DEF absDoomed, Destructive
    <2> QED BY <2>2, <2>4, <2>5, Unseen DEF Strays, absDoomed
<1>4. CASE PurgePostgres(e)
    <2>1. req.stage = "bindings_removed"
        BY <1>4, Verified DEF PurgePostgres, VerifyLeaseAndFence, WorksOn
    <2>2. /\ req'.stage = "postgres_purged" /\ rows' = FALSE
          /\ community.state = "fenced" /\ community'.state = "tombstone"
          /\ UNCHANGED <<wanted, dels, store, late>>
        BY <1>a, <1>b, <1>4 DEF PurgePostgres, CommunityRow, storeVars
    <2>3. absPhase = "sealed" /\ absPhase' = "sealed"
        BY <2>1, <2>2 DEF absPhase
    <2>4. None \notin store \ late
        BY <1>a, DeletionAssumption DEF TypeOK
    <2>5. absData' = absData \ {None}
        BY <2>2, <2>4 DEF absData
    <2>6. (req.stage \in Destructive) = TRUE /\ (req.stage \in Destructive)' = TRUE
        BY <2>1, <2>2 DEF Destructive
    <2>7. Lifecycle!Destroy({None})
        BY <2>2, <2>3, <2>5, <2>6 DEF Lifecycle!Destroy, absPhase, absData
    <2> QED BY <2>2, <2>6, <2>7 DEF Lifecycle!Next, Strays
<1>5. CASE MarkRetentionPending(e)
    <2>1. req.stage = "logically_verified"
        BY <1>5, Verified DEF MarkRetentionPending, VerifyLeaseAndFence, WorksOn
    <2>2. /\ req'.stage = "retention_pending"
          /\ UNCHANGED <<community, rows, wanted, dels, store, late>>
        BY <1>b, <1>5 DEF MarkRetentionPending, storeVars
    <2>3. community.state = "tombstone" /\ rows = FALSE /\ store \ late = {}
        BY <1>a, <2>1 DEF Inv, StageInv, RowsInv, ChunkInv, Kept, TypeOK
    <2>4. absPhase = "sealed" /\ absPhase' = "gone" /\ absData = {} /\ absData' = absData
        BY <2>1, <2>2, <2>3 DEF absPhase, absData
    <2>5. (req.stage \in Destructive) = TRUE /\ (req.stage \in Destructive)' = TRUE
        BY <2>1, <2>2 DEF Destructive
    <2>6. Lifecycle!Bury
        BY <2>2, <2>4, <2>5 DEF Lifecycle!Bury, absPhase, absData
    <2> QED BY <2>2, <2>5, <2>6 DEF Lifecycle!Next, Strays
<1> QED BY <1>1, <1>2, <1>3, <1>4, <1>5

\* The deletion of a community is the deletion TenantLifecycle promises, whatever is
\* interrupted, taken over or aborted, and whatever still lands behind the fence: no
\* data is lost before it is doomed, and none is left when it is gone.
THEOREM DeletionImplementsLifecycle == Spec => RefinesLifecycle
<1>1. Init => Lifecycle!Init /\ Strays
    <2> SUFFICES ASSUME Init PROVE Lifecycle!Init /\ Strays
        OBVIOUS
    <2>1. /\ community.state = "active" /\ req.stage = "none" /\ store = {} /\ rows = FALSE
          /\ wanted = FALSE /\ late = {} /\ dels = {}
        BY FreshTypes DEF Init
    <2>2. absPhase = "open" /\ absData = {} /\ (req.stage \in Destructive) = FALSE
        BY <2>1 DEF absPhase, absData, Destructive
    <2> QED BY <2>1, <2>2 DEF Lifecycle!Init, Strays, absPhase, absData
<1>2. Inv /\ Strays /\ [Next]_vars => [Lifecycle!Next]_(Lifecycle!vars) /\ Strays'
    <2> SUFFICES ASSUME Inv, Strays, [Next]_vars
                 PROVE  [Lifecycle!Next]_(Lifecycle!vars) /\ Strays'
        OBVIOUS
    <2>1. CASE UNCHANGED vars
        BY <2>1, Hidden DEF vars, dbVars, storeVars, Strays
    <2>2. ASSUME NEW e \in Executors, Claim(e) \/ ExecutorStep(e)
          PROVE  [Lifecycle!Next]_(Lifecycle!vars) /\ Strays'
        BY <2>2, QuietMaps, SealMaps, MarkMaps DEF ExecutorStep
    <2> QED BY <2>1, <2>2, WriterMaps, ArchiveMaps, OperatorMaps, LeaseMaps, FaultMaps,
               StoreMaps DEF Next, OperatorStep
<1>3. Spec => [](Inv /\ Strays)
    BY <1>1, <1>2, DeletionInvariant, PTL DEF Spec
<1>4. Spec => Lifecycle!Spec
    BY <1>1, <1>2, <1>3, PTL DEF Spec, Lifecycle!Spec
<1> QED BY <1>4 DEF RefinesLifecycle
=============================================================================
