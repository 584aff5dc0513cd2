----------------------------- MODULE GitPublish -----------------------------
(***************************************************************************)
(* Git repositories on an object store (crates/buzz-relay/src/api/git):    *)
(* pushes that publish by compare-and-swap of one pointer object, clones   *)
(* that read it, and the announcements that create it.                     *)
(*                                                                         *)
(* The store holds packs and manifests, which are immutable and named by   *)
(* their content, and one pointer per repository.  One repository is       *)
(* modelled.  Requests run on any number of relay nodes, so every push,    *)
(* clone and announcement is a process of its own and only the store and   *)
(* the database are shared.                                                *)
(*                                                                         *)
(* A pack is the set of objects in it.  A manifest's digest is its         *)
(* position in `manifests`, which holds each manifest once; 0 is an absent *)
(* pointer.  The pointer's ETag is taken to depend only on its body, the   *)
(* weakest a store may offer.                                              *)
(***************************************************************************)
EXTENDS Integers, Sequences, FiniteSets, Functions

CONSTANTS
    Pushers,    \* push requests
    Readers,    \* clones and fetches
    Announcers, \* announcements (kind:30617) by the repository's owner
    Refs,       \* ref names; main, master, then the others by name
    Branches,   \* those under refs/heads/
    Main,       \* refs/heads/main
    Commits,    \* objects
    Reach,      \* the objects reachable from an object
    None,       \* a ref that does not exist
    MaxPacks,   \* MAX_MANIFEST_PACKS
    CompactAt   \* PACK_COMPACTION_THRESHOLD

ASSUME GitAssumption ==
    /\ Refs \subseteq Nat \ {0} /\ Branches \subseteq Refs
    /\ Main \in Branches /\ \A b \in Branches : Main <= b
    /\ None \notin Commits
    /\ Reach \in [Commits -> SUBSET Commits] /\ IsFiniteSet(Commits)
    /\ \A c \in Commits : c \in Reach[c]
    /\ MaxPacks \in Nat \ {0} /\ CompactAt \in 1..MaxPacks

VARIABLES
    packs,      \* pack objects in the store
    manifests,  \* manifest objects in the store, by digest
    pointer,    \* digest the pointer object names
    push,       \* push requests
    reader,     \* clones
    ann,        \* announcements
    row,        \* git_repo_names holds the name for the owner
    shown,      \* refs of the newest ref-state event (kind:30618)
    chain       \* history: the digests the pointer has named

repoVars == <<packs, manifests, pointer, chain>>
vars == <<repoVars, push, reader, ann, row, shown>>

-----------------------------------------------------------------------------
(***************************************************************************)
(* Manifests.                                                              *)
(***************************************************************************)
RefMap == [Refs -> Commits \cup {None}]

Pack == SUBSET Commits

Manifest == [refs: RefMap, head: Refs, packs: SUBSET Pack, parent: Nat]

NoRefs == [r \in Refs |-> None]

\* ParentState::fresh, with the empty string (0) for a HEAD, and the manifest an
\* announcement seeds.
FreshParent == [refs |-> NoRefs, head |-> 0, packs |-> {}, parent |-> 0]
EmptyManifest == [FreshParent EXCEPT !.head = Main]

\* load_pointer: what the pointer's digest stands for.
Loaded(ms, d) == IF d = 0 THEN FreshParent ELSE ms[d]

\* The objects reachable from a set of refs.
Closure(refs) == UNION {Reach[refs[r]] : r \in {s \in Refs : refs[s] # None}}

\* put_manifest: content-addressed and idempotent.
DigestOf(ms, m) ==
    IF m \in Range(ms) THEN CHOOSE d \in DOMAIN ms : ms[d] = m ELSE Len(ms) + 1
Stored(ms, m) == IF m \in Range(ms) THEN ms ELSE Append(ms, m)

\* Mutant: the workspace's HEAD is published as it is.
ResolvePublishedHeadObserved(refs, observed, parentHead) == observed

\* resolve_published_head: the observed HEAD if it is a published branch, else
\* the parent's, else main, master or the first branch there is.
ResolvePublishedHead(refs, observed, parentHead) ==
    LET up == {b \in Branches : refs[b] # None} IN
    IF observed \in up THEN observed
    ELSE IF parentHead \in up THEN parentHead
    ELSE IF up # {} THEN CHOOSE b \in up : \A c \in up : b <= c
    ELSE observed

\* HEAD of a hydrated workspace, which receive-pack leaves alone.
WorkspaceHead(parent) == IF parent.head = 0 THEN Main ELSE parent.head

\* compose_after and compose_compacted_after.
Compose(parent, digest, refs, keys) ==
    [refs |-> refs,
     head |-> ResolvePublishedHead(refs, WorkspaceHead(parent), parent.head),
     packs |-> keys,
     parent |-> digest]

-----------------------------------------------------------------------------
(***************************************************************************)
(* Requests.  `put` is the conditional write of the pointer: once sent it  *)
(* may take effect at any later time, whatever has become of its sender,   *)
(* or never.                                                               *)
(***************************************************************************)
PutState == {"none", "sent", "won", "lost"}

PushState == {"idle", "asked", "hydrated", "received", "packed", "cas", "won",
              "published", "unpublished", "done"}

\* The answers of receive_pack.  "rejected" is a 200 whose report-status
\* refuses at least one ref.
Answer == {"none", "ok", "rejected", "conflict", "tooLarge", "invalid", "error",
           "fenced", "unpublished", "crashed"}

Push == [st: PushState,
         old: RefMap,           \* the refs the client saw
         want: RefMap,          \* the refs it asks for
         parent: Nat,           \* ParentState: digest and ETag
         ws: RefMap,            \* refs of the workspace
         ok: BOOLEAN,           \* PackOutput.ok
         told: SUBSET Refs,     \* refs its report-status says "ok" to
         m: Manifest,           \* m_after
         digest: Nat,
         put: PutState,
         resp: Answer]

NewPush == [st |-> "idle", old |-> NoRefs, want |-> NoRefs, parent |-> 0,
            ws |-> NoRefs, ok |-> FALSE, told |-> {}, m |-> EmptyManifest,
            digest |-> 0, put |-> "none", resp |-> "none"]

Reader == [st: {"idle", "advertised", "hydrating", "served", "notOurRef", "broken"},
           want: RefMap,        \* the refs advertised
           digest: Nat,         \* the manifest hydrated
           got: SUBSET Commits] \* the objects sent

NewReader == [st |-> "idle", want |-> NoRefs, digest |-> 0, got |-> {}]

AnnState == {"idle", "conflict", "ensuring", "seeding", "cas", "seeded",
             "failing", "occupied", "accepted", "failed", "crashed"}

Ann == [st: AnnState,
        fresh: BOOLEAN,         \* reserved_by_this_attempt
        digest: Nat,
        put: PutState]

NewAnn == [st |-> "idle", fresh |-> FALSE, digest |-> 0, put |-> "none"]

Init ==
    /\ packs = {} /\ manifests = <<>> /\ pointer = 0 /\ chain = <<>>
    /\ push = [p \in Pushers |-> NewPush]
    /\ reader = [x \in Readers |-> NewReader]
    /\ ann = [a \in Announcers |-> NewAnn]
    /\ row = FALSE
    /\ shown = NoRefs

\* The announcement is stored before its handler runs, whatever becomes of
\* the handler.  Without announcers it was stored before the first push.
Announced == Announcers = {} \/ \E a \in Announcers : ann[a].st # "idle"

-----------------------------------------------------------------------------
(***************************************************************************)
(* A push, up to the upload of its objects.                                *)
(***************************************************************************)
\* What no step of a push changes.
pushRest == <<reader, ann, row>>

\* info/refs for receive-pack, and the client's choice of a push.  A client
\* that sends its request without one takes an absent repository to be empty.
\* A push of no change is what git's probe request ("0000") asks for.
Advertise(p) ==
    /\ push[p].st = "idle"
    /\ \E w \in RefMap :
          push' = [push EXCEPT ![p].st = "asked", ![p].want = w,
                               ![p].old = Loaded(manifests, pointer).refs]
    /\ UNCHANGED <<repoVars, pushRest, shown>>

\* The request ends with an answer; the objects it stored stay.
Answered(p, a) ==
    push' = [push EXCEPT ![p].st = "done", ![p].resp = a]

\* hydrate_for_write: one read of the pointer decides the parent.
HydrateForWrite(p) ==
    /\ push[p].st = "asked"
    /\ IF Loaded(manifests, pointer).packs \subseteq packs
       THEN push' = [push EXCEPT ![p].st = "hydrated", ![p].parent = pointer]
       ELSE Answered(p, "error")
    /\ UNCHANGED <<repoVars, pushRest, shown>>

\* The refs a push names.
Commands(p) == {r \in Refs : push[p].want[r] # push[p].old[r]}

\* git receive-pack in the workspace: it executes every command whose old
\* value the ref still has and reports "ng" for the others.
ReceivePack(p) ==
    LET refs == Loaded(manifests, push[p].parent).refs
        done == {r \in Commands(p) : refs[r] = push[p].old[r]}
    IN
    /\ push[p].st = "hydrated"
    /\ Announced \/ Commands(p) = {}
    /\ push' = [push EXCEPT
                  ![p].st = "received",
                  ![p].ws = [r \in Refs |-> IF r \in done THEN push[p].want[r] ELSE refs[r]],
                  ![p].ok = (done = Commands(p)),
                  ![p].told = done]
    /\ UNCHANGED <<repoVars, pushRest, shown>>

\* The pre-receive hook (which runs only if there are commands) declines, or
\* an atomic push has a stale command: "ng" for every ref.
DeclinePush(p) ==
    /\ push[p].st = "hydrated" /\ Commands(p) # {}
    /\ push' = [push EXCEPT ![p].st = "received",
                            ![p].ws = Loaded(manifests, push[p].parent).refs,
                            ![p].ok = FALSE, ![p].told = {}]
    /\ UNCHANGED <<repoVars, pushRest, shown>>

\* finalize_push, part 0.
Reject(p) ==
    /\ push[p].st = "received" /\ ~push[p].ok
    /\ Answered(p, "rejected")
    /\ UNCHANGED <<repoVars, pushRest, shown>>

\* Mutant: packs the new manifest does not name are deleted.
UploadedPrunes(p, new, keys) ==
    /\ packs' = keys
    /\ push' = [push EXCEPT ![p].st = "packed",
                            ![p].m = Compose(Loaded(manifests, push[p].parent),
                                             push[p].parent, push[p].ws, keys)]
    /\ UNCHANGED <<manifests, pointer, chain, pushRest, shown>>

\* A pack set is chosen, its packs are stored and m_after is composed.
Uploaded(p, new, keys) ==
    /\ packs' = packs \cup new
    /\ push' = [push EXCEPT ![p].st = "packed",
                            ![p].m = Compose(Loaded(manifests, push[p].parent),
                                             push[p].parent, push[p].ws, keys)]
    /\ UNCHANGED <<manifests, pointer, chain, pushRest, shown>>

ShouldCompact(n) == n >= CompactAt

CompactedPackSetIsUsable(before, after) ==
    after < before \/ (before >= MaxPacks /\ after <= MaxPacks)

\* capture_compacted_packs: every object the refs reach, split over packs of
\* bounded size.
CompactedPacks(refs) ==
    {ps \in SUBSET ((SUBSET Closure(refs)) \ {{}}) :
        /\ UNION ps = Closure(refs)
        /\ \A x, y \in ps : x # y => x \cap y = {}}

\* Mutant: the compacted set leaves out what the parent's refs reach.
UploadCompactedDelta(p) ==
    LET parent == Loaded(manifests, push[p].parent) IN
    /\ push[p].st = "received" /\ push[p].ok
    /\ Cardinality(parent.packs) >= CompactAt
    /\ LET ps == {Closure(push[p].ws) \ Closure(parent.refs)} IN Uploaded(p, ps, ps)

UploadCompacted(p) ==
    LET before == Cardinality(Loaded(manifests, push[p].parent).packs) IN
    /\ push[p].st = "received" /\ push[p].ok
    /\ ShouldCompact(before)
    /\ \E ps \in CompactedPacks(push[p].ws) :
          /\ CompactedPackSetIsUsable(before, Cardinality(ps))
          /\ Uploaded(p, ps, ps)

\* capture_pack: the objects the refs reach and the parent's refs do not.
\* Asked for none, git writes a pack of none; an empty output is no pack.
DeltaPacks(parentRefs, refs) ==
    LET new == Closure(refs) \ Closure(parentRefs) IN
    IF refs = NoRefs THEN {{}}
    ELSE IF new = {} THEN {{}, {{}}}
    ELSE {{new}}

\* The normal publication, also taken when compaction fails.
UploadDelta(p) ==
    LET parent == Loaded(manifests, push[p].parent) IN
    /\ push[p].st = "received" /\ push[p].ok
    /\ \E new \in DeltaPacks(parent.refs, push[p].ws) :
          /\ new # {} => Cardinality(parent.packs) < MaxPacks
          /\ Uploaded(p, new, parent.packs \cup new)

\* ResourceLimit: too many bytes or objects, or a full pack list that
\* compaction did not shorten.
TooLarge(p) ==
    /\ push[p].st = "received" /\ push[p].ok
    /\ Answered(p, "tooLarge")
    /\ UNCHANGED <<repoVars, pushRest, shown>>

-----------------------------------------------------------------------------
(***************************************************************************)
(* A push, from put_manifest to its answer.                                *)
(***************************************************************************)
\* ManifestInvalid: the manifest has a name or an id that validate refuses.
InvalidManifest(p) ==
    /\ push[p].st = "packed"
    /\ Answered(p, "invalid")
    /\ UNCHANGED <<repoVars, pushRest, shown>>

\* put_manifest, and the conditional write is on its way.
PutManifest(p) ==
    /\ push[p].st = "packed"
    /\ manifests' = Stored(manifests, push[p].m)
    /\ push' = [push EXCEPT ![p].st = "cas", ![p].put = "sent",
                            ![p].digest = DigestOf(manifests, push[p].m)]
    /\ UNCHANGED <<packs, pointer, chain, pushRest, shown>>

\* Mutant: the write has no precondition.
StorePointerBlind(expected, digest, outcome) ==
    pointer' = digest /\ chain' = Append(chain, digest) /\ outcome = "won"

\* Mutant: If-None-Match: * for every write.
StorePointerCreateOnly(expected, digest, outcome) ==
    IF pointer = 0
    THEN pointer' = digest /\ chain' = Append(chain, digest) /\ outcome = "won"
    ELSE outcome = "lost" /\ UNCHANGED <<pointer, chain>>

\* put_pointer at the store: If-Match the parent's ETag, If-None-Match: * for
\* an absent pointer.
StorePointer(expected, digest, outcome) ==
    \/ /\ pointer = expected
       /\ pointer' = digest /\ chain' = Append(chain, digest)
       /\ outcome = "won"
    \/ /\ pointer # expected
       /\ outcome = "lost"
       /\ UNCHANGED <<pointer, chain>>

\* Mutant: the pointer is read again and the write predicated on that.
StoreCasRereads(p) ==
    /\ push[p].put = "sent"
    /\ StorePointer(pointer, push[p].digest, "won")
    /\ push' = [push EXCEPT ![p].put = "won"]
    /\ UNCHANGED <<packs, manifests, pushRest, shown>>

StoreCas(p) ==
    /\ push[p].put = "sent"
    /\ \E o \in {"won", "lost"} :
          /\ StorePointer(push[p].parent, push[p].digest, o)
          /\ push' = [push EXCEPT ![p].put = o]
    /\ UNCHANGED <<packs, manifests, pushRest, shown>>

CasWon(p) ==
    /\ push[p].st = "cas" /\ push[p].put = "won"
    /\ push' = [push EXCEPT ![p].st = "won"]
    /\ UNCHANGED <<repoVars, pushRest, shown>>

\* LostRace, and the winner could be read.
CasLost(p) ==
    /\ push[p].st = "cas" /\ push[p].put = "lost"
    /\ Answered(p, "conflict")
    /\ UNCHANGED <<repoVars, pushRest, shown>>

\* A failing store, git subprocess or disk, an answer of the store that does
\* not arrive, a winner that cannot be read: 500.
BackendError(p) ==
    /\ push[p].st \in {"asked", "hydrated", "received", "packed", "cas"}
    /\ push[p].st = "received" => push[p].ok
    /\ Answered(p, "error")
    /\ UNCHANGED <<repoVars, pushRest, shown>>

\* The serving lease is refused, lost or cannot be released: 503.  `protect`
\* drops the publication wherever it is.
LeaseLost(p) ==
    /\ \/ push[p].st = "received" /\ push[p].ok
       \/ push[p].st \in {"packed", "cas", "won", "published", "unpublished"}
    /\ Answered(p, "fenced")
    /\ UNCHANGED <<repoVars, pushRest, shown>>

\* Mutant: the event is sent along with the conditional write.
PublishRefStateEarly(p) ==
    /\ push[p].st \in {"cas", "won"}
    /\ shown' = push[p].m.refs
    /\ push' = [push EXCEPT ![p].st = IF push[p].st = "won" THEN "published" ELSE "cas"]
    /\ UNCHANGED <<repoVars, pushRest>>

\* The ref-state event of the committed manifest.  Its digest always differs
\* from the parent's, which it contains, so the event is never skipped.
PublishRefState(p) ==
    /\ push[p].st = "won"
    /\ \/ /\ shown' = push[p].m.refs
          /\ push' = [push EXCEPT ![p].st = "published"]
       \/ /\ push' = [push EXCEPT ![p].st = "unpublished"]
          /\ UNCHANGED shown
    /\ UNCHANGED <<repoVars, pushRest>>

Respond(p) ==
    /\ \/ push[p].st = "published" /\ Answered(p, "ok")
       \/ push[p].st = "unpublished" /\ Answered(p, "unpublished")
    /\ UNCHANGED <<repoVars, pushRest, shown>>

\* The relay node dies, or the client goes away.
Crash(p) ==
    /\ push[p].st \notin {"idle", "done"}
    /\ Answered(p, "crashed")
    /\ UNCHANGED <<repoVars, pushRest, shown>>

PushStep(p) ==
    \/ Advertise(p) \/ HydrateForWrite(p)
    \/ ReceivePack(p) \/ DeclinePush(p) \/ Reject(p)
    \/ UploadCompacted(p) \/ UploadDelta(p) \/ TooLarge(p)
    \/ InvalidManifest(p) \/ PutManifest(p) \/ StoreCas(p) \/ CasWon(p) \/ CasLost(p)
    \/ BackendError(p) \/ LeaseLost(p)
    \/ PublishRefState(p) \/ Respond(p) \/ Crash(p)

-----------------------------------------------------------------------------
(***************************************************************************)
(* A clone or fetch: two requests, each of which reads the pointer.        *)
(***************************************************************************)
readRest == <<repoVars, push, ann, row, shown>>

\* info/refs for upload-pack; without a pointer it answers 404.
InfoRefs(x) ==
    /\ reader[x].st \notin {"advertised", "hydrating"}
    /\ pointer # 0
    /\ reader' = [reader EXCEPT ![x].st = "advertised",
                                ![x].want = Loaded(manifests, pointer).refs]
    /\ UNCHANGED readRest

\* upload_pack: hydrate_for_read reads the pointer and its manifest ...
LoadPointer(x) ==
    /\ reader[x].st = "advertised"
    /\ reader' = [reader EXCEPT ![x].st = "hydrating", ![x].digest = pointer]
    /\ UNCHANGED readRest

\* ... then its packs, and git sends the objects that the client saw
\* advertised if the refs of this manifest still reach them.
UploadPack(x) ==
    LET m == Loaded(manifests, reader[x].digest)
        wanted == Closure(reader[x].want)
    IN
    /\ reader[x].st = "hydrating"
    /\ reader' = [reader EXCEPT
                    ![x].st = IF ~(m.packs \subseteq packs) THEN "broken"
                              ELSE IF wanted \subseteq Closure(m.refs) THEN "served"
                              ELSE "notOurRef",
                    ![x].got = wanted \cap UNION (m.packs \cap packs)]
    /\ UNCHANGED readRest

ReadStep(x) == InfoRefs(x) \/ LoadPointer(x) \/ UploadPack(x)

-----------------------------------------------------------------------------
(***************************************************************************)
(* An announcement: handle_git_repo_announcement.                          *)
(***************************************************************************)
annRest == <<packs, push, reader>>

\* The row is seen by the first look or only by the INSERT; without it the
\* name is claimed, unless the quota or the database forbids it.
ReserveName(a) ==
    /\ ann[a].st = "idle"
    /\ \/ /\ row
          /\ \E s \in {"ensuring", "conflict"} : ann' = [ann EXCEPT ![a].st = s]
          /\ UNCHANGED row
       \/ /\ ~row
          /\ row' = TRUE
          /\ ann' = [ann EXCEPT ![a].st = "seeding", ![a].fresh = TRUE]
       \/ /\ ann' = [ann EXCEPT ![a].st = "failed"]
          /\ UNCHANGED row
    /\ UNCHANGED <<annRest, manifests, pointer, chain, shown>>

\* reserve_repo_name re-reads the holder after its INSERT found a row.
ReadHolder(a) ==
    /\ ann[a].st = "conflict"
    /\ ann' = [ann EXCEPT ![a].st = IF row THEN "ensuring" ELSE "failed"]
    /\ UNCHANGED <<annRest, manifests, pointer, chain, row, shown>>

\* Mutant: the row is taken for proof of the pointer.
EnsurePointerTrustsRow(a) ==
    /\ ann[a].st = "ensuring"
    /\ ann' = [ann EXCEPT ![a].st = "seeded"]
    /\ UNCHANGED <<annRest, manifests, pointer, chain, row, shown>>

\* ensure_manifest_pointer
EnsurePointer(a) ==
    /\ ann[a].st = "ensuring"
    /\ ann' = [ann EXCEPT ![a].st = IF pointer # 0 THEN "seeded" ELSE "seeding"]
    /\ UNCHANGED <<annRest, manifests, pointer, chain, row, shown>>

\* seed_manifest_pointer
SeedManifest(a) ==
    /\ ann[a].st = "seeding"
    /\ manifests' = Stored(manifests, EmptyManifest)
    /\ ann' = [ann EXCEPT ![a].st = "cas", ![a].put = "sent",
                          ![a].digest = DigestOf(manifests, EmptyManifest)]
    /\ UNCHANGED <<annRest, pointer, chain, row, shown>>

StoreSeed(a) ==
    /\ ann[a].put = "sent"
    /\ \E o \in {"won", "lost"} :
          /\ StorePointer(0, ann[a].digest, o)
          /\ ann' = [ann EXCEPT ![a].put = o]
    /\ UNCHANGED <<annRest, manifests, row, shown>>

SeedWon(a) ==
    /\ ann[a].st = "cas" /\ ann[a].put = "won"
    /\ ann' = [ann EXCEPT ![a].st = "seeded"]
    /\ UNCHANGED <<annRest, manifests, pointer, chain, row, shown>>

\* LostRace: success only if the pointer names the empty manifest.
SeedLost(a) ==
    /\ ann[a].st = "cas" /\ ann[a].put = "lost"
    /\ ann' = [ann EXCEPT ![a].st = IF pointer = ann[a].digest THEN "seeded" ELSE "occupied"]
    /\ UNCHANGED <<annRest, manifests, pointer, chain, row, shown>>

SeedError(a) ==
    /\ ann[a].st \in {"ensuring", "seeding", "cas"}
    /\ ann' = [ann EXCEPT ![a].st = "failing"]
    /\ UNCHANGED <<annRest, manifests, pointer, chain, row, shown>>

\* release_repo_name, by the attempt that inserted the row; it may fail.
ReleaseName(a) ==
    /\ ann[a].st \in {"failing", "occupied"}
    /\ ann' = [ann EXCEPT ![a].st = "failed"]
    /\ \/ ann[a].fresh /\ row' = FALSE
       \/ UNCHANGED row
    /\ UNCHANGED <<annRest, manifests, pointer, chain, shown>>

\* emit_initial_ref_state, for a fresh claim only; it may fail.
EmitInitial(a) ==
    /\ ann[a].st = "seeded"
    /\ ann' = [ann EXCEPT ![a].st = "accepted"]
    /\ \/ ann[a].fresh /\ shown' = NoRefs
       \/ UNCHANGED shown
    /\ UNCHANGED <<annRest, manifests, pointer, chain, row>>

AnnounceCrash(a) ==
    /\ ann[a].st \notin {"idle", "accepted", "failed", "crashed"}
    /\ ann' = [ann EXCEPT ![a].st = "crashed"]
    /\ UNCHANGED <<annRest, manifests, pointer, chain, row, shown>>

AnnounceStep(a) ==
    \/ ReserveName(a) \/ ReadHolder(a) \/ EnsurePointer(a) \/ SeedManifest(a)
    \/ StoreSeed(a) \/ SeedWon(a) \/ SeedLost(a) \/ SeedError(a)
    \/ ReleaseName(a) \/ EmitInitial(a) \/ AnnounceCrash(a)

-----------------------------------------------------------------------------
Next ==
    \/ \E p \in Pushers : PushStep(p)
    \/ \E x \in Readers : ReadStep(x)
    \/ \E a \in Announcers : AnnounceStep(a)

Spec == Init /\ [][Next]_vars
-----------------------------------------------------------------------------
(***************************************************************************)
(* Properties.                                                             *)
(***************************************************************************)
\* Every variable has its type.  A stored manifest has a HEAD: hydration
\* refuses one without, so every clone and push after it would fail.
TypeOK ==
    /\ packs \subseteq Pack
    /\ manifests \in Seq(Manifest)
    /\ pointer \in 0..Len(manifests)
    /\ chain \in Seq(1..Len(manifests))
    /\ push \in [Pushers -> Push]
    /\ \A p \in Pushers : {push[p].parent, push[p].digest} \subseteq 0..Len(manifests)
    /\ reader \in [Readers -> Reader]
    /\ \A x \in Readers : reader[x].digest <= Len(manifests)
    /\ ann \in [Announcers -> Ann]
    /\ \A a \in Announcers : ann[a].digest <= Len(manifests)
    /\ row \in BOOLEAN
    /\ shown \in RefMap

\* Theorem 2 of docs/git-on-object-storage.md: the packs of every manifest are
\* stored and hold all its refs reach, whether the packs were carried over
\* from the parent or replaced by compaction.
Closed ==
    \A d \in DOMAIN manifests :
        /\ manifests[d].packs \subseteq packs
        /\ Closure(manifests[d].refs) \subseteq UNION manifests[d].packs

\* Manifest::validate's bound on the pack list is never exceeded, so a push
\* never publishes a manifest that hydration refuses.
PackCap ==
    \A d \in DOMAIN manifests : Cardinality(manifests[d].packs) <= MaxPacks

\* HEAD of a manifest is a branch it publishes whenever it publishes one
\* (cas_publish: "HEAD never advertises a phantom branch"), also after the
\* branch HEAD named is deleted.
HeadPublished ==
    \A d \in DOMAIN manifests :
        LET m == manifests[d] IN
        (\E b \in Branches : m.refs[b] # None) =>
            m.head \in Branches /\ m.refs[m.head] # None

\* Every manifest the pointer has named was derived from the one it named
\* before, and the pointer never returns to an old value, so that an ETag
\* that depends on the body alone is as good as a version number.
Linear ==
    /\ pointer = IF chain = <<>> THEN 0 ELSE chain[Len(chain)]
    /\ \A i \in DOMAIN chain :
          manifests[chain[i]].parent = IF i = 1 THEN 0 ELSE chain[i - 1]
    /\ \A i, j \in DOMAIN chain : chain[i] = chain[j] => i = j

\* A push is answered 409 only if another writer has replaced the manifest it
\* was derived from, for good.
ConflictHasWinner ==
    \A p \in Pushers : push[p].resp = "conflict" => pointer # push[p].parent

\* A clone that is served gets every object of the refs it was shown, and no
\* clone finds a pack missing, whatever is published between its requests.
ReadersComplete ==
    \A x \in Readers :
        /\ reader[x].st # "broken"
        /\ reader[x].st = "served" => reader[x].got = Closure(reader[x].want)

\* A ref-state event shows only refs that the pointer has named: it follows a
\* commit, never the other way round.
EventsCommitted ==
    shown = NoRefs \/ \E i \in DOMAIN chain : shown = manifests[chain[i]].refs

\* An announcement whose handler succeeds leaves a repository that can be
\* cloned, also when it only found the name reserved by another attempt.
AcceptedHasPointer ==
    \A a \in Announcers : ann[a].st \in {"seeded", "accepted"} => pointer # 0

-----------------------------------------------------------------------------
(***************************************************************************)
(* What the repository's clients see is RefStore.                          *)
(***************************************************************************)
Phase(p) ==
    IF push[p].st = "idle" THEN "idle"
    ELSE IF push[p].resp = "none" THEN "open"
    ELSE IF push[p].resp = "ok" THEN "ok"
    ELSE IF push[p].resp \in {"rejected", "conflict", "tooLarge", "invalid"} THEN "refused"
    ELSE "unknown"

RS == INSTANCE RefStore WITH
        refs <- Loaded(manifests, pointer).refs,
        old <- [p \in Pushers |-> push[p].old],
        want <- [p \in Pushers |-> push[p].want],
        phase <- [p \in Pushers |-> Phase(p)],
        applied <- [p \in Pushers |-> push[p].put = "won"]

\* Pushes take effect whole, one at a time and on the refs their clients saw;
\* an "ok" is given only to one that has, and a refusal only to one that never
\* will.  The commit point is the store's conditional write.
RefinesRefStore == RS!Spec

-----------------------------------------------------------------------------
(***************************************************************************)
(* What comments and documents say, and the code does not do.              *)
(***************************************************************************)
\* docs/git-on-object-storage.md: "a client never observes success for a ref
\* change that is not yet durable".  Success of a ref is its "ok" line in the
\* report-status.
ToldIsDurable ==
    \A p \in Pushers : push[p].st = "done" /\ push[p].resp \in {"ok", "rejected"} =>
        \A r \in push[p].told :
            \E i \in DOMAIN chain : manifests[chain[i]].refs[r] = push[p].want[r]

\* side_effects.rs: releasing the reservation of a failed attempt "is safe and
\* correct", so that a name whose announcement was accepted stays reserved.
AcceptedStaysReserved ==
    \A a \in Announcers : ann[a].st = "accepted" => row
=============================================================================
