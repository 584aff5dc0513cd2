-------------------------- MODULE GitPublishProofs --------------------------
(***************************************************************************)
(* Proofs about GitPublish, for any number of pushes, clones and           *)
(* announcements, any refs and any object graph.                           *)
(***************************************************************************)
EXTENDS GitPublish, WellFoundedInduction, TLAPS

\* A set of branches that is not empty has a first one, the one that
\* resolve_published_head falls back to.
LEMMA FirstBranch ==
    ASSUME NEW S \in SUBSET Branches, S # {}
    PROVE  \E b \in S : \A c \in S : b <= c
<1> DEFINE lt == OpToRel(<, Nat)
<1>1. S \subseteq Nat
    BY GitAssumption
<1>2. IsWellFoundedOn(lt, Nat)
    BY NatLessThanWellFounded
<1>3. PICK b \in S : \A c \in S : ~(<<c, b>> \in lt)
    <2> HIDE DEF lt
    <2> QED BY <1>1, <1>2, WFMin
<1>4. ASSUME NEW c \in S PROVE b <= c
    <2>1. c \in Nat /\ b \in Nat
        BY <1>1
    <2>2. ~(<<c, b>> \in lt)
        BY <1>3
    <2>3. ~(c < b)
        BY <2>1, <2>2 DEF OpToRel
    <2> QED BY <2>1, <2>3
<1> QED BY <1>3, <1>4

-----------------------------------------------------------------------------
(***************************************************************************)
(* Manifests.                                                              *)
(***************************************************************************)
\* resolve_published_head yields a branch that is published, if there is one,
\* and a ref name in any case.
LEMMA HeadResolved ==
    ASSUME NEW refs \in RefMap, NEW observed \in Refs, NEW parentHead
    PROVE  LET head == ResolvePublishedHead(refs, observed, parentHead) IN
           /\ head \in Refs
           /\ (\E b \in Branches : refs[b] # None) =>
                 head \in Branches /\ refs[head] # None
<1> DEFINE up == {b \in Branches : refs[b] # None}
           first == CHOOSE b \in up : \A c \in up : b <= c
<1>1. up # {} => first \in up
    BY FirstBranch
<1>2. up \subseteq Refs
    BY GitAssumption
<1> QED BY <1>1, <1>2 DEF ResolvePublishedHead

\* The empty manifest and the empty repository.
LEMMA FreshTypes ==
    /\ NoRefs \in RefMap
    /\ EmptyManifest \in Manifest
    /\ EmptyManifest.refs = NoRefs /\ EmptyManifest.packs = {}
    /\ EmptyManifest.parent = 0 /\ EmptyManifest.head = Main
    /\ Closure(NoRefs) = {}
<1>1. NoRefs \in RefMap
    BY DEF NoRefs, RefMap
<1>2. Main \in Refs
    BY GitAssumption
<1>3. EmptyManifest = [refs |-> NoRefs, head |-> Main, packs |-> {}, parent |-> 0]
    BY DEF EmptyManifest, FreshParent
<1>4. Closure(NoRefs) = {}
    BY DEF Closure, NoRefs
<1> QED BY <1>1, <1>2, <1>3, <1>4 DEF Manifest

\* What the pointer stands for, and that composing on it gives a manifest.
LEMMA LoadedTypes ==
    ASSUME NEW ms \in Seq(Manifest), NEW d \in 0..Len(ms)
    PROVE  /\ Loaded(ms, d).refs \in RefMap
           /\ Loaded(ms, d).packs \in SUBSET Pack
           /\ WorkspaceHead(Loaded(ms, d)) \in Refs
<1>1. CASE d = 0
    BY <1>1, FreshTypes, GitAssumption DEF Loaded, WorkspaceHead, FreshParent
<1>2. CASE d # 0
    <2>1. d \in 1..Len(ms)
        BY <1>2
    <2>2. ms[d] \in Manifest
        BY <2>1
    <2>3. Loaded(ms, d) = ms[d]
        BY <1>2 DEF Loaded
    <2>4. ms[d].head # 0
        BY <2>2, GitAssumption DEF Manifest
    <2> QED BY <2>2, <2>3, <2>4 DEF Manifest, WorkspaceHead
<1> QED BY <1>1, <1>2

\* compose_after keeps what it is given and resolves HEAD.
LEMMA ComposedTypes ==
    ASSUME NEW ms \in Seq(Manifest), NEW d \in 0..Len(ms),
           NEW refs \in RefMap, NEW keys \in SUBSET Pack
    PROVE  LET m == Compose(Loaded(ms, d), d, refs, keys) IN
           /\ m \in Manifest
           /\ m.refs = refs /\ m.packs = keys /\ m.parent = d
           /\ (\E b \in Branches : refs[b] # None) =>
                 m.head \in Branches /\ refs[m.head] # None
<1> DEFINE h == ResolvePublishedHead(refs, WorkspaceHead(Loaded(ms, d)), Loaded(ms, d).head)
<1>1. /\ h \in Refs
      /\ (\E b \in Branches : refs[b] # None) => h \in Branches /\ refs[h] # None
    BY LoadedTypes, HeadResolved
<1>2. Compose(Loaded(ms, d), d, refs, keys)
        = [refs |-> refs, head |-> h, packs |-> keys, parent |-> d]
    BY DEF Compose
<1>3. d \in Nat
    OBVIOUS
<1> HIDE DEF h
<1> QED BY <1>1, <1>2, <1>3 DEF Manifest

\* put_manifest keeps what is stored and makes the digest stand for the
\* manifest.
LEMMA StoredFacts ==
    ASSUME NEW ms \in Seq(Manifest), NEW m \in Manifest
    PROVE  /\ Stored(ms, m) \in Seq(Manifest)
           /\ Len(ms) <= Len(Stored(ms, m))
           /\ \A d \in 1..Len(ms) : Stored(ms, m)[d] = ms[d]
           /\ DigestOf(ms, m) \in 1..Len(Stored(ms, m))
           /\ Stored(ms, m)[DigestOf(ms, m)] = m
           /\ \A d \in 1..Len(Stored(ms, m)) : d \in 1..Len(ms) \/ Stored(ms, m)[d] = m
<1>1. CASE m \in Range(ms)
    <2>1. \E d \in DOMAIN ms : ms[d] = m
        BY <1>1 DEF Range
    <2>2. DigestOf(ms, m) \in DOMAIN ms /\ ms[DigestOf(ms, m)] = m
        BY <1>1, <2>1 DEF DigestOf
    <2>3. Stored(ms, m) = ms
        BY <1>1 DEF Stored
    <2> QED BY <2>2, <2>3
<1>2. CASE m \notin Range(ms)
    <2>1. Stored(ms, m) = Append(ms, m) /\ DigestOf(ms, m) = Len(ms) + 1
        BY <1>2 DEF Stored, DigestOf
    <2>2. Len(ms) \in Nat
        OBVIOUS
    <2> QED BY <2>1, <2>2
<1> QED BY <1>1, <1>2

-----------------------------------------------------------------------------
(***************************************************************************)
(* The inductive invariant.                                                *)
(***************************************************************************)
\* The store: a manifest is derived from one stored before it, and the pointer
\* has moved from older manifests to newer ones only.
StoreInv ==
    /\ Closed /\ Linear
    /\ \A d \in DOMAIN manifests : manifests[d].parent < d
    /\ \A i \in DOMAIN chain : chain[i] <= pointer
    /\ \A i, j \in DOMAIN chain : i < j => chain[i] < chain[j]

\* receive-pack executed every command, on the refs the client saw.
Executed(p) ==
    LET refs == Loaded(manifests, push[p].parent).refs IN
    /\ \A r \in Commands(p) : refs[r] = push[p].old[r]
    /\ push[p].ws = [r \in Refs |-> IF r \in Commands(p) THEN push[p].want[r] ELSE refs[r]]

\* m_after is derived from the parent and covered by packs that are stored.
Derived(p) ==
    /\ push[p].ok
    /\ push[p].m.refs = push[p].ws
    /\ push[p].m.parent = push[p].parent
    /\ push[p].m.packs \subseteq packs
    /\ Closure(push[p].ws) \subseteq UNION push[p].m.packs

\* Where a request is, and what its conditional write and its answer may be.
PushFlow(p) ==
    LET q == push[p] IN
    /\ q.resp = "none" <=> q.st # "done"
    /\ q.st \in {"idle", "asked", "hydrated"} => ~q.ok
    /\ q.st \in {"idle", "asked", "hydrated", "received", "packed"} => q.put = "none"
    /\ q.st \in {"won", "published", "unpublished"} => q.put = "won"
    /\ q.resp = "ok" => q.put = "won"
    /\ q.resp \in {"rejected", "tooLarge", "invalid"} => q.put = "none"
    /\ q.resp = "conflict" => q.put = "lost"

PushInv(p) ==
    /\ PushFlow(p)
    /\ push[p].parent <= pointer
    /\ push[p].ok => Executed(p)
    /\ push[p].st = "packed" \/ push[p].put # "none" => Derived(p)
    /\ push[p].put # "none" => push[p].digest # 0 /\ manifests[push[p].digest] = push[p].m
    /\ push[p].put = "won" => \E i \in DOMAIN chain : chain[i] = push[p].digest
    /\ push[p].put = "lost" => push[p].parent < pointer

AnnInv(a) ==
    /\ ann[a].put # "none" => ann[a].digest # 0 /\ manifests[ann[a].digest] = EmptyManifest
    /\ ann[a].put \in {"won", "lost"} => pointer # 0
    /\ ann[a].st \in {"seeded", "accepted"} => pointer # 0

IInv ==
    /\ StoreInv
    /\ \A p \in Pushers : PushInv(p)
    /\ \A a \in Announcers : AnnInv(a)

-----------------------------------------------------------------------------
(***************************************************************************)
(* Type correctness.                                                       *)
(***************************************************************************)
\* The history stays one of stored manifests when more are stored.
LEMMA SeqGrows ==
    ASSUME NEW m \in Nat, NEW n \in Nat, m <= n, NEW s \in Seq(1..m)
    PROVE  s \in Seq(1..n)
<1>1. \A i \in 1..Len(s) : s[i] \in 1..n
    OBVIOUS
<1> QED BY <1>1

\* What Append does to the history.
LEMMA AppendGrows ==
    ASSUME NEW S, NEW s \in Seq(S), NEW d \in S
    PROVE  /\ Append(s, d) \in Seq(S)
           /\ Len(Append(s, d)) = Len(s) + 1 /\ Len(s) \in Nat
           /\ DOMAIN Append(s, d) = 1..(Len(s) + 1) /\ DOMAIN s = 1..Len(s)
           /\ \A i \in 1..Len(s) : Append(s, d)[i] = s[i]
           /\ Append(s, d)[Len(s) + 1] = d
           /\ Append(s, d) # <<>>
OBVIOUS

\* What refs reach are objects.
LEMMA ClosureType ==
    ASSUME NEW refs \in RefMap
    PROVE  Closure(refs) \in SUBSET Commits
BY GitAssumption DEF Closure, RefMap

\* A push whose record keeps its type and whose digests are stored.
LEMMA PushTyped ==
    ASSUME TypeOK, NEW p \in Pushers, NEW t \in Push,
           push' = [push EXCEPT ![p] = t],
           {t.parent, t.digest} \subseteq 0..Len(manifests'),
           Len(manifests) <= Len(manifests'), Len(manifests') \in Nat
    PROVE  /\ push' \in [Pushers -> Push]
           /\ \A q \in Pushers : {push'[q].parent, push'[q].digest} \subseteq 0..Len(manifests')
BY DEF TypeOK

\* The steps of a push that change nothing but its record.
LEMMA LocalTyped ==
    ASSUME TypeOK, NEW p \in Pushers, NEW t \in Push,
           push' = [push EXCEPT ![p] = t],
           {t.parent, t.digest} \subseteq 0..Len(manifests),
           UNCHANGED <<repoVars, pushRest>>, shown' \in RefMap
    PROVE  TypeOK'
<1>1. manifests' = manifests /\ Len(manifests) \in Nat
    BY DEF TypeOK, repoVars
<1>2. /\ push' \in [Pushers -> Push]
      /\ \A q \in Pushers : {push'[q].parent, push'[q].digest} \subseteq 0..Len(manifests')
    BY <1>1 DEF TypeOK
<1> QED BY <1>1, <1>2 DEF TypeOK, repoVars, pushRest

\* A push that only moves on.
LEMMA StTyped ==
    ASSUME TypeOK, NEW p \in Pushers, NEW s \in PushState,
           push' = [push EXCEPT ![p].st = s],
           UNCHANGED <<repoVars, pushRest>>, shown' \in RefMap
    PROVE  TypeOK'
<1> DEFINE t == [push[p] EXCEPT !.st = s]
<1>1. push[p] \in Push /\ {push[p].parent, push[p].digest} \subseteq 0..Len(manifests)
    BY DEF TypeOK
<1>2. push' = [push EXCEPT ![p] = t]
    OBVIOUS
<1>3. t \in Push /\ t.parent = push[p].parent /\ t.digest = push[p].digest
    BY <1>1 DEF Push
<1>4. {t.parent, t.digest} \subseteq 0..Len(manifests)
    BY <1>1, <1>3
<1> HIDE DEF t
<1> QED BY <1>2, <1>3, <1>4, LocalTyped

\* A push that is answered.
LEMMA AnsweredTyped ==
    ASSUME TypeOK, NEW p \in Pushers, NEW a \in Answer, Answered(p, a),
           UNCHANGED <<repoVars, pushRest, shown>>
    PROVE  TypeOK'
<1> DEFINE t == [push[p] EXCEPT !.st = "done", !.resp = a]
<1>1. /\ push[p] \in Push /\ {push[p].parent, push[p].digest} \subseteq 0..Len(manifests)
      /\ shown \in RefMap
    BY DEF TypeOK
<1>2. push' = [push EXCEPT ![p] = t]
    BY DEF Answered
<1>3. t \in Push /\ t.parent = push[p].parent /\ t.digest = push[p].digest
    BY <1>1 DEF Push, PushState
<1> HIDE DEF t
<1> QED BY <1>1, <1>2, <1>3, LocalTyped

\* A push that uploads its packs.
LEMMA UploadedTyped ==
    ASSUME TypeOK, NEW p \in Pushers, NEW new \in SUBSET Pack, NEW keys \in SUBSET Pack,
           Uploaded(p, new, keys)
    PROVE  TypeOK'
<1> DEFINE m == Compose(Loaded(manifests, push[p].parent), push[p].parent, push[p].ws, keys)
           t == [push[p] EXCEPT !.st = "packed", !.m = m]
<1>1. /\ push[p] \in Push /\ {push[p].parent, push[p].digest} \subseteq 0..Len(manifests)
      /\ manifests \in Seq(Manifest) /\ push[p].ws \in RefMap
    BY DEF TypeOK, Push
<1>2. m \in Manifest
    BY <1>1, ComposedTypes
<1>3. push' = [push EXCEPT ![p] = t]
    BY DEF Uploaded
<1> HIDE DEF m
<1>4. t \in Push /\ t.parent = push[p].parent /\ t.digest = push[p].digest
    BY <1>1, <1>2 DEF Push, PushState
<1>5. /\ packs' = packs \cup new
      /\ UNCHANGED <<manifests, pointer, chain, pushRest, shown>>
    BY DEF Uploaded
<1> HIDE DEF t
<1>6. /\ push' \in [Pushers -> Push]
      /\ \A q \in Pushers : {push'[q].parent, push'[q].digest} \subseteq 0..Len(manifests)
    BY <1>1, <1>3, <1>4 DEF TypeOK
<1> QED BY <1>5, <1>6 DEF TypeOK, pushRest

\* A compacted set holds exactly what the refs reach.
LEMMA CompactedTypes ==
    ASSUME NEW refs \in RefMap, NEW ps \in CompactedPacks(refs)
    PROVE  ps \in SUBSET Pack /\ UNION ps = Closure(refs)
BY ClosureType DEF CompactedPacks, Pack

\* A delta holds what the refs reach and the parent's do not, in one pack
\* at most.
LEMMA DeltaTypes ==
    ASSUME NEW before \in RefMap, NEW refs \in RefMap, NEW new \in DeltaPacks(before, refs)
    PROVE  /\ new \in SUBSET Pack
           /\ Closure(refs) \subseteq Closure(before) \cup UNION new
           /\ new # {} => \E x \in Pack : new = {x}
<1> DEFINE fresh == Closure(refs) \ Closure(before)
<1>1. fresh \in Pack /\ {} \in Pack
    BY ClosureType DEF Pack
<1>2. \/ refs = NoRefs /\ new = {}
      \/ fresh = {} /\ new \in {{}, {{}}}
      \/ new = {fresh}
    BY DEF DeltaPacks
<1>3. CASE refs = NoRefs /\ new = {}
    BY <1>3, FreshTypes
<1>4. CASE fresh = {} /\ new \in {{}, {{}}}
    BY <1>4, <1>1
<1>5. CASE new = {fresh}
    BY <1>5, <1>1
<1> QED BY <1>2, <1>3, <1>4, <1>5

\* The steps of a push keep the types.  The conditional write needs the
\* invariant: the digest it publishes is stored.
LEMMA PushStepTypes ==
    ASSUME TypeOK, IInv, NEW p \in Pushers, PushStep(p)
    PROVE  TypeOK'
<1>0. /\ push[p] \in Push /\ {push[p].parent, push[p].digest} \subseteq 0..Len(manifests)
      /\ manifests \in Seq(Manifest) /\ pointer \in 0..Len(manifests)
      /\ packs \subseteq Pack /\ shown \in RefMap /\ push \in [Pushers -> Push]
      /\ chain \in Seq(1..Len(manifests))
    BY DEF TypeOK
<1>A. {"none", "ok", "rejected", "conflict", "tooLarge", "invalid", "error", "fenced",
       "unpublished", "crashed"} = Answer
    BY DEF Answer
<1>1. CASE Advertise(p)
    <2>1. PICK w \in RefMap :
             push' = [push EXCEPT ![p].st = "asked", ![p].want = w,
                                  ![p].old = Loaded(manifests, pointer).refs]
        BY <1>1 DEF Advertise
    <2> DEFINE t == [push[p] EXCEPT !.st = "asked", !.want = w,
                                    !.old = Loaded(manifests, pointer).refs]
    <2>2. push' = [push EXCEPT ![p] = t]
        BY <2>1, <1>0
    <2>3. Loaded(manifests, pointer).refs \in RefMap
        BY <1>0, LoadedTypes
    <2>4. t \in Push /\ t.parent = push[p].parent /\ t.digest = push[p].digest
        BY <1>0, <2>3 DEF Push, PushState
    <2>5. UNCHANGED <<repoVars, pushRest>> /\ shown' = shown
        BY <1>1 DEF Advertise
    <2> HIDE DEF t
    <2> QED BY <1>0, <2>2, <2>4, <2>5, LocalTyped
<1>2. CASE HydrateForWrite(p)
    <2>1. UNCHANGED <<repoVars, pushRest, shown>>
        BY <1>2 DEF HydrateForWrite
    <2>2. CASE push' = [push EXCEPT ![p].st = "hydrated", ![p].parent = pointer]
        <3> DEFINE t == [push[p] EXCEPT !.st = "hydrated", !.parent = pointer]
        <3>1. push' = [push EXCEPT ![p] = t]
            BY <2>2, <1>0
        <3>0. pointer \in Nat
            BY <1>0
        <3>2. t \in Push /\ t.parent = pointer /\ t.digest = push[p].digest
            BY <1>0, <3>0 DEF Push, PushState
        <3>3. {t.parent, t.digest} \subseteq 0..Len(manifests)
            BY <1>0, <3>2
        <3> HIDE DEF t
        <3> QED BY <1>0, <2>1, <3>1, <3>2, <3>3, LocalTyped
    <2>3. CASE Answered(p, "error")
        BY <1>A, <2>1, <2>3, AnsweredTyped
    <2> QED BY <1>2, <2>2, <2>3 DEF HydrateForWrite
<1>3. CASE ReceivePack(p)
    <2> DEFINE refs == Loaded(manifests, push[p].parent).refs
               done == {r \in Commands(p) : refs[r] = push[p].old[r]}
               ws == [r \in Refs |-> IF r \in done THEN push[p].want[r] ELSE refs[r]]
               okay == (done = Commands(p))
               t == [push[p] EXCEPT !.st = "received", !.ws = ws, !.ok = okay, !.told = done]
    <2>1. push' = [push EXCEPT ![p] = t] /\ UNCHANGED <<repoVars, pushRest>> /\ shown' = shown
        BY <1>0, <1>3 DEF ReceivePack
    <2>2. refs \in RefMap /\ push[p].want \in RefMap
        BY <1>0, LoadedTypes DEF Push
    <2>3. ws \in RefMap /\ done \in SUBSET Refs /\ okay \in BOOLEAN
        BY <2>2 DEF RefMap, Commands
    <2> HIDE DEF ws, done, okay
    <2>4. t \in Push /\ t.parent = push[p].parent /\ t.digest = push[p].digest
        BY <1>0, <2>3 DEF Push, PushState
    <2> HIDE DEF t
    <2> QED BY <1>0, <2>1, <2>4, LocalTyped
<1>4. CASE DeclinePush(p)
    <2> DEFINE refs == Loaded(manifests, push[p].parent).refs
               t == [push[p] EXCEPT !.st = "received", !.ws = refs, !.ok = FALSE, !.told = {}]
    <2>1. push' = [push EXCEPT ![p] = t] /\ UNCHANGED <<repoVars, pushRest>> /\ shown' = shown
        BY <1>0, <1>4 DEF DeclinePush
    <2>2. refs \in RefMap
        BY <1>0, LoadedTypes
    <2> HIDE DEF refs
    <2>3. t \in Push /\ t.parent = push[p].parent /\ t.digest = push[p].digest
        BY <1>0, <2>2 DEF Push, PushState
    <2> HIDE DEF t
    <2> QED BY <1>0, <2>1, <2>3, LocalTyped
<1>5. CASE UploadCompacted(p)
    <2>1. PICK ps \in CompactedPacks(push[p].ws) : Uploaded(p, ps, ps)
        BY <1>5 DEF UploadCompacted
    <2>2. push[p].ws \in RefMap
        BY <1>0 DEF Push
    <2>3. ps \in SUBSET Pack
        BY <2>2, CompactedTypes
    <2> QED BY <2>1, <2>3, UploadedTyped
<1>6. CASE UploadDelta(p)
    <2> DEFINE parent == Loaded(manifests, push[p].parent)
    <2>1. PICK new \in DeltaPacks(parent.refs, push[p].ws) :
             Uploaded(p, new, parent.packs \cup new)
        BY <1>6 DEF UploadDelta
    <2>2. push[p].ws \in RefMap /\ parent.refs \in RefMap /\ parent.packs \in SUBSET Pack
        BY <1>0, LoadedTypes DEF Push
    <2> HIDE DEF parent
    <2>3. new \in SUBSET Pack /\ parent.packs \cup new \in SUBSET Pack
        BY <2>2, DeltaTypes
    <2> QED BY <2>1, <2>3, UploadedTyped
<1>7. CASE PutManifest(p)
    <2> DEFINE d == DigestOf(manifests, push[p].m)
               t == [push[p] EXCEPT !.st = "cas", !.put = "sent", !.digest = d]
    <2>1. /\ push' = [push EXCEPT ![p] = t]
          /\ manifests' = Stored(manifests, push[p].m)
          /\ UNCHANGED <<packs, pointer, chain, pushRest, shown>>
        BY <1>0, <1>7 DEF PutManifest
    <2>2. push[p].m \in Manifest
        BY <1>0 DEF Push
    <2>3. /\ manifests' \in Seq(Manifest) /\ Len(manifests) <= Len(manifests')
          /\ d \in 1..Len(manifests')
        BY <1>0, <2>1, <2>2, StoredFacts
    <2>5. Len(manifests) \in Nat /\ Len(manifests') \in Nat /\ d \in Nat
        BY <1>0, <2>3
    <2> HIDE DEF d
    <2>4. t \in Push /\ t.parent = push[p].parent /\ t.digest = d
        BY <1>0, <2>5 DEF Push, PushState, PutState
    <2>8. {t.parent, t.digest} \subseteq 0..Len(manifests')
        BY <1>0, <2>3, <2>4, <2>5
    <2> HIDE DEF t
    <2>6. /\ push' \in [Pushers -> Push]
          /\ \A q \in Pushers : {push'[q].parent, push'[q].digest} \subseteq 0..Len(manifests')
        BY <2>1, <2>3, <2>4, <2>5, <2>8, PushTyped
    <2>7. chain \in Seq(1..Len(manifests'))
        BY <1>0, <2>3, <2>5, SeqGrows
    <2>9. /\ reader' = reader /\ ann' = ann /\ row' = row
          /\ reader \in [Readers -> Reader] /\ ann \in [Announcers -> Ann]
          /\ \A x \in Readers : reader[x].digest <= Len(manifests')
          /\ \A a \in Announcers : ann[a].digest <= Len(manifests')
        BY <2>1, <2>3, <2>5 DEF TypeOK, pushRest, Reader, Ann
    <2>10. pointer' \in 0..Len(manifests')
        BY <1>0, <2>1, <2>3, <2>5
    <2> QED BY <1>0, <2>1, <2>3, <2>6, <2>7, <2>9, <2>10 DEF TypeOK
<1>8. CASE StoreCas(p)
    <2>1. PICK o \in {"won", "lost"} :
             /\ StorePointer(push[p].parent, push[p].digest, o)
             /\ push' = [push EXCEPT ![p].put = o]
        BY <1>8 DEF StoreCas
    <2> DEFINE t == [push[p] EXCEPT !.put = o]
    <2>2. push' = [push EXCEPT ![p] = t]
        BY <1>0, <2>1
    <2>3. t \in Push /\ t.parent = push[p].parent /\ t.digest = push[p].digest
        BY <1>0 DEF Push, PutState
    <2>4. UNCHANGED <<packs, manifests, pushRest, shown>>
        BY <1>8 DEF StoreCas
    <2>5. push[p].digest \in 1..Len(manifests)
        BY <1>0, <1>8 DEF IInv, PushInv, StoreCas
    <2>8. \/ pointer' = push[p].digest /\ chain' = Append(chain, push[p].digest)
          \/ UNCHANGED <<pointer, chain>>
        BY <2>1 DEF StorePointer
    <2>6. pointer' \in 0..Len(manifests) /\ chain' \in Seq(1..Len(manifests))
        <3>1. Append(chain, push[p].digest) \in Seq(1..Len(manifests))
            BY <1>0, <2>5, AppendGrows
        <3>2. push[p].digest \in 0..Len(manifests)
            BY <1>0
        <3> QED BY <1>0, <2>8, <3>1, <3>2
    <2> HIDE DEF t
    <2>7. /\ push' \in [Pushers -> Push]
          /\ \A q \in Pushers : {push'[q].parent, push'[q].digest} \subseteq 0..Len(manifests)
        BY <1>0, <2>2, <2>3 DEF TypeOK
    <2> QED BY <2>4, <2>6, <2>7 DEF TypeOK, pushRest
<1>9. CASE CasWon(p)
    BY <1>0, <1>9, StTyped DEF CasWon, PushState
<1>10. CASE PublishRefState(p)
    <2>1. push[p].m.refs \in RefMap
        BY <1>0 DEF Push, Manifest
    <2> QED BY <1>0, <1>10, <2>1, StTyped DEF PublishRefState, PushState
<1>11. CASE Respond(p)
    BY <1>A, <1>11, AnsweredTyped DEF Respond
<1>12. CASE Reject(p)
    BY <1>A, <1>12, AnsweredTyped DEF Reject
<1>13. CASE TooLarge(p)
    BY <1>A, <1>13, AnsweredTyped DEF TooLarge
<1>14. CASE CasLost(p)
    BY <1>A, <1>14, AnsweredTyped DEF CasLost
<1>15. CASE BackendError(p)
    BY <1>A, <1>15, AnsweredTyped DEF BackendError
<1>16. CASE LeaseLost(p)
    BY <1>A, <1>16, AnsweredTyped DEF LeaseLost
<1>17. CASE Crash(p)
    BY <1>A, <1>17, AnsweredTyped DEF Crash
<1>18. CASE InvalidManifest(p)
    BY <1>A, <1>18, AnsweredTyped DEF InvalidManifest
<1> QED BY <1>1, <1>2, <1>3, <1>4, <1>5, <1>6, <1>7, <1>8, <1>9, <1>10, <1>11,
           <1>12, <1>13, <1>14, <1>15, <1>16, <1>17, <1>18 DEF PushStep

\* The steps of a clone keep the types.
LEMMA ReadStepTypes ==
    ASSUME TypeOK, NEW x \in Readers, ReadStep(x)
    PROVE  TypeOK'
<1>0. /\ reader[x] \in Reader /\ reader \in [Readers -> Reader]
      /\ reader[x].digest <= Len(manifests)
      /\ manifests \in Seq(Manifest) /\ pointer \in 0..Len(manifests)
    BY DEF TypeOK
<1>6. pointer \in Nat /\ pointer <= Len(manifests)
    BY <1>0
<1>1. UNCHANGED readRest
    BY DEF ReadStep, InfoRefs, LoadPointer, UploadPack
<1>2. ASSUME NEW t \in Reader, reader' = [reader EXCEPT ![x] = t], t.digest <= Len(manifests)
      PROVE  TypeOK'
    BY <1>1, <1>2 DEF TypeOK, readRest, repoVars
<1>3. CASE InfoRefs(x)
    <2> DEFINE refs == Loaded(manifests, pointer).refs
               t == [reader[x] EXCEPT !.st = "advertised", !.want = refs]
    <2>1. reader' = [reader EXCEPT ![x] = t]
        BY <1>0, <1>3 DEF InfoRefs
    <2>2. refs \in RefMap
        BY <1>0, LoadedTypes
    <2> HIDE DEF refs
    <2>3. t \in Reader /\ t.digest = reader[x].digest
        BY <1>0, <2>2 DEF Reader
    <2> HIDE DEF t
    <2> QED BY <1>0, <1>2, <2>1, <2>3
<1>4. CASE LoadPointer(x)
    <2> DEFINE t == [reader[x] EXCEPT !.st = "hydrating", !.digest = pointer]
    <2>1. reader' = [reader EXCEPT ![x] = t]
        BY <1>0, <1>4 DEF LoadPointer
    <2>3. t \in Reader /\ t.digest = pointer
        BY <1>0, <1>6 DEF Reader
    <2> HIDE DEF t
    <2> QED BY <1>6, <1>2, <2>1, <2>3
<1>5. CASE UploadPack(x)
    <2> DEFINE m == Loaded(manifests, reader[x].digest)
               wanted == Closure(reader[x].want)
               s == IF ~(m.packs \subseteq packs) THEN "broken"
                    ELSE IF wanted \subseteq Closure(m.refs) THEN "served"
                    ELSE "notOurRef"
               o == wanted \cap UNION (m.packs \cap packs)
               t == [reader[x] EXCEPT !.st = s, !.got = o]
    <2>1. reader' = [reader EXCEPT ![x] = t]
        BY <1>0, <1>5 DEF UploadPack
    <2>2. s \in {"broken", "served", "notOurRef"}
        OBVIOUS
    <2>3. wanted \in SUBSET Commits
        BY <1>0, ClosureType DEF Reader
    <2>4. o \in SUBSET Commits
        BY <2>3
    <2> HIDE DEF s, o
    <2>5. t \in Reader /\ t.digest = reader[x].digest
        BY <1>0, <2>2, <2>4 DEF Reader
    <2> HIDE DEF t
    <2> QED BY <1>0, <1>2, <2>1, <2>5
<1> QED BY <1>3, <1>4, <1>5 DEF ReadStep

\* The steps of an announcement that leave the store alone.
LEMMA AnnLocalTyped ==
    ASSUME TypeOK, NEW a \in Announcers, NEW s \in AnnState, NEW f \in BOOLEAN,
           ann' = [ann EXCEPT ![a].st = s, ![a].fresh = f],
           UNCHANGED <<annRest, manifests, pointer, chain>>,
           row' \in BOOLEAN, shown' \in RefMap
    PROVE  TypeOK'
<1> DEFINE t == [ann[a] EXCEPT !.st = s, !.fresh = f]
<1>1. ann[a] \in Ann /\ ann[a].digest <= Len(manifests) /\ ann \in [Announcers -> Ann]
    BY DEF TypeOK
<1>2. ann' = [ann EXCEPT ![a] = t]
    BY <1>1
<1>3. t \in Ann /\ t.digest = ann[a].digest
    BY <1>1 DEF Ann
<1> HIDE DEF t
<1>4. ann' \in [Announcers -> Ann] /\ \A b \in Announcers : ann'[b].digest <= Len(manifests)
    BY <1>1, <1>2, <1>3 DEF TypeOK
<1> QED BY <1>4 DEF TypeOK, annRest

\* An announcement that only moves on.
LEMMA AnnStTyped ==
    ASSUME TypeOK, NEW a \in Announcers, NEW s \in AnnState,
           ann' = [ann EXCEPT ![a].st = s],
           UNCHANGED <<annRest, manifests, pointer, chain>>,
           row' \in BOOLEAN, shown' \in RefMap
    PROVE  TypeOK'
<1>1. ann[a] \in Ann /\ ann \in [Announcers -> Ann]
    BY DEF TypeOK
<1>2. ann[a].fresh \in BOOLEAN
    BY <1>1 DEF Ann
<1>3. ann' = [ann EXCEPT ![a].st = s, ![a].fresh = ann[a].fresh]
    BY <1>1 DEF Ann
<1> QED BY <1>2, <1>3, AnnLocalTyped

\* The steps of an announcement keep the types.
LEMMA AnnounceStepTypes ==
    ASSUME TypeOK, IInv, NEW a \in Announcers, AnnounceStep(a)
    PROVE  TypeOK'
<1>0. /\ ann[a] \in Ann /\ ann \in [Announcers -> Ann] /\ ann[a].digest <= Len(manifests)
      /\ manifests \in Seq(Manifest) /\ pointer \in 0..Len(manifests)
      /\ chain \in Seq(1..Len(manifests)) /\ row \in BOOLEAN /\ shown \in RefMap
    BY DEF TypeOK
<1>S. /\ "ensuring" \in AnnState /\ "conflict" \in AnnState /\ "seeding" \in AnnState
      /\ "failed" \in AnnState /\ "failing" \in AnnState /\ "occupied" \in AnnState
      /\ "seeded" \in AnnState /\ "accepted" \in AnnState /\ "crashed" \in AnnState
      /\ "cas" \in AnnState
    BY DEF AnnState
<1>1. CASE ReserveName(a)
    <2>1. UNCHANGED <<annRest, manifests, pointer, chain>> /\ shown' = shown
        BY <1>1 DEF ReserveName
    <2>2. CASE ann' = [ann EXCEPT ![a].st = "seeding", ![a].fresh = TRUE] /\ row' = TRUE
        BY <1>0, <1>S, <2>1, <2>2, AnnLocalTyped
    <2>3. CASE \E s \in {"ensuring", "conflict", "failed"} :
                  ann' = [ann EXCEPT ![a].st = s] /\ row' = row
        BY <1>0, <1>S, <2>1, <2>3, AnnStTyped
    <2> QED BY <1>1, <2>2, <2>3 DEF ReserveName
<1>2. CASE ReadHolder(a)
    BY <1>0, <1>S, <1>2, AnnStTyped DEF ReadHolder
<1>3. CASE EnsurePointer(a)
    BY <1>0, <1>S, <1>3, AnnStTyped DEF EnsurePointer
<1>4. CASE SeedManifest(a)
    <2> DEFINE d == DigestOf(manifests, EmptyManifest)
               t == [ann[a] EXCEPT !.st = "cas", !.put = "sent", !.digest = d]
    <2>1. /\ ann' = [ann EXCEPT ![a] = t]
          /\ manifests' = Stored(manifests, EmptyManifest)
          /\ UNCHANGED <<annRest, pointer, chain, row, shown>>
        BY <1>0, <1>4 DEF SeedManifest
    <2>3. /\ manifests' \in Seq(Manifest) /\ Len(manifests) <= Len(manifests')
          /\ d \in 1..Len(manifests')
        BY <1>0, <2>1, FreshTypes, StoredFacts
    <2>5. Len(manifests) \in Nat /\ Len(manifests') \in Nat /\ d \in Nat /\ d <= Len(manifests')
        BY <1>0, <2>3
    <2> HIDE DEF d
    <2>4. t \in Ann /\ t.digest = d
        BY <1>0, <1>S, <2>5 DEF Ann, PutState
    <2> HIDE DEF t
    <2>6. ann' \in [Announcers -> Ann] /\ \A b \in Announcers : ann'[b].digest <= Len(manifests')
        <3>1. \A b \in Announcers : ann[b].digest \in Nat /\ ann[b].digest <= Len(manifests)
            BY DEF TypeOK, Ann
        <3> QED BY <1>0, <2>1, <2>3, <2>4, <2>5, <3>1
    <2>7. chain \in Seq(1..Len(manifests'))
        BY <1>0, <2>3, <2>5, SeqGrows
    <2>8. /\ push' = push /\ push \in [Pushers -> Push]
          /\ \A p \in Pushers : {push[p].parent, push[p].digest} \subseteq 0..Len(manifests')
        BY <2>1, <2>3, <2>5 DEF TypeOK, annRest
    <2>9. /\ reader' = reader /\ reader \in [Readers -> Reader]
          /\ \A x \in Readers : reader[x].digest <= Len(manifests')
        BY <2>1, <2>3, <2>5 DEF TypeOK, annRest, Reader
    <2>10. pointer' \in 0..Len(manifests')
        BY <1>0, <2>1, <2>3, <2>5
    <2>11. packs' \subseteq Pack
        BY <2>1 DEF TypeOK, annRest
    <2> QED BY <1>0, <2>1, <2>3, <2>6, <2>7, <2>8, <2>9, <2>10, <2>11 DEF TypeOK
<1>5. CASE StoreSeed(a)
    <2>1. PICK o \in {"won", "lost"} :
             /\ StorePointer(0, ann[a].digest, o)
             /\ ann' = [ann EXCEPT ![a].put = o]
        BY <1>5 DEF StoreSeed
    <2> DEFINE t == [ann[a] EXCEPT !.put = o]
    <2>2. ann' = [ann EXCEPT ![a] = t]
        BY <1>0, <2>1
    <2>3. t \in Ann /\ t.digest = ann[a].digest
        BY <1>0 DEF Ann, PutState
    <2>4. UNCHANGED <<annRest, manifests, row, shown>>
        BY <1>5 DEF StoreSeed
    <2>5. ann[a].digest \in 1..Len(manifests)
        <3>1. ann[a].digest # 0 /\ ann[a].digest \in Nat
            BY <1>0, <1>5 DEF IInv, AnnInv, StoreSeed, Ann
        <3> QED BY <1>0, <3>1
    <2>8. \/ pointer' = ann[a].digest /\ chain' = Append(chain, ann[a].digest)
          \/ UNCHANGED <<pointer, chain>>
        BY <2>1 DEF StorePointer
    <2>6. pointer' \in 0..Len(manifests) /\ chain' \in Seq(1..Len(manifests))
        <3>1. Append(chain, ann[a].digest) \in Seq(1..Len(manifests))
            BY <1>0, <2>5, AppendGrows
        <3>2. ann[a].digest \in 0..Len(manifests)
            BY <2>5
        <3> QED BY <1>0, <2>8, <3>1, <3>2
    <2> HIDE DEF t
    <2>7. ann' \in [Announcers -> Ann] /\ \A b \in Announcers : ann'[b].digest <= Len(manifests)
        BY <1>0, <2>2, <2>3 DEF TypeOK
    <2> QED BY <2>4, <2>6, <2>7 DEF TypeOK, annRest
<1>6. CASE SeedWon(a)
    BY <1>0, <1>S, <1>6, AnnStTyped DEF SeedWon
<1>7. CASE SeedLost(a)
    BY <1>0, <1>S, <1>7, AnnStTyped DEF SeedLost
<1>8. CASE SeedError(a)
    BY <1>0, <1>S, <1>8, AnnStTyped DEF SeedError
<1>9. CASE ReleaseName(a)
    BY <1>0, <1>S, <1>9, AnnStTyped DEF ReleaseName
<1>10. CASE EmitInitial(a)
    BY <1>0, <1>S, <1>10, FreshTypes, AnnStTyped DEF EmitInitial
<1>11. CASE AnnounceCrash(a)
    BY <1>0, <1>S, <1>11, AnnStTyped DEF AnnounceCrash
<1> QED BY <1>1, <1>2, <1>3, <1>4, <1>5, <1>6, <1>7, <1>8, <1>9, <1>10, <1>11 DEF AnnounceStep

\* The initial state has its types.
LEMMA InitTypes == Init => TypeOK
<1> SUFFICES ASSUME Init PROVE TypeOK
    OBVIOUS
<1>1. Len(<<>>) = 0
    OBVIOUS
<1>2. NewPush \in Push /\ NewPush.parent = 0 /\ NewPush.digest = 0
    BY FreshTypes DEF NewPush, Push, PushState, PutState, Answer
<1>3. NewReader \in Reader /\ NewReader.digest = 0
    BY FreshTypes DEF NewReader, Reader
<1>4. NewAnn \in Ann /\ NewAnn.digest = 0
    BY DEF NewAnn, Ann, AnnState, PutState
<1>5. /\ manifests \in Seq(Manifest) /\ pointer \in 0..Len(manifests)
      /\ chain \in Seq(1..Len(manifests))
    BY <1>1 DEF Init
<1>6. /\ push \in [Pushers -> Push]
      /\ \A p \in Pushers : {push[p].parent, push[p].digest} \subseteq 0..Len(manifests)
    BY <1>1, <1>2 DEF Init
<1>7. reader \in [Readers -> Reader] /\ \A x \in Readers : reader[x].digest <= Len(manifests)
    BY <1>1, <1>3 DEF Init
<1>8. ann \in [Announcers -> Ann] /\ \A a \in Announcers : ann[a].digest <= Len(manifests)
    BY <1>1, <1>4 DEF Init
<1> QED BY <1>5, <1>6, <1>7, <1>8, FreshTypes DEF Init, TypeOK

\* Types are kept, given the invariant.
LEMMA StepTypes == TypeOK /\ IInv /\ [Next]_vars => TypeOK'
<1> SUFFICES ASSUME TypeOK, IInv, [Next]_vars PROVE TypeOK'
    OBVIOUS
<1>1. CASE UNCHANGED vars
    BY <1>1 DEF TypeOK, vars, repoVars
<1>2. CASE Next
    BY <1>2, PushStepTypes, ReadStepTypes, AnnounceStepTypes DEF Next
<1> QED BY <1>1, <1>2
=============================================================================
