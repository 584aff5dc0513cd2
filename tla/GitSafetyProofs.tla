--------------------------- MODULE GitSafetyProofs ---------------------------
(***************************************************************************)
(* The invariant of GitPublishProofs is inductive, and what follows from   *)
(* it.                                                                     *)
(*                                                                         *)
(* The argument: the store only grows (Grow), so what a request has seen   *)
(* stays true; a manifest is stored after the packs it names and after its *)
(* parent, so digests increase along the pointer's history; and a          *)
(* conditional write that wins moves the pointer from the parent of the    *)
(* manifest it publishes.                                                  *)
(***************************************************************************)
EXTENDS GitPublishProofs, FiniteSetTheorems

\* Nothing stored is changed or removed, and the pointer moves to newer
\* manifests only.
Grow ==
    /\ packs \subseteq packs'
    /\ Len(manifests) \in Nat /\ Len(manifests') \in Nat /\ Len(manifests) <= Len(manifests')
    /\ \A d \in 1..Len(manifests) : manifests'[d] = manifests[d]
    /\ pointer \in Nat /\ pointer' \in Nat /\ pointer <= pointer'
    /\ \A i \in DOMAIN chain : i \in DOMAIN chain' /\ chain'[i] = chain[i]

\* A manifest fit to be stored: its packs are stored and cover its refs, and
\* its parent is stored.
Storable(m) ==
    /\ m \in Manifest /\ m.parent <= Len(manifests)
    /\ m.packs \subseteq packs /\ Closure(m.refs) \subseteq UNION m.packs

\* Storing packs.
LEMMA PacksStored ==
    ASSUME TypeOK, StoreInv, packs \subseteq packs', UNCHANGED <<manifests, pointer, chain>>
    PROVE  StoreInv' /\ Grow
<1>1. Len(manifests) \in Nat /\ pointer \in Nat
    BY DEF TypeOK
<1>2. Closed'
    BY DEF StoreInv, Closed
<1> QED BY <1>1, <1>2 DEF StoreInv, Linear, Grow

\* Leaving the store alone.
LEMMA IdleStore ==
    ASSUME TypeOK, StoreInv, UNCHANGED repoVars
    PROVE  StoreInv' /\ Grow
BY PacksStored DEF repoVars

\* Storing a manifest.
LEMMA ManifestStored ==
    ASSUME TypeOK, StoreInv, NEW m, Storable(m), manifests' = Stored(manifests, m),
           UNCHANGED <<packs, pointer, chain>>
    PROVE  StoreInv' /\ Grow
<1>0. /\ manifests \in Seq(Manifest) /\ Len(manifests) \in Nat /\ pointer \in Nat
      /\ chain \in Seq(1..Len(manifests)) /\ m \in Manifest
    BY DEF TypeOK, Storable
<1>1. /\ manifests' \in Seq(Manifest)
      /\ Len(manifests) <= Len(manifests')
      /\ \A d \in 1..Len(manifests) : manifests'[d] = manifests[d]
      /\ \A d \in 1..Len(manifests') : d \in 1..Len(manifests) \/ manifests'[d] = m
    BY <1>0, StoredFacts
<1>2. Len(manifests') \in Nat /\ DOMAIN manifests' = 1..Len(manifests')
      /\ DOMAIN manifests = 1..Len(manifests)
    BY <1>0, <1>1
<1>3. Grow
    BY <1>0, <1>1, <1>2 DEF Grow
<1>4. Closed'
    <2> SUFFICES ASSUME NEW d \in 1..Len(manifests')
                 PROVE  /\ manifests'[d].packs \subseteq packs
                        /\ Closure(manifests'[d].refs) \subseteq UNION manifests'[d].packs
        BY <1>2 DEF Closed
    <2>1. CASE d \in 1..Len(manifests)
        BY <1>1, <1>2, <2>1 DEF StoreInv, Closed
    <2>2. CASE manifests'[d] = m
        BY <2>2 DEF Storable
    <2> QED BY <1>1, <2>1, <2>2
<1>5. \A d \in DOMAIN manifests' : manifests'[d].parent < d
    <2> SUFFICES ASSUME NEW d \in 1..Len(manifests') PROVE manifests'[d].parent < d
        BY <1>2
    <2>1. CASE d \in 1..Len(manifests)
        BY <1>1, <1>2, <2>1 DEF StoreInv
    <2>2. CASE d \notin 1..Len(manifests)
        <3>1. manifests'[d] = m /\ m.parent <= Len(manifests) /\ m.parent \in Nat
            BY <1>1, <2>2 DEF Storable, Manifest
        <3>2. d > Len(manifests)
            BY <1>0, <2>2
        <3> QED BY <1>0, <3>1, <3>2
    <2> QED BY <2>1, <2>2
<1>6. Linear'
    <2>1. \A i \in DOMAIN chain : manifests'[chain[i]] = manifests[chain[i]]
        BY <1>0, <1>1
    <2> QED BY <2>1 DEF StoreInv, Linear
<1> QED BY <1>3, <1>4, <1>5, <1>6 DEF StoreInv

\* The conditional write: the manifest it publishes was derived from the one
\* it expects.
LEMMA PointerStored ==
    ASSUME TypeOK, StoreInv, NEW expected, NEW d \in 1..Len(manifests), NEW o,
           StorePointer(expected, d, o), manifests[d].parent = expected,
           UNCHANGED <<packs, manifests>>
    PROVE  /\ StoreInv' /\ Grow
           /\ o = "won" => pointer' = d /\ \E i \in DOMAIN chain' : chain'[i] = d
           /\ o = "lost" => pointer' = pointer /\ pointer # expected
<1>0. /\ Len(manifests) \in Nat /\ pointer \in Nat /\ d \in Nat /\ d # 0
      /\ chain \in Seq(1..Len(manifests)) /\ DOMAIN manifests = 1..Len(manifests)
      /\ DOMAIN chain = 1..Len(chain) /\ Len(chain) \in Nat
      /\ \A i \in DOMAIN chain : chain[i] \in Nat
    BY DEF TypeOK
<1>1. CASE pointer # expected /\ o = "lost" /\ UNCHANGED <<pointer, chain>>
    <2>1. UNCHANGED repoVars
        BY <1>1 DEF repoVars
    <2> QED BY <1>1, <2>1, IdleStore
<1>2. CASE pointer = expected /\ pointer' = d /\ chain' = Append(chain, d) /\ o = "won"
    <2> DEFINE n == Len(chain) + 1
    <2>1. /\ DOMAIN chain' = 1..n /\ Len(chain') = n /\ chain' # <<>>
          /\ \A i \in 1..Len(chain) : chain'[i] = chain[i]
          /\ chain'[n] = d
        BY <1>0, <1>2, AppendGrows
    <2>2. pointer < d
        BY <1>0, <1>2 DEF StoreInv
    <2>3. Grow
        BY <1>0, <1>2, <2>1, <2>2 DEF Grow
    <2>4. \A i \in DOMAIN chain : chain[i] < d
        BY <1>0, <2>2 DEF StoreInv
    <2>5. \A i \in DOMAIN chain' : (i \in DOMAIN chain /\ chain'[i] = chain[i]) \/ i = n
        BY <1>0, <2>1
    <2>6. \A i \in DOMAIN chain' : chain'[i] <= pointer'
        BY <1>0, <1>2, <2>1, <2>4, <2>5
    <2>7. \A i, j \in DOMAIN chain' : i < j => chain'[i] < chain'[j]
        <3> SUFFICES ASSUME NEW i \in DOMAIN chain', NEW j \in DOMAIN chain', i < j
                     PROVE  chain'[i] < chain'[j]
            OBVIOUS
        <3>1. i \in DOMAIN chain /\ chain'[i] = chain[i]
            BY <1>0, <2>1
        <3>2. CASE j \in DOMAIN chain
            BY <1>0, <2>1, <3>1, <3>2 DEF StoreInv
        <3>3. CASE j = n
            BY <2>1, <2>4, <3>1, <3>3
        <3> QED BY <2>5, <3>2, <3>3
    <2>8. Linear'
        <3>1. pointer' = IF chain' = <<>> THEN 0 ELSE chain'[Len(chain')]
            BY <1>2, <2>1
        <3>2. ASSUME NEW i \in DOMAIN chain'
              PROVE  manifests[chain'[i]].parent = IF i = 1 THEN 0 ELSE chain'[i - 1]
            <4>1. CASE i \in DOMAIN chain
                <5>1. manifests[chain[i]].parent = IF i = 1 THEN 0 ELSE chain[i - 1]
                    BY <4>1 DEF StoreInv, Linear
                <5>2. i # 1 => i - 1 \in 1..Len(chain)
                    BY <1>0, <4>1
                <5>3. i # 1 => chain'[i - 1] = chain[i - 1]
                    BY <2>1, <5>2
                <5> QED BY <1>0, <2>1, <4>1, <5>1, <5>3
            <4>2. CASE i = n
                <5>1. manifests[chain'[i]].parent = pointer
                    BY <1>2, <2>1, <4>2
                <5>2. CASE chain = <<>>
                    BY <1>0, <4>2, <5>1, <5>2 DEF StoreInv, Linear
                <5>3. CASE chain # <<>>
                    <6>1. Len(chain) # 0
                        BY <1>0, <5>3
                    <6>2. pointer = chain[Len(chain)]
                        BY <5>3 DEF StoreInv, Linear
                    <6>3. chain'[i - 1] = chain[Len(chain)] /\ i # 1
                        BY <1>0, <2>1, <4>2, <6>1
                    <6> QED BY <5>1, <6>2, <6>3
                <5> QED BY <5>2, <5>3
            <4> QED BY <2>5, <4>1, <4>2
        <3>3. ASSUME NEW i \in DOMAIN chain', NEW j \in DOMAIN chain', chain'[i] = chain'[j]
              PROVE  i = j
            <4>1. i \in Nat /\ j \in Nat /\ chain'[i] \in Nat /\ chain'[j] \in Nat
                BY <1>0, <2>1, <2>5
            <4>2. ~(i < j) /\ ~(j < i)
                BY <2>7, <3>3, <4>1
            <4> QED BY <4>1, <4>2
        <3> QED BY <3>1, <3>2, <3>3 DEF Linear
    <2>9. Closed' /\ \A e \in DOMAIN manifests' : manifests'[e].parent < e
        BY DEF StoreInv, Closed
    <2>10. StoreInv'
        BY <2>6, <2>7, <2>8, <2>9 DEF StoreInv
    <2>11. n \in DOMAIN chain'
        BY <1>0, <2>1
    <2> QED BY <1>2, <2>1, <2>3, <2>10, <2>11
<1> QED BY <1>1, <1>2 DEF StorePointer

-----------------------------------------------------------------------------
(***************************************************************************)
(* Requests that take no step.                                             *)
(***************************************************************************)
\* A digest keeps standing for the same manifest.
LEMMA LoadedKept ==
    ASSUME Grow, NEW d \in 0..Len(manifests)
    PROVE  Loaded(manifests', d) = Loaded(manifests, d)
<1>1. CASE d = 0
    BY <1>1 DEF Loaded
<1>2. CASE d # 0
    <2>1. d \in 1..Len(manifests)
        BY <1>2 DEF Grow
    <2> QED BY <1>2, <2>1 DEF Loaded, Grow
<1> QED BY <1>1, <1>2

\* A record that changes in nothing but where the request is and what it was
\* answered keeps its invariant.
LEMMA PushKept ==
    ASSUME TypeOK, Grow, NEW p \in Pushers, PushInv(p), PushFlow(p)',
           push'[p].old = push[p].old, push'[p].want = push[p].want,
           push'[p].parent = push[p].parent, push'[p].ws = push[p].ws,
           push'[p].ok = push[p].ok, push'[p].m = push[p].m,
           push'[p].digest = push[p].digest, push'[p].put = push[p].put,
           push'[p].st = "packed" => push[p].st = "packed"
    PROVE  PushInv(p)'
<1>0. /\ push[p].parent \in 0..Len(manifests) /\ push[p].digest \in 0..Len(manifests)
      /\ pointer \in Nat /\ pointer' \in Nat /\ pointer <= pointer' /\ Len(manifests) \in Nat
      /\ push[p].parent \in Nat
    BY DEF TypeOK, Grow
<1>1. Commands(p)' = Commands(p)
    BY DEF Commands
<1>2. Loaded(manifests, push[p].parent)' = Loaded(manifests, push[p].parent)
    BY <1>0, LoadedKept
<1>3. push[p].ok => Executed(p)'
    BY <1>1, <1>2 DEF PushInv, Executed
<1>4. push'[p].st = "packed" \/ push'[p].put # "none" => Derived(p)'
    BY DEF PushInv, Derived, Grow
<1>5. push[p].put # "none" => push[p].digest # 0 /\ manifests'[push[p].digest] = push[p].m
    <2>1. push[p].digest # 0 => manifests'[push[p].digest] = manifests[push[p].digest]
        BY <1>0 DEF Grow
    <2> QED BY <2>1 DEF PushInv
<1>6. push[p].put = "won" => \E i \in DOMAIN chain' : chain'[i] = push[p].digest
    BY DEF PushInv, Grow
<1>7. push[p].parent <= pointer' /\ (push[p].put = "lost" => push[p].parent < pointer')
    BY <1>0 DEF PushInv
<1> QED BY <1>3, <1>4, <1>5, <1>6, <1>7 DEF PushInv

\* A push that takes no step.
LEMMA PushIdle ==
    ASSUME TypeOK, Grow, NEW p \in Pushers, PushInv(p), push'[p] = push[p]
    PROVE  PushInv(p)'
<1>1. PushFlow(p)'
    BY DEF PushInv, PushFlow
<1> QED BY <1>1, PushKept

\* An announcement whose digest and conditional write stay.
LEMMA AnnKept ==
    ASSUME TypeOK, Grow, NEW a \in Announcers, AnnInv(a),
           ann'[a].digest = ann[a].digest, ann'[a].put = ann[a].put,
           ann'[a].st \in {"seeded", "accepted"} => pointer # 0
    PROVE  AnnInv(a)'
<1>0. /\ ann[a].digest \in Nat /\ ann[a].digest <= Len(manifests)
      /\ pointer \in Nat /\ pointer' \in Nat /\ pointer <= pointer' /\ Len(manifests) \in Nat
    BY DEF TypeOK, Ann, Grow
<1>1. ann[a].digest # 0 => manifests'[ann[a].digest] = manifests[ann[a].digest]
    BY <1>0 DEF Grow
<1>2. pointer # 0 => pointer' # 0
    BY <1>0
<1> QED BY <1>1, <1>2 DEF AnnInv

\* An announcement that takes no step.
LEMMA AnnIdle ==
    ASSUME TypeOK, Grow, NEW a \in Announcers, AnnInv(a), ann'[a] = ann[a]
    PROVE  AnnInv(a)'
<1>1. ann[a].st \in {"seeded", "accepted"} => pointer # 0
    BY DEF AnnInv
<1> QED BY <1>1, AnnKept

-----------------------------------------------------------------------------
(***************************************************************************)
(* The steps of a push.                                                    *)
(***************************************************************************)
\* The answer fits what the conditional write has come to.
LEMMA AnsweredKept ==
    ASSUME TypeOK, IInv, NEW p \in Pushers, NEW a, Answered(p, a), UNCHANGED repoVars,
           a # "none",
           a = "ok" => push[p].put = "won",
           a \in {"rejected", "tooLarge", "invalid"} => push[p].put = "none",
           a = "conflict" => push[p].put = "lost"
    PROVE  StoreInv' /\ Grow /\ PushInv(p)'
<1>1. StoreInv' /\ Grow
    BY IdleStore DEF IInv
<1>2. push \in [Pushers -> Push] /\ push[p] \in Push /\ PushInv(p)
    BY DEF TypeOK, IInv
<1>3. push'[p] = [push[p] EXCEPT !.st = "done", !.resp = a]
    BY <1>2 DEF Answered
<1>4. /\ push'[p].st = "done" /\ push'[p].resp = a
      /\ push'[p].old = push[p].old /\ push'[p].want = push[p].want
      /\ push'[p].parent = push[p].parent /\ push'[p].ws = push[p].ws
      /\ push'[p].ok = push[p].ok /\ push'[p].m = push[p].m
      /\ push'[p].digest = push[p].digest /\ push'[p].put = push[p].put
    BY <1>2, <1>3 DEF Push
<1>5. PushFlow(p)'
    BY <1>4 DEF PushFlow
<1> QED BY <1>1, <1>2, <1>4, <1>5, PushKept

\* The steps that follow a conditional write that won.
LEMMA CommittedKept ==
    ASSUME TypeOK, IInv, NEW p \in Pushers, NEW s \in {"won", "published", "unpublished"},
           push' = [push EXCEPT ![p].st = s], UNCHANGED repoVars,
           push[p].st # "done", push[p].put = "won"
    PROVE  StoreInv' /\ Grow /\ PushInv(p)'
<1>1. StoreInv' /\ Grow
    BY IdleStore DEF IInv
<1>2. push \in [Pushers -> Push] /\ push[p] \in Push /\ PushInv(p)
    BY DEF TypeOK, IInv
<1>3. push'[p] = [push[p] EXCEPT !.st = s]
    BY <1>2
<1>4. /\ push'[p].st = s /\ push'[p].resp = push[p].resp
      /\ push'[p].old = push[p].old /\ push'[p].want = push[p].want
      /\ push'[p].parent = push[p].parent /\ push'[p].ws = push[p].ws
      /\ push'[p].ok = push[p].ok /\ push'[p].m = push[p].m
      /\ push'[p].digest = push[p].digest /\ push'[p].put = push[p].put
    BY <1>2, <1>3 DEF Push
<1>5. PushFlow(p)'
    BY <1>2, <1>4 DEF PushFlow, PushInv
<1> QED BY <1>1, <1>2, <1>4, <1>5, PushKept

\* The packs of a parent are stored and cover its refs.
LEMMA LoadedClosed ==
    ASSUME TypeOK, StoreInv, NEW d \in 0..Len(manifests)
    PROVE  /\ Loaded(manifests, d).packs \subseteq packs
           /\ Closure(Loaded(manifests, d).refs) \subseteq UNION Loaded(manifests, d).packs
<1>1. CASE d = 0
    BY <1>1, FreshTypes DEF Loaded, FreshParent
<1>2. CASE d # 0
    <2>1. d \in DOMAIN manifests
        BY <1>2 DEF TypeOK
    <2> QED BY <1>2, <2>1 DEF Loaded, StoreInv, Closed
<1> QED BY <1>1, <1>2

\* m_after after an upload that covers the refs of the workspace.
LEMMA UploadedKept ==
    ASSUME TypeOK, IInv, NEW p \in Pushers, NEW new \in SUBSET Pack, NEW keys \in SUBSET Pack,
           Uploaded(p, new, keys), push[p].st = "received", push[p].ok,
           keys \subseteq packs \cup new, Closure(push[p].ws) \subseteq UNION keys
    PROVE  StoreInv' /\ Grow /\ PushInv(p)'
<1> DEFINE m == Compose(Loaded(manifests, push[p].parent), push[p].parent, push[p].ws, keys)
<1>0. /\ push \in [Pushers -> Push] /\ push[p] \in Push /\ PushInv(p) /\ push[p].ws \in RefMap
      /\ manifests \in Seq(Manifest) /\ push[p].parent \in 0..Len(manifests)
    BY DEF TypeOK, IInv, Push
<1>1. packs' = packs \cup new /\ UNCHANGED <<manifests, pointer, chain>>
    BY DEF Uploaded
<1>2. StoreInv' /\ Grow
    BY <1>1, PacksStored DEF IInv
<1>3. m.refs = push[p].ws /\ m.packs = keys /\ m.parent = push[p].parent
    BY <1>0, ComposedTypes
<1>4. push'[p] = [push[p] EXCEPT !.st = "packed", !.m = m]
    BY <1>0 DEF Uploaded
<1> HIDE DEF m
<1>5. /\ push'[p].st = "packed" /\ push'[p].resp = push[p].resp
      /\ push'[p].old = push[p].old /\ push'[p].want = push[p].want
      /\ push'[p].parent = push[p].parent /\ push'[p].ws = push[p].ws
      /\ push'[p].m = m
      /\ push'[p].digest = push[p].digest /\ push'[p].put = push[p].put
    BY <1>0, <1>4 DEF Push
<1>10. push'[p].ok
    BY <1>0, <1>4 DEF Push
<1>6. PushFlow(p) /\ push[p].put = "none" /\ Executed(p) /\ push[p].parent <= pointer
    BY <1>0 DEF PushInv, PushFlow
<1>7. PushFlow(p)'
    BY <1>5, <1>6, <1>10 DEF PushFlow
<1>8. Executed(p)'
    BY <1>1, <1>5, <1>6 DEF Executed, Commands
<1>9. Derived(p)'
    BY <1>1, <1>3, <1>5, <1>10 DEF Derived
<1> QED BY <1>1, <1>2, <1>5, <1>6, <1>7, <1>8, <1>9, <1>10 DEF PushInv

\* The steps of a push.
LEMMA PushStepInv ==
    ASSUME TypeOK, IInv, NEW p \in Pushers, PushStep(p)
    PROVE  StoreInv' /\ Grow /\ PushInv(p)'
<1>0. /\ push \in [Pushers -> Push] /\ push[p] \in Push /\ PushInv(p) /\ PushFlow(p) /\ StoreInv
      /\ manifests \in Seq(Manifest) /\ push[p].parent \in 0..Len(manifests)
      /\ push[p].digest \in 0..Len(manifests) /\ pointer \in 0..Len(manifests)
      /\ Len(manifests) \in Nat
    BY DEF TypeOK, IInv, PushInv
<1>1. CASE Advertise(p)
    <2>1. PICK w \in RefMap :
             push' = [push EXCEPT ![p].st = "asked", ![p].want = w,
                                  ![p].old = Loaded(manifests, pointer).refs]
        BY <1>1 DEF Advertise
    <2>2. push'[p] = [push[p] EXCEPT !.st = "asked", !.want = w,
                                     !.old = Loaded(manifests, pointer).refs]
        BY <1>0, <2>1
    <2>3. /\ push'[p].st = "asked" /\ push'[p].resp = push[p].resp
          /\ push'[p].parent = push[p].parent
          /\ push'[p].ok = push[p].ok /\ push'[p].put = push[p].put
        BY <1>0, <2>2 DEF Push
    <2>4. UNCHANGED repoVars /\ push[p].st = "idle" /\ ~push[p].ok /\ push[p].put = "none"
        BY <1>0, <1>1 DEF Advertise, PushFlow
    <2>5. StoreInv' /\ Grow
        BY <1>0, <2>4, IdleStore
    <2>6. PushFlow(p)'
        BY <1>0, <2>3, <2>4 DEF PushFlow
    <2>7. push'[p].parent <= pointer'
        BY <1>0, <2>3, <2>4 DEF PushInv, repoVars
    <2> QED BY <2>3, <2>4, <2>5, <2>6, <2>7 DEF PushInv
<1>2. CASE HydrateForWrite(p)
    <2>1. CASE Answered(p, "error")
        BY <1>2, <2>1, AnsweredKept DEF HydrateForWrite
    <2>2. CASE push' = [push EXCEPT ![p].st = "hydrated", ![p].parent = pointer]
        <3>2. push'[p] = [push[p] EXCEPT !.st = "hydrated", !.parent = pointer]
            BY <1>0, <2>2
        <3>3. /\ push'[p].st = "hydrated" /\ push'[p].resp = push[p].resp
              /\ push'[p].parent = pointer
              /\ push'[p].ok = push[p].ok /\ push'[p].put = push[p].put
            BY <1>0, <3>2 DEF Push
        <3>4. UNCHANGED repoVars /\ push[p].st = "asked" /\ ~push[p].ok /\ push[p].put = "none"
            BY <1>0, <1>2 DEF HydrateForWrite, PushFlow
        <3>5. StoreInv' /\ Grow
            BY <1>0, <3>4, IdleStore
        <3>6. PushFlow(p)'
            BY <1>0, <3>3, <3>4 DEF PushFlow
        <3>7. push'[p].parent <= pointer'
            BY <1>0, <3>3, <3>4 DEF repoVars
        <3> QED BY <3>3, <3>4, <3>5, <3>6, <3>7 DEF PushInv
    <2> QED BY <1>2, <2>1, <2>2 DEF HydrateForWrite
<1>3. CASE ReceivePack(p)
    <2> DEFINE refs == Loaded(manifests, push[p].parent).refs
               done == {r \in Commands(p) : refs[r] = push[p].old[r]}
               ws == [r \in Refs |-> IF r \in done THEN push[p].want[r] ELSE refs[r]]
               okay == (done = Commands(p))
    <2>1. push'[p] = [push[p] EXCEPT !.st = "received", !.ws = ws, !.ok = okay, !.told = done]
        BY <1>0, <1>3 DEF ReceivePack
    <2>2. UNCHANGED repoVars /\ push[p].st = "hydrated" /\ push[p].put = "none"
        BY <1>0, <1>3 DEF ReceivePack, PushFlow
    <2>3. /\ push'[p].st = "received" /\ push'[p].resp = push[p].resp
          /\ push'[p].old = push[p].old /\ push'[p].want = push[p].want
          /\ push'[p].parent = push[p].parent /\ push'[p].ws = ws
          /\ push'[p].ok = okay /\ push'[p].put = push[p].put
        <3> HIDE DEF ws, okay, done
        <3> QED BY <1>0, <2>1 DEF Push
    <2>4. StoreInv' /\ Grow
        BY <1>0, <2>2, IdleStore
    <2>5. PushFlow(p)'
        <3> HIDE DEF ws, okay, done
        <3> QED BY <1>0, <2>2, <2>3 DEF PushFlow
    <2>6. push'[p].parent <= pointer'
        BY <1>0, <2>2, <2>3 DEF PushInv, repoVars
    <2>7. push'[p].ok => Executed(p)'
        <3> SUFFICES ASSUME okay PROVE Executed(p)'
            BY <2>3
        <3>1. Commands(p)' = Commands(p) /\ Loaded(manifests, push[p].parent).refs' = refs
            BY <2>2, <2>3 DEF Commands, repoVars
        <3>2. \A r \in Commands(p) : refs[r] = push[p].old[r]
            OBVIOUS
        <3>3. ws = [r \in Refs |-> IF r \in Commands(p) THEN push[p].want[r] ELSE refs[r]]
            OBVIOUS
        <3> HIDE DEF ws, okay, done, refs
        <3> QED BY <2>3, <3>1, <3>2, <3>3 DEF Executed
    <2>8. push'[p].put = "none" /\ push'[p].st = "received"
        BY <2>2, <2>3
    <2> HIDE DEF ws, okay, done, refs
    <2> QED BY <2>4, <2>5, <2>6, <2>7, <2>8 DEF PushInv
<1>4. CASE DeclinePush(p)
    <2> DEFINE refs == Loaded(manifests, push[p].parent).refs
    <2>1. push'[p] = [push[p] EXCEPT !.st = "received", !.ws = refs, !.ok = FALSE, !.told = {}]
        BY <1>0, <1>4 DEF DeclinePush
    <2>2. UNCHANGED repoVars /\ push[p].st = "hydrated" /\ push[p].put = "none"
        BY <1>0, <1>4 DEF DeclinePush, PushFlow
    <2>3. /\ push'[p].st = "received" /\ push'[p].resp = push[p].resp
          /\ push'[p].parent = push[p].parent
          /\ push'[p].ok = FALSE /\ push'[p].put = push[p].put
        <3> HIDE DEF refs
        <3> QED BY <1>0, <2>1 DEF Push
    <2>4. StoreInv' /\ Grow
        BY <1>0, <2>2, IdleStore
    <2>5. PushFlow(p)'
        BY <1>0, <2>2, <2>3 DEF PushFlow
    <2>6. push'[p].parent <= pointer'
        BY <1>0, <2>2, <2>3 DEF PushInv, repoVars
    <2> QED BY <2>2, <2>3, <2>4, <2>5, <2>6 DEF PushInv
<1>5. CASE UploadCompacted(p)
    <2>1. PICK ps \in CompactedPacks(push[p].ws) : Uploaded(p, ps, ps)
        BY <1>5 DEF UploadCompacted
    <2>2. ps \in SUBSET Pack /\ UNION ps = Closure(push[p].ws)
        BY <1>0, CompactedTypes DEF Push
    <2>3. push[p].st = "received" /\ push[p].ok
        BY <1>5 DEF UploadCompacted
    <2> QED BY <2>1, <2>2, <2>3, UploadedKept
<1>6. CASE UploadDelta(p)
    <2> DEFINE parent == Loaded(manifests, push[p].parent)
    <2>1. PICK new \in DeltaPacks(parent.refs, push[p].ws) :
             Uploaded(p, new, parent.packs \cup new)
        BY <1>6 DEF UploadDelta
    <2>2. /\ push[p].ws \in RefMap /\ parent.refs \in RefMap /\ parent.packs \in SUBSET Pack
          /\ parent.packs \subseteq packs /\ Closure(parent.refs) \subseteq UNION parent.packs
        BY <1>0, LoadedTypes, LoadedClosed DEF Push
    <2>3. push[p].st = "received" /\ push[p].ok
        BY <1>6 DEF UploadDelta
    <2> HIDE DEF parent
    <2>4. /\ new \in SUBSET Pack /\ parent.packs \cup new \in SUBSET Pack
          /\ Closure(push[p].ws) \subseteq Closure(parent.refs) \cup UNION new
        BY <2>2, DeltaTypes
    <2>5. /\ Closure(push[p].ws) \subseteq UNION (parent.packs \cup new)
          /\ parent.packs \cup new \subseteq packs \cup new
        BY <2>2, <2>4
    <2> QED BY <2>1, <2>3, <2>4, <2>5, UploadedKept
<1>7. CASE PutManifest(p)
    <2> DEFINE d == DigestOf(manifests, push[p].m)
    <2>1. /\ push'[p] = [push[p] EXCEPT !.st = "cas", !.put = "sent", !.digest = d]
          /\ manifests' = Stored(manifests, push[p].m)
          /\ UNCHANGED <<packs, pointer, chain>> /\ push[p].st = "packed"
        BY <1>0, <1>7 DEF PutManifest
    <2>2. push[p].m \in Manifest /\ Derived(p) /\ push[p].ok /\ Executed(p)
        BY <1>0, <2>1 DEF Push, PushInv, Derived
    <2>3. Storable(push[p].m)
        BY <1>0, <2>2 DEF Storable, Derived
    <2>4. StoreInv' /\ Grow
        BY <1>0, <2>1, <2>3, ManifestStored
    <2>5. d \in 1..Len(manifests') /\ manifests'[d] = push[p].m
        BY <1>0, <2>1, <2>2, StoredFacts
    <2> HIDE DEF d
    <2>6. /\ push'[p].st = "cas" /\ push'[p].resp = push[p].resp
          /\ push'[p].old = push[p].old /\ push'[p].want = push[p].want
          /\ push'[p].parent = push[p].parent /\ push'[p].ws = push[p].ws
          /\ push'[p].ok = push[p].ok /\ push'[p].m = push[p].m
          /\ push'[p].digest = d /\ push'[p].put = "sent"
        BY <1>0, <2>1 DEF Push
    <2>7. PushFlow(p)'
        BY <1>0, <2>1, <2>6 DEF PushFlow
    <2>8. Executed(p)'
        <3>1. Loaded(manifests', push[p].parent) = Loaded(manifests, push[p].parent)
            BY <1>0, <2>4, LoadedKept
        <3> QED BY <2>2, <2>6, <3>1 DEF Executed, Commands
    <2>9. Derived(p)'
        BY <2>1, <2>2, <2>6 DEF Derived
    <2>10. push'[p].parent <= pointer' /\ d # 0
        BY <1>0, <2>1, <2>4, <2>5, <2>6 DEF PushInv, Grow
    <2> QED BY <2>4, <2>5, <2>6, <2>7, <2>8, <2>9, <2>10 DEF PushInv
<1>8. CASE StoreCas(p)
    <2>1. PICK o \in {"won", "lost"} :
             /\ StorePointer(push[p].parent, push[p].digest, o)
             /\ push' = [push EXCEPT ![p].put = o]
        BY <1>8 DEF StoreCas
    <2>2. push[p].put = "sent" /\ UNCHANGED <<packs, manifests>>
        BY <1>8 DEF StoreCas
    <2>3. /\ push[p].digest \in 1..Len(manifests) /\ manifests[push[p].digest] = push[p].m
          /\ Derived(p) /\ push[p].ok /\ Executed(p) /\ push[p].m.parent = push[p].parent
        BY <1>0, <2>2 DEF PushInv, Derived
    <2>4. /\ StoreInv' /\ Grow
          /\ o = "won" => \E i \in DOMAIN chain' : chain'[i] = push[p].digest
          /\ o = "lost" => pointer' = pointer /\ pointer # push[p].parent
        BY <1>0, <2>1, <2>2, <2>3, PointerStored
    <2>5. push'[p] = [push[p] EXCEPT !.put = o]
        BY <1>0, <2>1
    <2>6. /\ push'[p].st = push[p].st /\ push'[p].resp = push[p].resp
          /\ push'[p].old = push[p].old /\ push'[p].want = push[p].want
          /\ push'[p].parent = push[p].parent /\ push'[p].ws = push[p].ws
          /\ push'[p].ok = push[p].ok /\ push'[p].m = push[p].m
          /\ push'[p].digest = push[p].digest /\ push'[p].put = o
        BY <1>0, <2>5 DEF Push
    <2>7. PushFlow(p)'
        BY <1>0, <2>2, <2>6 DEF PushFlow
    <2>8. Executed(p)' /\ Derived(p)'
        BY <2>2, <2>3, <2>6 DEF Executed, Derived, Commands
    <2>9. push'[p].parent <= pointer' /\ (o = "lost" => push[p].parent < pointer')
        BY <1>0, <2>4, <2>6 DEF PushInv, Grow
    <2>10. push[p].digest # 0 /\ manifests'[push[p].digest] = push[p].m
        BY <2>2, <2>3
    <2> QED BY <2>4, <2>6, <2>7, <2>8, <2>9, <2>10 DEF PushInv
<1>9. CASE CasWon(p)
    BY <1>9, CommittedKept DEF CasWon
<1>10. CASE PublishRefState(p)
    <2>1. push[p].put = "won"
        BY <1>0, <1>10 DEF PublishRefState, PushFlow
    <2> QED BY <1>10, <2>1, CommittedKept DEF PublishRefState
<1>11. CASE Respond(p)
    <2>1. push[p].st = "published" => push[p].put = "won"
        BY <1>0 DEF PushFlow
    <2> QED BY <1>11, <2>1, AnsweredKept DEF Respond
<1>12. CASE Reject(p)
    <2>1. push[p].put = "none"
        BY <1>0, <1>12 DEF Reject, PushFlow
    <2> QED BY <1>12, <2>1, AnsweredKept DEF Reject
<1>13. CASE TooLarge(p)
    <2>1. push[p].put = "none"
        BY <1>0, <1>13 DEF TooLarge, PushFlow
    <2> QED BY <1>13, <2>1, AnsweredKept DEF TooLarge
<1>14. CASE CasLost(p)
    BY <1>14, AnsweredKept DEF CasLost
<1>15. CASE BackendError(p)
    BY <1>15, AnsweredKept DEF BackendError
<1>16. CASE LeaseLost(p)
    BY <1>16, AnsweredKept DEF LeaseLost
<1>17. CASE Crash(p)
    BY <1>17, AnsweredKept DEF Crash
<1>18. CASE InvalidManifest(p)
    <2>1. push[p].put = "none"
        BY <1>0, <1>18 DEF InvalidManifest, PushFlow
    <2> QED BY <1>18, <2>1, AnsweredKept DEF InvalidManifest
<1> QED BY <1>1, <1>2, <1>3, <1>4, <1>5, <1>6, <1>7, <1>8, <1>9, <1>10, <1>11,
           <1>12, <1>13, <1>14, <1>15, <1>16, <1>17, <1>18 DEF PushStep

-----------------------------------------------------------------------------
(***************************************************************************)
(* The steps of an announcement.                                           *)
(***************************************************************************)
\* The steps of an announcement.
LEMMA AnnounceStepInv ==
    ASSUME TypeOK, IInv, NEW a \in Announcers, AnnounceStep(a)
    PROVE  StoreInv' /\ Grow /\ AnnInv(a)'
<1>0. /\ ann \in [Announcers -> Ann] /\ ann[a] \in Ann /\ AnnInv(a) /\ StoreInv
      /\ ann[a].digest \in Nat /\ ann[a].digest <= Len(manifests)
      /\ manifests \in Seq(Manifest) /\ Len(manifests) \in Nat /\ pointer \in Nat
    BY DEF TypeOK, IInv, Ann
\* The steps that leave the store, the digest and the conditional write alone.
<1>1. ASSUME NEW t, ann' = [ann EXCEPT ![a] = t], UNCHANGED <<packs, manifests, pointer, chain>>,
             t.digest = ann[a].digest, t.put = ann[a].put,
             t.st \in {"seeded", "accepted"} => pointer # 0
      PROVE  StoreInv' /\ Grow /\ AnnInv(a)'
    <2>1. StoreInv' /\ Grow
        BY <1>0, <1>1, IdleStore DEF repoVars
    <2>2. ann'[a] = t
        BY <1>0, <1>1
    <2> QED BY <1>0, <1>1, <2>1, <2>2, AnnKept
<1>2. ASSUME NEW s, ann' = [ann EXCEPT ![a].st = s], UNCHANGED <<packs, manifests, pointer, chain>>,
             s \in {"seeded", "accepted"} => pointer # 0
      PROVE  StoreInv' /\ Grow /\ AnnInv(a)'
    <2> DEFINE t == [ann[a] EXCEPT !.st = s]
    <2>1. ann' = [ann EXCEPT ![a] = t]
        BY <1>2
    <2>2. t.digest = ann[a].digest /\ t.put = ann[a].put /\ t.st = s
        BY <1>0 DEF Ann
    <2> HIDE DEF t
    <2> QED BY <1>1, <1>2, <2>1, <2>2
<1>U. ASSUME NEW s \in {"ensuring", "seeding", "failed", "failing", "crashed"},
             ann' = [ann EXCEPT ![a].st = s], UNCHANGED <<packs, manifests, pointer, chain>>
      PROVE  StoreInv' /\ Grow /\ AnnInv(a)'
    BY <1>2, <1>U
<1>3. CASE ReserveName(a)
    <2>1. UNCHANGED <<packs, manifests, pointer, chain>>
        BY <1>3 DEF ReserveName, annRest
    <2>2. CASE ann' = [ann EXCEPT ![a].st = "seeding", ![a].fresh = TRUE]
        <3> DEFINE t == [ann[a] EXCEPT !.st = "seeding", !.fresh = TRUE]
        <3>1. ann' = [ann EXCEPT ![a] = t]
            BY <2>2
        <3>2. t.digest = ann[a].digest /\ t.put = ann[a].put /\ t.st = "seeding"
            BY <1>0 DEF Ann
        <3> HIDE DEF t
        <3> QED BY <1>1, <2>1, <3>1, <3>2
    <2>3. CASE \E s \in {"ensuring", "conflict", "failed"} : ann' = [ann EXCEPT ![a].st = s]
        BY <1>2, <2>1, <2>3
    <2> QED BY <1>3, <2>2, <2>3 DEF ReserveName
<1>4. CASE ReadHolder(a)
    BY <1>U, <1>4 DEF ReadHolder, annRest
<1>5. CASE EnsurePointer(a)
    <2>1. CASE pointer # 0
        BY <1>2, <1>5, <2>1 DEF EnsurePointer, annRest
    <2>2. CASE pointer = 0
        BY <1>U, <1>5, <2>2 DEF EnsurePointer, annRest
    <2> QED BY <2>1, <2>2
<1>6. CASE SeedManifest(a)
    <2> DEFINE d == DigestOf(manifests, EmptyManifest)
    <2>1. /\ ann'[a] = [ann[a] EXCEPT !.st = "cas", !.put = "sent", !.digest = d]
          /\ manifests' = Stored(manifests, EmptyManifest)
          /\ UNCHANGED <<packs, pointer, chain>>
        BY <1>0, <1>6 DEF SeedManifest, annRest
    <2>2. Storable(EmptyManifest)
        BY <1>0, FreshTypes DEF Storable
    <2>3. StoreInv' /\ Grow
        BY <1>0, <2>1, <2>2, ManifestStored
    <2>4. d \in 1..Len(manifests') /\ manifests'[d] = EmptyManifest
        BY <1>0, <2>1, FreshTypes, StoredFacts
    <2> HIDE DEF d
    <2>5. ann'[a].st = "cas" /\ ann'[a].put = "sent" /\ ann'[a].digest = d /\ d # 0
        BY <1>0, <2>1, <2>4 DEF Ann
    <2> QED BY <2>3, <2>4, <2>5 DEF AnnInv
<1>7. CASE StoreSeed(a)
    <2>1. PICK o \in {"won", "lost"} :
             /\ StorePointer(0, ann[a].digest, o)
             /\ ann' = [ann EXCEPT ![a].put = o]
        BY <1>7 DEF StoreSeed
    <2>2. ann[a].put = "sent" /\ UNCHANGED <<packs, manifests>>
        BY <1>7 DEF StoreSeed, annRest
    <2>3. ann[a].digest # 0 /\ manifests[ann[a].digest] = EmptyManifest
        BY <1>0, <2>2 DEF AnnInv
    <2>4. ann[a].digest \in 1..Len(manifests) /\ manifests[ann[a].digest].parent = 0
        BY <1>0, <2>3, FreshTypes
    <2>5. /\ StoreInv' /\ Grow
          /\ o = "won" => pointer' = ann[a].digest
          /\ o = "lost" => pointer' = pointer /\ pointer # 0
        BY <1>0, <2>1, <2>2, <2>4, PointerStored
    <2>6. /\ ann'[a].st = ann[a].st /\ ann'[a].put = o /\ ann'[a].digest = ann[a].digest
        BY <1>0, <2>1 DEF Ann
    <2>7. pointer' # 0
        BY <2>1, <2>3, <2>5
    <2> QED BY <2>2, <2>3, <2>5, <2>6, <2>7 DEF AnnInv
<1>8. CASE SeedWon(a)
    <2>1. pointer # 0
        BY <1>0, <1>8 DEF SeedWon, AnnInv
    <2> QED BY <1>2, <1>8, <2>1 DEF SeedWon, annRest
<1>9. CASE SeedLost(a)
    <2>1. pointer # 0
        BY <1>0, <1>9 DEF SeedLost, AnnInv
    <2> QED BY <1>2, <1>9, <2>1 DEF SeedLost, annRest
<1>10. CASE SeedError(a)
    BY <1>U, <1>10 DEF SeedError, annRest
<1>11. CASE ReleaseName(a)
    BY <1>U, <1>11 DEF ReleaseName, annRest
<1>12. CASE EmitInitial(a)
    <2>1. pointer # 0
        BY <1>0, <1>12 DEF EmitInitial, AnnInv
    <2> QED BY <1>2, <1>12, <2>1 DEF EmitInitial, annRest
<1>13. CASE AnnounceCrash(a)
    BY <1>U, <1>13 DEF AnnounceCrash, annRest
<1> QED BY <1>3, <1>4, <1>5, <1>6, <1>7, <1>8, <1>9, <1>10, <1>11, <1>12, <1>13 DEF AnnounceStep

-----------------------------------------------------------------------------
(***************************************************************************)
(* The invariant is inductive.                                             *)
(***************************************************************************)
\* A request's step leaves the other requests alone.
LEMMA PushFrame ==
    ASSUME NEW p \in Pushers, PushStep(p)
    PROVE  /\ ann' = ann /\ reader' = reader
           /\ \E t : push' = [push EXCEPT ![p] = t]
<1>1. ann' = ann /\ reader' = reader
    BY DEF PushStep, Advertise, HydrateForWrite, ReceivePack, DeclinePush, Reject,
           UploadCompacted, UploadDelta, TooLarge, Uploaded, InvalidManifest, PutManifest,
           StoreCas, CasWon, CasLost, BackendError, LeaseLost, PublishRefState, Respond,
           Crash, pushRest
<1>2. \E t : push' = [push EXCEPT ![p] = t]
    BY DEF PushStep, Advertise, HydrateForWrite, ReceivePack, DeclinePush, Reject,
           UploadCompacted, UploadDelta, TooLarge, Uploaded, InvalidManifest, PutManifest,
           StoreCas, CasWon, CasLost, BackendError, LeaseLost, PublishRefState, Respond,
           Crash, Answered
<1> QED BY <1>1, <1>2

\* The same for an announcement.
LEMMA AnnounceFrame ==
    ASSUME NEW a \in Announcers, AnnounceStep(a)
    PROVE  /\ push' = push /\ reader' = reader
           /\ \E t : ann' = [ann EXCEPT ![a] = t]
<1>1. push' = push /\ reader' = reader
    BY DEF AnnounceStep, ReserveName, ReadHolder, EnsurePointer, SeedManifest, StoreSeed,
           SeedWon, SeedLost, SeedError, ReleaseName, EmitInitial, AnnounceCrash, annRest
<1>2. \E t : ann' = [ann EXCEPT ![a] = t]
    BY DEF AnnounceStep, ReserveName, ReadHolder, EnsurePointer, SeedManifest, StoreSeed,
           SeedWon, SeedLost, SeedError, ReleaseName, EmitInitial, AnnounceCrash
<1> QED BY <1>1, <1>2

\* The invariant holds initially.
LEMMA InitInv == Init => IInv
<1> SUFFICES ASSUME Init PROVE IInv
    OBVIOUS
<1>1. DOMAIN <<>> = {}
    OBVIOUS
<1>2. StoreInv
    BY <1>1 DEF Init, StoreInv, Closed, Linear
<1>3. ASSUME NEW p \in Pushers PROVE PushInv(p)
    BY DEF Init, NewPush, PushInv, PushFlow
<1>4. ASSUME NEW a \in Announcers PROVE AnnInv(a)
    BY DEF Init, NewAnn, AnnInv
<1> QED BY <1>2, <1>3, <1>4 DEF IInv

\* The invariant is kept, and nothing stored is lost.
LEMMA StepInv == TypeOK /\ IInv /\ [Next]_vars => IInv' /\ Grow
<1> SUFFICES ASSUME TypeOK, IInv, [Next]_vars PROVE IInv' /\ Grow
    OBVIOUS
<1>0. /\ StoreInv /\ push \in [Pushers -> Push] /\ ann \in [Announcers -> Ann]
      /\ \A p \in Pushers : PushInv(p)
      /\ \A a \in Announcers : AnnInv(a)
    BY DEF TypeOK, IInv
<1>1. ASSUME NEW p \in Pushers, PushStep(p) PROVE IInv' /\ Grow
    <2>1. StoreInv' /\ Grow /\ PushInv(p)'
        BY <1>1, PushStepInv
    <2>2. ann' = ann /\ \A r \in Pushers : r # p => push'[r] = push[r]
        BY <1>0, <1>1, PushFrame
    <2>3. \A r \in Pushers : PushInv(r)'
        BY <1>0, <2>1, <2>2, PushIdle
    <2>4. \A a \in Announcers : AnnInv(a)'
        BY <1>0, <2>1, <2>2, AnnIdle
    <2> QED BY <2>1, <2>3, <2>4 DEF IInv
<1>2. ASSUME NEW a \in Announcers, AnnounceStep(a) PROVE IInv' /\ Grow
    <2>1. StoreInv' /\ Grow /\ AnnInv(a)'
        BY <1>2, AnnounceStepInv
    <2>2. push' = push /\ \A b \in Announcers : b # a => ann'[b] = ann[b]
        BY <1>0, <1>2, AnnounceFrame
    <2>3. \A p \in Pushers : PushInv(p)'
        BY <1>0, <2>1, <2>2, PushIdle
    <2>4. \A b \in Announcers : AnnInv(b)'
        BY <1>0, <2>1, <2>2, AnnIdle
    <2> QED BY <2>1, <2>3, <2>4 DEF IInv
<1>3. ASSUME UNCHANGED <<repoVars, push, ann>> PROVE IInv' /\ Grow
    <2>1. StoreInv' /\ Grow
        BY <1>0, <1>3, IdleStore
    <2>2. \A p \in Pushers : PushInv(p)'
        BY <1>0, <1>3, <2>1, PushIdle
    <2>3. \A a \in Announcers : AnnInv(a)'
        BY <1>0, <1>3, <2>1, AnnIdle
    <2> QED BY <2>1, <2>2, <2>3 DEF IInv
<1>4. ASSUME NEW x \in Readers, ReadStep(x) PROVE IInv' /\ Grow
    BY <1>3, <1>4 DEF ReadStep, InfoRefs, LoadPointer, UploadPack, readRest
<1>5. CASE UNCHANGED vars
    BY <1>3, <1>5 DEF vars
<1> QED BY <1>1, <1>2, <1>4, <1>5 DEF Next

\* The inductive invariant holds in every reachable state.
THEOREM Inductive == Spec => [](TypeOK /\ IInv)
<1>1. Init => TypeOK /\ IInv
    BY InitTypes, InitInv
<1>2. TypeOK /\ IInv /\ [Next]_vars => (TypeOK /\ IInv)'
    BY StepTypes, StepInv
<1> QED BY <1>1, <1>2, PTL DEF Spec

-----------------------------------------------------------------------------
(***************************************************************************)
(* What follows from the invariant alone.                                  *)
(***************************************************************************)
\* Every variable keeps its type, whatever the requests do.
THEOREM TypeCorrect == Spec => []TypeOK
BY Inductive, PTL

\* The packs of every manifest are stored and hold all that its refs reach.
THEOREM ManifestsClosed == Spec => []Closed
<1>1. IInv => Closed
    BY DEF IInv, StoreInv
<1> QED BY <1>1, Inductive, PTL

\* The pointer's history is one line of descent without repetition.
THEOREM HistoryLinear == Spec => []Linear
<1>1. IInv => Linear
    BY DEF IInv, StoreInv
<1> QED BY <1>1, Inductive, PTL

\* A push is told of a conflict only if the pointer has left its parent.
THEOREM ConflictsReal == Spec => []ConflictHasWinner
<1>1. TypeOK /\ IInv => ConflictHasWinner
    <2> SUFFICES ASSUME TypeOK, IInv, NEW p \in Pushers, push[p].resp = "conflict"
                 PROVE  pointer # push[p].parent
        BY DEF ConflictHasWinner
    <2>1. push[p].parent < pointer /\ pointer \in Nat /\ push[p].parent \in Nat
        BY DEF TypeOK, IInv, PushInv, PushFlow
    <2> QED BY <2>1
<1> QED BY <1>1, Inductive, PTL

\* A successful announcement leaves a repository that can be cloned.
THEOREM AnnouncedExists == Spec => []AcceptedHasPointer
<1>1. IInv => AcceptedHasPointer
    BY DEF IInv, AnnInv, AcceptedHasPointer
<1> QED BY <1>1, Inductive, PTL

-----------------------------------------------------------------------------
(***************************************************************************)
(* Clones and ref-state events.                                            *)
(***************************************************************************)
\* The steps of a clone.
LEMMA ReadStepComplete ==
    ASSUME TypeOK, IInv, ReadersComplete, NEW x \in Readers, ReadStep(x)
    PROVE  ReadersComplete'
<1>0. /\ reader \in [Readers -> Reader] /\ reader[x] \in Reader
      /\ reader[x].digest \in 0..Len(manifests) /\ StoreInv
    BY DEF TypeOK, Reader, IInv
<1>1. ASSUME NEW t, reader' = [reader EXCEPT ![x] = t],
             t.st # "broken", t.st = "served" => t.got = Closure(t.want)
      PROVE  ReadersComplete'
    BY <1>0, <1>1 DEF ReadersComplete
<1>2. CASE InfoRefs(x)
    <2> DEFINE t == [reader[x] EXCEPT !.st = "advertised", !.want = Loaded(manifests, pointer).refs]
    <2>1. reader' = [reader EXCEPT ![x] = t]
        BY <1>2 DEF InfoRefs
    <2>2. t.st = "advertised"
        BY <1>0 DEF Reader
    <2> HIDE DEF t
    <2> QED BY <1>1, <2>1, <2>2
<1>3. CASE LoadPointer(x)
    <2> DEFINE t == [reader[x] EXCEPT !.st = "hydrating", !.digest = pointer]
    <2>1. reader' = [reader EXCEPT ![x] = t]
        BY <1>3 DEF LoadPointer
    <2>2. t.st = "hydrating"
        BY <1>0 DEF Reader
    <2> HIDE DEF t
    <2> QED BY <1>1, <2>1, <2>2
<1>4. CASE UploadPack(x)
    <2> DEFINE m == Loaded(manifests, reader[x].digest)
               wanted == Closure(reader[x].want)
               s == IF ~(m.packs \subseteq packs) THEN "broken"
                    ELSE IF wanted \subseteq Closure(m.refs) THEN "served"
                    ELSE "notOurRef"
               o == wanted \cap UNION (m.packs \cap packs)
               t == [reader[x] EXCEPT !.st = s, !.got = o]
    <2>1. reader' = [reader EXCEPT ![x] = t]
        BY <1>4 DEF UploadPack
    <2>2. m.packs \subseteq packs /\ Closure(m.refs) \subseteq UNION m.packs
        BY <1>0, LoadedClosed
    <2>3. s # "broken" /\ (s = "served" => wanted \subseteq Closure(m.refs))
        BY <2>2
    <2>4. wanted \subseteq Closure(m.refs) => o = wanted
        BY <2>2
    <2> HIDE DEF s, o, wanted, m
    <2>5. t.st = s /\ t.got = o /\ t.want = reader[x].want
        BY <1>0 DEF Reader
    <2> HIDE DEF t
    <2>6. t.st = "served" => t.got = Closure(t.want)
        BY <2>3, <2>4, <2>5 DEF wanted
    <2> QED BY <1>1, <2>1, <2>3, <2>5, <2>6
<1> QED BY <1>2, <1>3, <1>4 DEF ReadStep

\* A clone that is served is complete, and none finds a pack missing.
THEOREM ClonesComplete == Spec => []ReadersComplete
<1>1. Init => ReadersComplete
    BY DEF Init, NewReader, ReadersComplete
<1>2. TypeOK /\ IInv /\ ReadersComplete /\ [Next]_vars => ReadersComplete'
    <2> SUFFICES ASSUME TypeOK, IInv, ReadersComplete, [Next]_vars PROVE ReadersComplete'
        OBVIOUS
    <2>1. CASE reader' = reader
        BY <2>1 DEF ReadersComplete
    <2>2. ASSUME NEW x \in Readers, ReadStep(x) PROVE ReadersComplete'
        BY <2>2, ReadStepComplete
    <2> QED BY <2>1, <2>2, PushFrame, AnnounceFrame DEF Next, vars
<1> QED BY <1>1, <1>2, Inductive, PTL DEF Spec

\* An event that has been published stays that of a commit.
LEMMA ShownKept ==
    ASSUME TypeOK, Grow, EventsCommitted, shown' = shown
    PROVE  EventsCommitted'
<1>1. \A i \in DOMAIN chain : /\ i \in DOMAIN chain'
                              /\ manifests'[chain'[i]] = manifests[chain[i]]
    BY DEF TypeOK, Grow
<1> QED BY <1>1 DEF EventsCommitted

\* A push publishes the event of the manifest it has committed.
LEMMA ShownCommitted ==
    ASSUME TypeOK, IInv, EventsCommitted, NEW p \in Pushers, PublishRefState(p), Grow
    PROVE  EventsCommitted'
<1>1. CASE shown' = push[p].m.refs
    <2>1. push[p].put = "won"
        BY DEF PublishRefState, IInv, PushInv, PushFlow
    <2>2. PICK i \in DOMAIN chain : chain[i] = push[p].digest
        BY <2>1 DEF IInv, PushInv
    <2>3. manifests[chain[i]] = push[p].m
        BY <2>1, <2>2 DEF IInv, PushInv
    <2>4. UNCHANGED repoVars
        BY DEF PublishRefState
    <2> QED BY <1>1, <2>3, <2>4 DEF EventsCommitted, repoVars
<1>2. CASE shown' = shown
    BY <1>2, ShownKept
<1> QED BY <1>1, <1>2 DEF PublishRefState

\* A ref-state event shows only refs that were committed.
THEOREM EventsFollowCommits == Spec => []EventsCommitted
<1>1. Init => EventsCommitted
    BY DEF Init, EventsCommitted
<1>2. TypeOK /\ IInv /\ EventsCommitted /\ [Next]_vars => EventsCommitted'
    <2> SUFFICES ASSUME TypeOK, IInv, EventsCommitted, [Next]_vars PROVE EventsCommitted'
        OBVIOUS
    <2>0. Grow
        BY StepInv
    <2>1. CASE shown' = shown
        BY <2>0, <2>1, ShownKept
    <2>2. ASSUME NEW p \in Pushers, PushStep(p) PROVE shown' = shown \/ PublishRefState(p)
        BY <2>2 DEF PushStep, Advertise, HydrateForWrite, ReceivePack, DeclinePush, Reject,
                UploadCompacted, UploadDelta, TooLarge, Uploaded, InvalidManifest, PutManifest,
                StoreCas, CasWon, CasLost, BackendError, LeaseLost, Respond, Crash
    <2>3. ASSUME NEW p \in Pushers, PublishRefState(p) PROVE EventsCommitted'
        BY <2>0, <2>3, ShownCommitted
    <2>4. ASSUME NEW a \in Announcers, AnnounceStep(a) PROVE shown' = shown \/ shown' = NoRefs
        BY <2>4 DEF AnnounceStep, ReserveName, ReadHolder, EnsurePointer, SeedManifest, StoreSeed,
                SeedWon, SeedLost, SeedError, ReleaseName, EmitInitial, AnnounceCrash
    <2>5. CASE shown' = NoRefs
        BY <2>5 DEF EventsCommitted
    <2>6. ASSUME NEW x \in Readers, ReadStep(x) PROVE shown' = shown
        BY <2>6 DEF ReadStep, InfoRefs, LoadPointer, UploadPack, readRest
    <2> QED BY <2>1, <2>2, <2>3, <2>4, <2>5, <2>6 DEF Next, vars
<1> QED BY <1>1, <1>2, Inductive, PTL DEF Spec

-----------------------------------------------------------------------------
(***************************************************************************)
(* Manifests that hydration accepts.                                       *)
(***************************************************************************)
Sound(m) ==
    /\ Cardinality(m.packs) <= MaxPacks
    /\ (\E b \in Branches : m.refs[b] # None) => m.head \in Branches /\ m.refs[m.head] # None

\* m_after is sound as soon as it is composed.
SoundInv ==
    /\ \A d \in DOMAIN manifests : Sound(manifests[d])
    /\ \A p \in Pushers : push[p].st = "packed" => Sound(push[p].m)

\* Pack lists are finite, since there are finitely many objects.
LEMMA PacksFinite ==
    ASSUME NEW S \in SUBSET Pack
    PROVE  IsFiniteSet(S) /\ Cardinality(S) \in Nat
<1>1. IsFiniteSet(SUBSET Commits)
    BY GitAssumption, FS_SUBSET
<1>2. IsFiniteSet(S)
    BY <1>1, FS_Subset DEF Pack
<1> QED BY <1>2, FS_CardinalityType

\* The seeded manifest is sound.
LEMMA EmptySound == Sound(EmptyManifest)
<1>1. \A b \in Branches : EmptyManifest.refs[b] = None
    BY FreshTypes, GitAssumption DEF NoRefs
<1>2. Cardinality(EmptyManifest.packs) = 0
    BY FreshTypes, FS_EmptySet
<1> QED BY <1>1, <1>2, GitAssumption DEF Sound

\* A parent's pack list is within the bound.
LEMMA ParentCap ==
    ASSUME TypeOK, SoundInv, NEW d \in 0..Len(manifests)
    PROVE  Cardinality(Loaded(manifests, d).packs) \in 0..MaxPacks
<1>0. Loaded(manifests, d).packs \in SUBSET Pack /\ manifests \in Seq(Manifest)
    BY LoadedTypes DEF TypeOK
<1>1. Cardinality(Loaded(manifests, d).packs) \in Nat /\ MaxPacks \in Nat
    BY <1>0, PacksFinite, GitAssumption
<1>2. CASE d = 0
    BY <1>2, <1>1, FS_EmptySet, GitAssumption DEF Loaded, FreshParent
<1>3. CASE d # 0
    BY <1>0, <1>1, <1>3 DEF Loaded, SoundInv, Sound
<1> QED BY <1>2, <1>3

\* A pack list within the bound gives a sound m_after.
LEMMA UploadedSound ==
    ASSUME TypeOK, SoundInv, NEW p \in Pushers, NEW new, NEW keys \in SUBSET Pack,
           Uploaded(p, new, keys), Cardinality(keys) <= MaxPacks
    PROVE  SoundInv'
<1> DEFINE m == Compose(Loaded(manifests, push[p].parent), push[p].parent, push[p].ws, keys)
<1>0. /\ push \in [Pushers -> Push] /\ push[p] \in Push /\ push[p].ws \in RefMap
      /\ manifests \in Seq(Manifest) /\ push[p].parent \in 0..Len(manifests)
    BY DEF TypeOK, Push
<1>1. /\ m.refs = push[p].ws /\ m.packs = keys
      /\ (\E b \in Branches : m.refs[b] # None) => m.head \in Branches /\ m.refs[m.head] # None
    BY <1>0, ComposedTypes
<1>2. Sound(m)
    BY <1>1 DEF Sound
<1>3. push' = [push EXCEPT ![p].st = "packed", ![p].m = m] /\ manifests' = manifests
    BY DEF Uploaded
<1> HIDE DEF m
<1>4. push'[p].m = m /\ \A r \in Pushers : r # p => push'[r] = push[r]
    BY <1>0, <1>3 DEF Push
<1> QED BY <1>2, <1>3, <1>4 DEF SoundInv

\* Storing a sound manifest.
LEMMA StoredSound ==
    ASSUME TypeOK, SoundInv, NEW m \in Manifest, Sound(m), manifests' = Stored(manifests, m)
    PROVE  \A d \in DOMAIN manifests' : Sound(manifests'[d])
<1>1. /\ manifests' \in Seq(Manifest)
      /\ \A d \in 1..Len(manifests) : manifests'[d] = manifests[d]
      /\ \A d \in 1..Len(manifests') : d \in 1..Len(manifests) \/ manifests'[d] = m
    BY ZenonT(60), StoredFacts DEF TypeOK
<1>2. DOMAIN manifests' = 1..Len(manifests') /\ DOMAIN manifests = 1..Len(manifests)
    BY <1>1 DEF TypeOK
<1> QED BY <1>1, <1>2 DEF SoundInv

\* The steps of a push.  Compaction never yields more packs than the bound
\* and a delta is added only below it.
LEMMA PushStepSound ==
    ASSUME TypeOK, SoundInv, NEW p \in Pushers, PushStep(p)
    PROVE  SoundInv'
<1>0. /\ push \in [Pushers -> Push] /\ push[p] \in Push /\ push[p].ws \in RefMap
      /\ manifests \in Seq(Manifest) /\ push[p].parent \in 0..Len(manifests)
      /\ MaxPacks \in Nat
    BY GitAssumption DEF TypeOK, Push
<1> DEFINE parent == Loaded(manifests, push[p].parent)
<1>1. /\ Cardinality(parent.packs) \in 0..MaxPacks
      /\ parent.packs \in SUBSET Pack /\ parent.refs \in RefMap
    BY <1>0, LoadedTypes, ParentCap
<1>2. CASE UploadCompacted(p)
    <2>1. PICK ps \in CompactedPacks(push[p].ws) :
             /\ CompactedPackSetIsUsable(Cardinality(parent.packs), Cardinality(ps))
             /\ Uploaded(p, ps, ps)
        BY <1>2 DEF UploadCompacted
    <2>2. ps \in SUBSET Pack /\ Cardinality(ps) \in Nat
        BY <1>0, CompactedTypes, PacksFinite
    <2> HIDE DEF parent
    <2>3. Cardinality(ps) <= MaxPacks
        BY <1>0, <1>1, <2>1, <2>2 DEF CompactedPackSetIsUsable
    <2> QED BY <2>1, <2>2, <2>3, UploadedSound
<1>3. CASE UploadDelta(p)
    <2>1. PICK new \in DeltaPacks(parent.refs, push[p].ws) :
             /\ new # {} => Cardinality(parent.packs) < MaxPacks
             /\ Uploaded(p, new, parent.packs \cup new)
        BY <1>3 DEF UploadDelta
    <2> HIDE DEF parent
    <2>2. new \in SUBSET Pack /\ (new # {} => \E x \in Pack : new = {x})
        BY <1>0, <1>1, DeltaTypes
    <2>3. Cardinality(parent.packs \cup new) <= MaxPacks
        <3>1. CASE new = {}
            <4>1. parent.packs \cup new = parent.packs
                BY <3>1
            <4>2. Cardinality(parent.packs) <= MaxPacks
                BY <1>0, <1>1
            <4> QED BY <4>1, <4>2
        <3>2. CASE new # {}
            <4>1. PICK x \in Pack : new = {x}
                BY <2>2, <3>2
            <4>2. IsFiniteSet(parent.packs)
                BY <1>1, PacksFinite
            <4>3. Cardinality(parent.packs \cup {x}) =
                     IF x \in parent.packs THEN Cardinality(parent.packs)
                     ELSE Cardinality(parent.packs) + 1
                BY <4>2, FS_AddElement
            <4>4. Cardinality(parent.packs) \in Nat /\ Cardinality(parent.packs) < MaxPacks
                BY <1>1, <2>1, <3>2
            <4>5. Cardinality(parent.packs \cup {x}) <= MaxPacks
                BY <1>0, <4>3, <4>4
            <4> QED BY <4>1, <4>5
        <3> QED BY <3>1, <3>2
    <2>4. parent.packs \cup new \in SUBSET Pack
        BY <1>1, <2>2
    <2> QED BY <2>1, <2>3, <2>4, UploadedSound
<1>4. CASE PutManifest(p)
    <2>1. /\ manifests' = Stored(manifests, push[p].m) /\ Sound(push[p].m)
          /\ push[p].m \in Manifest
        BY <1>0, <1>4 DEF PutManifest, SoundInv, Push
    <2>2. push'[p].st = "cas" /\ \A r \in Pushers : r # p => push'[r] = push[r]
        BY <1>0, <1>4 DEF PutManifest, Push
    <2> QED BY <2>1, <2>2, StoredSound DEF SoundInv
<1>5. CASE ~UploadCompacted(p) /\ ~UploadDelta(p) /\ ~PutManifest(p)
    <2>1. manifests' = manifests
        BY <1>5 DEF PushStep, Advertise, HydrateForWrite, ReceivePack, DeclinePush, Reject,
                TooLarge, InvalidManifest, StoreCas, CasWon, CasLost, BackendError, LeaseLost,
                PublishRefState, Respond, Crash, repoVars
    <2>2. push'[p].st = "packed" => push[p].st = "packed" /\ push'[p].m = push[p].m
        <3>1. ASSUME NEW a, Answered(p, a) PROVE push'[p].st = "done"
            BY <1>0, <3>1 DEF Answered, Push
        <3>2. ASSUME NEW s, push' = [push EXCEPT ![p].st = s] PROVE push'[p].st = s
            BY <1>0, <3>2 DEF Push
        <3>3. CASE Advertise(p)
            BY <1>0, <3>3 DEF Advertise, Push
        <3>4. CASE HydrateForWrite(p)
            BY <1>0, <3>1, <3>4 DEF HydrateForWrite, Push
        <3>5. CASE ReceivePack(p)
            BY <1>0, <3>5 DEF ReceivePack, Push
        <3>6. CASE DeclinePush(p)
            BY <1>0, <3>6 DEF DeclinePush, Push
        <3>7. CASE StoreCas(p)
            BY <1>0, <3>7 DEF StoreCas, Push
        <3>8. CASE CasWon(p) \/ PublishRefState(p)
            BY <3>2, <3>8 DEF CasWon, PublishRefState
        <3>9. CASE \/ Reject(p) \/ TooLarge(p) \/ InvalidManifest(p) \/ CasLost(p)
                   \/ BackendError(p) \/ LeaseLost(p) \/ Respond(p) \/ Crash(p)
            BY <3>1, <3>9 DEF Reject, TooLarge, InvalidManifest, CasLost, BackendError,
                   LeaseLost, Respond, Crash
        <3> QED BY <1>5, <3>3, <3>4, <3>5, <3>6, <3>7, <3>8, <3>9 DEF PushStep
    <2>3. \A r \in Pushers : r # p => push'[r] = push[r]
        BY <1>0, PushFrame
    <2> QED BY <2>1, <2>2, <2>3 DEF SoundInv
<1> QED BY <1>2, <1>3, <1>4, <1>5

\* SoundInv holds in every reachable state.
LEMMA SoundInductive == Spec => []SoundInv
<1>1. Init => SoundInv
    BY DEF Init, NewPush, SoundInv
<1>2. TypeOK /\ SoundInv /\ [Next]_vars => SoundInv'
    <2> SUFFICES ASSUME TypeOK, SoundInv, [Next]_vars PROVE SoundInv'
        OBVIOUS
    <2>1. ASSUME NEW p \in Pushers, PushStep(p) PROVE SoundInv'
        BY <2>1, PushStepSound
    <2>2. CASE manifests' = manifests /\ push' = push
        BY <2>2 DEF SoundInv
    <2>3. ASSUME NEW a \in Announcers, AnnounceStep(a) PROVE SoundInv'
        <3>1. push' = push
            BY <2>3, AnnounceFrame
        <3>2. manifests' = manifests \/ manifests' = Stored(manifests, EmptyManifest)
            BY <2>3 DEF AnnounceStep, ReserveName, ReadHolder, EnsurePointer, SeedManifest,
                    StoreSeed, SeedWon, SeedLost, SeedError, ReleaseName, EmitInitial, AnnounceCrash
        <3>3. CASE manifests' = Stored(manifests, EmptyManifest)
            BY <3>1, <3>3, FreshTypes, EmptySound, StoredSound DEF SoundInv
        <3> QED BY <2>2, <3>1, <3>2, <3>3
    <2>4. ASSUME NEW x \in Readers, ReadStep(x) PROVE SoundInv'
        BY <2>2, <2>4 DEF ReadStep, InfoRefs, LoadPointer, UploadPack, readRest, repoVars
    <2>5. CASE UNCHANGED vars
        BY <2>2, <2>5 DEF vars, repoVars
    <2> QED BY <2>1, <2>3, <2>4, <2>5 DEF Next
<1> QED BY <1>1, <1>2, Inductive, PTL DEF Spec

\* No stored manifest exceeds the bound on its pack list.
THEOREM PackListsBounded == Spec => []PackCap
<1>1. SoundInv => PackCap
    BY DEF SoundInv, Sound, PackCap
<1> QED BY <1>1, SoundInductive, PTL

\* HEAD of a stored manifest is a branch it publishes, if there is one.
THEOREM HeadsPublished == Spec => []HeadPublished
<1>1. SoundInv => HeadPublished
    BY DEF SoundInv, Sound, HeadPublished
<1> QED BY <1>1, SoundInductive, PTL

-----------------------------------------------------------------------------
(***************************************************************************)
(* GitPublish implements RefStore: what clients see is a repository whose  *)
(* refs change by whole pushes, one at a time.                             *)
(*                                                                         *)
(* A push is asked for by Advertise, applied by the conditional write that *)
(* wins and answered by the step that ends the request; every other step   *)
(* is a stutter.  The conditional write applies exactly the push's         *)
(* commands because the pointer is still the parent they were executed on  *)
(* (Executed), and it may do so after the request has ended, but only if   *)
(* its client was given no clear answer (PushFlow).                        *)
(***************************************************************************)

absRefs == Loaded(manifests, pointer).refs
absOld == [p \in Pushers |-> push[p].old]
absWant == [p \in Pushers |-> push[p].want]
absPhase == [p \in Pushers |-> Phase(p)]
absApplied == [p \in Pushers |-> push[p].put = "won"]

\* The initial state is one of RefStore.
LEMMA AbsInit == Init => RS!Init
<1> SUFFICES ASSUME Init PROVE RS!Init
    OBVIOUS
<1>1. absRefs = NoRefs
    BY DEF Init, absRefs, Loaded, FreshParent
<1>2. \A p \in Pushers : /\ push[p].old = NoRefs /\ push[p].want = NoRefs
                         /\ Phase(p) = "idle" /\ push[p].put # "won"
    BY DEF Init, NewPush, Phase
<1> QED BY <1>1, <1>2 DEF RS!Init, absRefs, NoRefs

\* A step that no client sees.
LEMMA Hidden ==
    ASSUME absRefs' = absRefs,
           \A p \in Pushers : /\ push'[p].old = push[p].old /\ push'[p].want = push[p].want
                              /\ Phase(p)' = Phase(p)
                              /\ push'[p].put = "won" <=> push[p].put = "won"
    PROVE  UNCHANGED RS!vars
<1>1. absOld' = absOld /\ absWant' = absWant
    BY DEF absOld, absWant
<1>2. absPhase' = absPhase
    BY DEF absPhase
<1>3. absApplied' = absApplied
    BY DEF absApplied
<1> QED BY <1>1, <1>2, <1>3 DEF RS!vars, absRefs, absOld, absWant, absPhase, absApplied

\* The refs change only with the pointer.
LEMMA RefsKept ==
    ASSUME TypeOK, Grow, pointer' = pointer
    PROVE  absRefs' = absRefs
BY LoadedKept DEF TypeOK, absRefs

\* A step of a push that changes its record in ways its client does not see.
LEMMA HiddenPush ==
    ASSUME TypeOK, Grow, pointer' = pointer, NEW p \in Pushers, NEW t,
           push' = [push EXCEPT ![p] = t],
           t.old = push[p].old, t.want = push[p].want, t.resp = push[p].resp,
           t.st = "idle" <=> push[p].st = "idle",
           t.put = "won" <=> push[p].put = "won"
    PROVE  UNCHANGED RS!vars
<1>1. push'[p] = t /\ \A r \in Pushers : r # p => push'[r] = push[r]
    BY DEF TypeOK
<1>2. ASSUME NEW r \in Pushers
      PROVE  /\ push'[r].old = push[r].old /\ push'[r].want = push[r].want
             /\ Phase(r)' = Phase(r)
             /\ push'[r].put = "won" <=> push[r].put = "won"
    BY <1>1 DEF Phase
<1> QED BY <1>2, RefsKept, Hidden

\* The advertisement shows the refs and starts a push.
LEMMA AdvertiseAsks ==
    ASSUME TypeOK, IInv, NEW p \in Pushers, Advertise(p), Grow
    PROVE  RS!Ask(p)
<1>0. /\ push \in [Pushers -> Push] /\ push[p] \in Push /\ PushFlow(p)
      /\ push[p].st = "idle" /\ pointer' = pointer
    BY DEF TypeOK, IInv, PushInv, Advertise, repoVars
<1>1. PICK w \in RefMap :
         push' = [push EXCEPT ![p].st = "asked", ![p].want = w, ![p].old = absRefs]
    BY DEF Advertise, absRefs
<1>2. push'[p] = [push[p] EXCEPT !.st = "asked", !.want = w, !.old = absRefs]
    BY <1>0, <1>1
<1>3. /\ push'[p].st = "asked" /\ push'[p].want = w /\ push'[p].old = absRefs
      /\ push'[p].resp = push[p].resp /\ push'[p].put = push[p].put
    BY <1>0, <1>2 DEF Push
<1>4. \A r \in Pushers : r # p => push'[r] = push[r]
    BY <1>0, <1>1
<1>5. Phase(p) = "idle" /\ Phase(p)' = "open"
    BY <1>0, <1>3 DEF Phase, PushFlow
<1>6. \A r \in Pushers : r # p => Phase(r)' = Phase(r)
    BY <1>4 DEF Phase
<1>7. absRefs' = absRefs
    BY <1>0, RefsKept
<1>8. absOld' = [absOld EXCEPT ![p] = absRefs]
    BY <1>3, <1>4 DEF absOld
<1>9. absWant' = [absWant EXCEPT ![p] = w]
    BY <1>3, <1>4 DEF absWant
<1>10. absPhase' = [absPhase EXCEPT ![p] = "open"] /\ absPhase[p] = "idle"
    BY <1>5, <1>6 DEF absPhase
<1>11. absApplied' = absApplied
    BY <1>3, <1>4 DEF absApplied
<1>12. w \in RS!RefMap
    BY DEF RefMap, RS!RefMap
<1> QED BY <1>7, <1>8, <1>9, <1>10, <1>11, <1>12
        DEF RS!Ask, absRefs, absOld, absWant, absPhase, absApplied

\* The answer is one that RefStore allows.
LEMMA AnsweredAnswers ==
    ASSUME TypeOK, IInv, NEW p \in Pushers, NEW a, Answered(p, a), Grow, pointer' = pointer,
           a # "none", push[p].st \notin {"idle", "done"},
           a = "ok" => push[p].put = "won",
           a \in {"rejected", "tooLarge", "invalid", "conflict"} => push[p].put # "won"
    PROVE  RS!Answer(p)
<1>0. push \in [Pushers -> Push] /\ push[p] \in Push /\ PushFlow(p)
    BY DEF TypeOK, IInv, PushInv
<1> DEFINE b == IF a = "ok" THEN "ok"
                ELSE IF a \in {"rejected", "conflict", "tooLarge", "invalid"} THEN "refused"
                ELSE "unknown"
<1>1. push'[p] = [push[p] EXCEPT !.st = "done", !.resp = a]
    BY <1>0 DEF Answered
<1>2. /\ push'[p].st = "done" /\ push'[p].resp = a /\ push'[p].put = push[p].put
      /\ push'[p].old = push[p].old /\ push'[p].want = push[p].want
    BY <1>0, <1>1 DEF Push
<1>3. \A r \in Pushers : r # p => push'[r] = push[r]
    BY <1>0 DEF Answered
<1>4. Phase(p) = "open" /\ Phase(p)' = b
    BY <1>0, <1>2 DEF Phase, PushFlow
<1>5. \A r \in Pushers : r # p => Phase(r)' = Phase(r)
    BY <1>3 DEF Phase
<1>6. absRefs' = absRefs
    BY RefsKept
<1>7. absOld' = absOld /\ absWant' = absWant
    BY <1>2, <1>3 DEF absOld, absWant
<1>8. absApplied' = absApplied /\ absApplied[p] = (push[p].put = "won")
    BY <1>2, <1>3 DEF absApplied
<1>9. b \in {"ok", "refused", "unknown"}
    OBVIOUS
<1>10. (b = "ok" => absApplied[p]) /\ (b = "refused" => ~absApplied[p])
    BY <1>8
<1> HIDE DEF b
<1>11. absPhase' = [absPhase EXCEPT ![p] = b] /\ absPhase[p] = "open"
    BY <1>4, <1>5 DEF absPhase
<1> QED BY <1>6, <1>7, <1>8, <1>9, <1>10, <1>11
        DEF RS!Answer, absRefs, absOld, absWant, absPhase, absApplied

\* The conditional write applies the push, or is not seen.
LEMMA StoreCasApplies ==
    ASSUME TypeOK, IInv, NEW p \in Pushers, StoreCas(p), Grow
    PROVE  RS!Apply(p) \/ UNCHANGED RS!vars
<1>0. /\ push \in [Pushers -> Push] /\ push[p] \in Push /\ PushFlow(p) /\ PushInv(p)
      /\ push[p].put = "sent" /\ manifests' = manifests
    BY DEF TypeOK, IInv, PushInv, StoreCas
<1>1. PICK o \in {"won", "lost"} :
         /\ StorePointer(push[p].parent, push[p].digest, o)
         /\ push' = [push EXCEPT ![p].put = o]
    BY DEF StoreCas
<1> DEFINE t == [push[p] EXCEPT !.put = o]
<1>2. push' = [push EXCEPT ![p] = t]
    BY <1>0, <1>1
<1>3. /\ t.st = push[p].st /\ t.resp = push[p].resp /\ t.put = o
      /\ t.old = push[p].old /\ t.want = push[p].want
    BY <1>0 DEF Push
<1> HIDE DEF t
<1>4. CASE o = "lost"
    <2>1. pointer' = pointer
        BY <1>1, <1>4 DEF StorePointer
    <2> QED BY <1>0, <1>2, <1>3, <1>4, <2>1, HiddenPush
<1>5. CASE o = "won"
    <2>1. pointer = push[p].parent /\ pointer' = push[p].digest
        BY <1>1, <1>5 DEF StorePointer
    <2>2. /\ push[p].digest # 0 /\ manifests[push[p].digest] = push[p].m
          /\ push[p].m.refs = push[p].ws /\ Executed(p)
        BY <1>0 DEF PushInv, Derived
    <2>3. absRefs' = push[p].ws
        BY <1>0, <2>1, <2>2 DEF absRefs, Loaded
    <2>4. /\ \A r \in Commands(p) : absRefs[r] = push[p].old[r]
          /\ push[p].ws = [r \in Refs |-> IF r \in Commands(p) THEN push[p].want[r] ELSE absRefs[r]]
        BY <2>1, <2>2 DEF Executed, absRefs
    <2>5. push'[p] = t /\ \A r \in Pushers : r # p => push'[r] = push[r]
        BY <1>0, <1>2
    <2>6. \A r \in Pushers : Phase(r)' = Phase(r)
        BY <1>3, <2>5 DEF Phase
    <2>7. Phase(p) \in {"open", "unknown"}
        BY <1>0 DEF Phase, PushFlow
    <2>8. absOld' = absOld /\ absWant' = absWant
        BY <1>3, <2>5 DEF absOld, absWant
    <2>9. absPhase' = absPhase /\ absPhase[p] \in {"open", "unknown"}
        BY <2>6, <2>7 DEF absPhase
    <2>10. absApplied' = [absApplied EXCEPT ![p] = TRUE] /\ ~absApplied[p]
        BY <1>0, <1>3, <1>5, <2>5 DEF absApplied
    <2>11. {r \in Refs : absWant[p][r] # absOld[p][r]} = Commands(p)
        BY DEF absWant, absOld, Commands
    <2>12. absWant[p] = push[p].want /\ absOld[p] = push[p].old
        BY DEF absWant, absOld
    <2>13. /\ \A r \in Commands(p) : absRefs[r] = absOld[p][r]
           /\ absRefs' = [r \in Refs |-> IF r \in Commands(p) THEN absWant[p][r] ELSE absRefs[r]]
        BY <2>3, <2>4, <2>12
    <2>14. RS!Touched(p) = Commands(p)
        BY <2>11 DEF RS!Touched, absWant, absOld
    <2> QED BY <2>8, <2>9, <2>10, <2>13, <2>14
            DEF RS!Apply, absRefs, absOld, absWant, absPhase, absApplied
<1> QED BY <1>4, <1>5

\* The steps of a push.
LEMMA PushStepRefines ==
    ASSUME TypeOK, IInv, NEW p \in Pushers, PushStep(p), Grow
    PROVE  RS!Next \/ UNCHANGED RS!vars
<1>0. push \in [Pushers -> Push] /\ push[p] \in Push /\ PushFlow(p)
    BY DEF TypeOK, IInv, PushInv
<1>1. CASE Advertise(p)
    BY <1>1, AdvertiseAsks DEF RS!Next
<1>2. CASE StoreCas(p)
    BY <1>2, StoreCasApplies DEF RS!Next
<1>3. CASE HydrateForWrite(p)
    <2>1. pointer' = pointer /\ push[p].st = "asked"
        BY <1>3 DEF HydrateForWrite, repoVars
    <2>2. CASE Answered(p, "error")
        BY <2>1, <2>2, AnsweredAnswers DEF RS!Next
    <2>3. CASE push' = [push EXCEPT ![p].st = "hydrated", ![p].parent = pointer]
        <3> DEFINE t == [push[p] EXCEPT !.st = "hydrated", !.parent = pointer]
        <3>1. push' = [push EXCEPT ![p] = t]
            BY <2>3
        <3>2. /\ t.st = "hydrated" /\ t.resp = push[p].resp /\ t.put = push[p].put
              /\ t.old = push[p].old /\ t.want = push[p].want
            BY <1>0 DEF Push
        <3> HIDE DEF t
        <3> QED BY <2>1, <3>1, <3>2, HiddenPush
    <2> QED BY <1>3, <2>2, <2>3 DEF HydrateForWrite
<1>4. CASE ReceivePack(p)
    <2> DEFINE refs == Loaded(manifests, push[p].parent).refs
               done == {r \in Commands(p) : refs[r] = push[p].old[r]}
               ws == [r \in Refs |-> IF r \in done THEN push[p].want[r] ELSE refs[r]]
               okay == (done = Commands(p))
               t == [push[p] EXCEPT !.st = "received", !.ws = ws, !.ok = okay, !.told = done]
    <2>1. pointer' = pointer /\ push[p].st = "hydrated" /\ push' = [push EXCEPT ![p] = t]
        BY <1>4 DEF ReceivePack, repoVars
    <2> HIDE DEF ws, okay, done
    <2>2. /\ t.st = "received" /\ t.resp = push[p].resp /\ t.put = push[p].put
          /\ t.old = push[p].old /\ t.want = push[p].want
        BY <1>0 DEF Push
    <2> HIDE DEF t
    <2> QED BY <2>1, <2>2, HiddenPush
<1>5. CASE DeclinePush(p)
    <2> DEFINE refs == Loaded(manifests, push[p].parent).refs
               t == [push[p] EXCEPT !.st = "received", !.ws = refs, !.ok = FALSE, !.told = {}]
    <2>1. pointer' = pointer /\ push[p].st = "hydrated" /\ push' = [push EXCEPT ![p] = t]
        BY <1>5 DEF DeclinePush, repoVars
    <2> HIDE DEF refs
    <2>2. /\ t.st = "received" /\ t.resp = push[p].resp /\ t.put = push[p].put
          /\ t.old = push[p].old /\ t.want = push[p].want
        BY <1>0 DEF Push
    <2> HIDE DEF t
    <2> QED BY <2>1, <2>2, HiddenPush
<1>6. ASSUME NEW new, NEW keys, Uploaded(p, new, keys), push[p].st = "received"
      PROVE  UNCHANGED RS!vars
    <2> DEFINE m == Compose(Loaded(manifests, push[p].parent), push[p].parent, push[p].ws, keys)
               t == [push[p] EXCEPT !.st = "packed", !.m = m]
    <2>1. pointer' = pointer /\ push' = [push EXCEPT ![p] = t]
        BY <1>6 DEF Uploaded
    <2> HIDE DEF m
    <2>2. /\ t.st = "packed" /\ t.resp = push[p].resp /\ t.put = push[p].put
          /\ t.old = push[p].old /\ t.want = push[p].want
        BY <1>0 DEF Push
    <2> HIDE DEF t
    <2> QED BY <1>6, <2>1, <2>2, HiddenPush
<1>7. CASE UploadCompacted(p) \/ UploadDelta(p)
    BY <1>6, <1>7 DEF UploadCompacted, UploadDelta
<1>8. CASE PutManifest(p)
    <2> DEFINE d == DigestOf(manifests, push[p].m)
               t == [push[p] EXCEPT !.st = "cas", !.put = "sent", !.digest = d]
    <2>1. /\ pointer' = pointer /\ push' = [push EXCEPT ![p] = t]
          /\ push[p].st = "packed" /\ push[p].put = "none"
        BY <1>0, <1>8 DEF PutManifest, PushFlow
    <2> HIDE DEF d
    <2>2. /\ t.st = "cas" /\ t.resp = push[p].resp /\ t.put = "sent"
          /\ t.old = push[p].old /\ t.want = push[p].want
        BY <1>0 DEF Push
    <2> HIDE DEF t
    <2> QED BY <2>1, <2>2, HiddenPush
<1>9. ASSUME NEW s \in {"won", "published", "unpublished"}, push' = [push EXCEPT ![p].st = s],
             pointer' = pointer, push[p].st # "idle"
      PROVE  UNCHANGED RS!vars
    <2> DEFINE t == [push[p] EXCEPT !.st = s]
    <2>1. push' = [push EXCEPT ![p] = t]
        BY <1>9
    <2>2. /\ t.st = s /\ t.resp = push[p].resp /\ t.put = push[p].put
          /\ t.old = push[p].old /\ t.want = push[p].want
        BY <1>0 DEF Push
    <2> HIDE DEF t
    <2> QED BY ZenonT(60), <1>9, <2>1, <2>2, HiddenPush
<1>10. CASE CasWon(p) \/ PublishRefState(p)
    BY <1>9, <1>10 DEF CasWon, PublishRefState, repoVars
<1>11. CASE Reject(p)
    <2>1. push[p].put = "none" /\ push[p].st = "received" /\ pointer' = pointer
        BY <1>0, <1>11 DEF Reject, PushFlow, repoVars
    <2> QED BY <1>11, <2>1, AnsweredAnswers DEF Reject, RS!Next
<1>12. CASE TooLarge(p)
    <2>1. push[p].put = "none" /\ push[p].st = "received" /\ pointer' = pointer
        BY <1>0, <1>12 DEF TooLarge, PushFlow, repoVars
    <2> QED BY <1>12, <2>1, AnsweredAnswers DEF TooLarge, RS!Next
<1>13. CASE CasLost(p)
    <2>1. push[p].put = "lost" /\ push[p].st = "cas" /\ pointer' = pointer
        BY <1>13 DEF CasLost, repoVars
    <2> QED BY <1>13, <2>1, AnsweredAnswers DEF CasLost, RS!Next
<1>14. CASE Respond(p)
    <2>1. /\ push[p].put = "won" /\ pointer' = pointer
          /\ push[p].st \notin {"idle", "done"}
        BY <1>0, <1>14 DEF Respond, PushFlow, repoVars
    <2> QED BY <1>14, <2>1, AnsweredAnswers DEF Respond, RS!Next
<1>15. CASE BackendError(p)
    <2>1. pointer' = pointer /\ push[p].st \notin {"idle", "done"}
        BY <1>15 DEF BackendError, repoVars
    <2> QED BY <1>15, <2>1, AnsweredAnswers DEF BackendError, RS!Next
<1>16. CASE LeaseLost(p)
    <2>1. pointer' = pointer /\ push[p].st \notin {"idle", "done"}
        BY <1>16 DEF LeaseLost, repoVars
    <2> QED BY <1>16, <2>1, AnsweredAnswers DEF LeaseLost, RS!Next
<1>17. CASE Crash(p)
    <2>1. pointer' = pointer /\ push[p].st \notin {"idle", "done"}
        BY <1>17 DEF Crash, repoVars
    <2> QED BY <1>17, <2>1, AnsweredAnswers DEF Crash, RS!Next
<1>18. CASE InvalidManifest(p)
    <2>1. push[p].put = "none" /\ push[p].st = "packed" /\ pointer' = pointer
        BY <1>0, <1>18 DEF InvalidManifest, PushFlow, repoVars
    <2> QED BY <1>18, <2>1, AnsweredAnswers DEF InvalidManifest, RS!Next
<1> QED BY <1>1, <1>2, <1>3, <1>4, <1>5, <1>7, <1>8, <1>10, <1>11, <1>12, <1>13,
           <1>14, <1>15, <1>16, <1>17, <1>18 DEF PushStep

\* An announcement moves the pointer only from nothing to the empty manifest.
LEMMA AnnounceStepHidden ==
    ASSUME TypeOK, IInv, NEW a \in Announcers, AnnounceStep(a), Grow
    PROVE  UNCHANGED RS!vars
<1>1. push' = push
    BY AnnounceFrame
<1>2. absRefs' = absRefs
    <2>1. CASE pointer' = pointer
        BY <2>1, RefsKept
    <2>2. CASE StoreSeed(a) /\ pointer' # pointer
        <3>1. pointer = 0 /\ pointer' = ann[a].digest /\ manifests' = manifests
            BY <2>2 DEF StoreSeed, StorePointer
        <3>2. ann[a].digest # 0 /\ manifests[ann[a].digest] = EmptyManifest
            BY <2>2 DEF StoreSeed, IInv, AnnInv
        <3> QED BY <3>1, <3>2, FreshTypes DEF absRefs, Loaded, FreshParent
    <2>3. pointer' = pointer \/ StoreSeed(a)
        BY DEF AnnounceStep, ReserveName, ReadHolder, EnsurePointer, SeedManifest,
               SeedWon, SeedLost, SeedError, ReleaseName, EmitInitial, AnnounceCrash
    <2> QED BY <2>1, <2>2, <2>3
<1>3. \A p \in Pushers : Phase(p)' = Phase(p)
    BY <1>1 DEF Phase
<1> QED BY <1>1, <1>2, <1>3, Hidden

\* Every step is a step of RefStore or a stutter.
LEMMA StepRefines == TypeOK /\ IInv /\ [Next]_vars => [RS!Next]_(RS!vars)
<1> SUFFICES ASSUME TypeOK, IInv, [Next]_vars PROVE RS!Next \/ UNCHANGED RS!vars
    OBVIOUS
<1>0. Grow
    BY StepInv
<1>1. ASSUME NEW p \in Pushers, PushStep(p) PROVE RS!Next \/ UNCHANGED RS!vars
    BY <1>0, <1>1, PushStepRefines
<1>2. ASSUME NEW a \in Announcers, AnnounceStep(a) PROVE UNCHANGED RS!vars
    BY <1>0, <1>2, AnnounceStepHidden
<1>3. ASSUME push' = push, pointer' = pointer PROVE UNCHANGED RS!vars
    <2>1. absRefs' = absRefs
        BY <1>0, <1>3, RefsKept
    <2>2. \A p \in Pushers : Phase(p)' = Phase(p)
        BY <1>3 DEF Phase
    <2> QED BY <1>3, <2>1, <2>2, Hidden
<1>4. ASSUME NEW x \in Readers, ReadStep(x) PROVE UNCHANGED RS!vars
    BY <1>3, <1>4 DEF ReadStep, InfoRefs, LoadPointer, UploadPack, readRest, repoVars
<1>5. CASE UNCHANGED vars
    BY <1>3, <1>5 DEF vars, repoVars
<1> QED BY <1>1, <1>2, <1>4, <1>5 DEF Next

\* Pushes take effect whole, one at a time and on the refs their clients saw,
\* and are answered accordingly, for any number of requests on any number of
\* relay nodes, with crashes and late conditional writes.
THEOREM Refinement == Spec => RefinesRefStore
<1>1. Init => RS!Init
    BY AbsInit
<1>2. TypeOK /\ IInv /\ [Next]_vars => [RS!Next]_(RS!vars)
    BY StepRefines
<1> QED BY <1>1, <1>2, Inductive, PTL DEF Spec, RefinesRefStore, RS!Spec
=============================================================================
