----------------------------- MODULE PushProofs -----------------------------
(***************************************************************************)
(* Proofs about PushDelivery, for any devices, events, matchers and        *)
(* delivery workers, any limits, and any number of faults and changes.     *)
(***************************************************************************)
EXTENDS PushDelivery, TLAPS

-----------------------------------------------------------------------------
(***************************************************************************)
(* The invariant.                                                          *)
(***************************************************************************)
\* The insertion of the event has committed.
Committed(e) == events[e] \notin {"none", "skipped", "queued"}

\* The push gate: while an insertion that found no lease is under way there is none,
\* and nothing is known of an event before its commit.
GateInv ==
    /\ \A e \in Events : events[e] = "skipped" => \A i \in Installs : ~ Eligible(i)
    /\ \A e \in Events : ~ Committed(e) => jobs[e].state = "none" /\ owed[e] = {}
    /\ \A w \in DOMAIN outbox : Committed(w.event)
    /\ \A m \in Matchers : \A e \in Batch(m) : Committed(e)

\* One endpoint has one active lease, and generations only grow: a row whose
\* generation is its lease's has its lease's grant.
LeaseInv ==
    /\ \A i \in Installs : leases[i].active <=> leases[i].grant # None
    /\ \A i \in Installs : leases[i].grant \in grants \cup {None}
    /\ \A i, j \in Installs : leases[i].active /\ leases[i].grant = leases[j].grant => i = j
    /\ \A e \in Events : \A x \in owed[e] : x[2] <= leases[x[1]].gen
    /\ \A w \in DOMAIN outbox :
          /\ outbox[w].gen <= leases[outbox[w].install].gen
          /\ outbox[w].gen = leases[outbox[w].install].gen
                => leases[outbox[w].install].grant = w.grant

\* A lease that an event is owed to, as long as it is eligible.
Owed(e, i) == <<i, leases[i].gen>> \in owed[e] /\ Eligible(i) /\ member

WakeOf(e, i) == [grant |-> leases[i].grant, event |-> e]

\* A matcher's context has the leases its events are owed to, and once it has
\* enqueued, they have their wakes.
MatchInv ==
    /\ \A e \in Events, i \in Installs :
          /\ <<i, leases[i].gen>> \in owed[e] /\ leases[i].active
          /\ WakeOf(e, i) \in DOMAIN outbox
          => outbox[WakeOf(e, i)].gen = leases[i].gen
    /\ \A m \in Matchers : matchers[m].pc = "enqueue" =>
          \A e \in Batch(m), i \in Installs :
             Owed(e, i) => <<i, leases[i].gen>> \in matchers[m].leases
    /\ \A m \in Matchers : matchers[m].pc = "settle" =>
          \A e \in Batch(m) \ matchers[m].failed, i \in Installs :
             Owed(e, i) /\ events[e] \in {"recent", "old"} => WakeOf(e, i) \in DOMAIN outbox

\* A claim that has not run out is its worker's, and nobody else may take it.
JobInv ==
    /\ \A e \in Events : jobs[e].live => jobs[e].state = "matching"
    /\ \A e \in Events : jobs[e].state = "matching" => jobs[e].by # None
    /\ \A m \in Matchers : matchers[m].pc = "idle" => Batch(m) = {}
    /\ \A m \in Matchers : \A e \in Batch(m) :
          <<m, e>> \notin lapsed => Holds(jobs[e], m, "matching") /\ jobs[e].live

WakeInv ==
    /\ \A w \in DOMAIN outbox : outbox[w].live => outbox[w].state = "sending"
    /\ \A w \in DOMAIN outbox : outbox[w].state = "sending" => outbox[w].by # None
    /\ \A d \in Deliverers : \A c \in deliverers[d].held :
          /\ c.wake \in DOMAIN outbox
          /\ \A b \in deliverers[d].held : b.wake = c.wake => b = c
          /\ <<d, c.wake>> \notin lapsed
                => Holds(outbox[c.wake], d, "sending") /\ outbox[c.wake].live

\* What a delivery worker is at.
DelivererInv ==
    \A d \in Deliverers :
        /\ deliverers[d].pc = "idle" => deliverers[d].cur = None /\ deliverers[d].reply = None
        /\ deliverers[d].pc # "idle" => deliverers[d].cur \in deliverers[d].held
        /\ deliverers[d].reply = "gone" => deliverers[d].cur.wake.grant \in invalid

\* A lease is disabled only for what it holds.
DisabledInv == DisabledWasInvalid

\* Grants are older than the delegation they came from, or the same.
GrantInv ==
    /\ \A g \in grants : g.gen <= delegation[g.install].gen
    /\ \A w \in DOMAIN outbox : w.grant \in grants
    /\ \A t \in tasks : t.grant = t.wake.grant /\ t.grant \in grants /\ t.wake \in DOMAIN outbox

\* A request id stays reserved as long as sending under it again could do harm.
SendInv ==
    /\ OneSendPerRequest
    /\ \A w \in confirmed : w \in reserved \/ Expired(w)
    /\ \A t \in tasks : t.phase = "admitted" \/ (t.phase = "sent" /\ Retryable(t))
                           => t.wake \notin confirmed
    /\ \A t \in tasks : t.phase = "sent" /\ t.outcome = "InvalidEndpoint" => t.grant \in invalid
    /\ repeated = {}

Inv ==
    /\ TypeOK /\ GateInv /\ LeaseInv /\ MatchInv /\ NoLostWake /\ JobInv /\ WakeInv
    /\ DelivererInv /\ DisabledInv /\ GrantInv /\ SendInv

-----------------------------------------------------------------------------
(***************************************************************************)
(* Rows and records.                                                       *)
(***************************************************************************)
LEMMA FreshTypes ==
    /\ NoLease \in Lease /\ NoLease.grant = None /\ NoLease.gen = 0 /\ ~ NoLease.active
    /\ NoJob \in Job /\ NoJob.state = "none" /\ ~ NoJob.live
    /\ NewJob \in Job /\ NewJob.state = "pending" /\ ~ NewJob.live
    /\ IdleMatcher \in Matcher /\ IdleMatcher.pc = "idle" /\ DOMAIN IdleMatcher.claimed = {}
    /\ IdleDeliverer \in Deliverer /\ IdleDeliverer.pc = "idle" /\ IdleDeliverer.held = {}
    /\ IdleDeliverer.cur = None /\ IdleDeliverer.reply = None
<1>1. NoLease \in Lease /\ NoLease.grant = None /\ NoLease.gen = 0 /\ ~ NoLease.active
    BY DEF NoLease, Lease
<1>2. NoJob \in Job /\ NoJob.state = "none" /\ ~ NoJob.live
    BY DEF NoJob, Job
<1>3. NewJob \in Job /\ NewJob.state = "pending" /\ ~ NewJob.live
    BY DEF NoJob, NewJob, Job
<1>4. <<>> \in UNION {[batch -> 1..MaxMatchAttempts] : batch \in SUBSET Events} /\ DOMAIN <<>> = {}
    <2>1. DOMAIN <<>> = {} /\ {} \in SUBSET Events
        OBVIOUS
    <2>2. <<>> = [e \in {} |-> 1] /\ [e \in {} |-> 1] \in [{} -> 1..MaxMatchAttempts]
        OBVIOUS
    <2> QED BY <2>1, <2>2
<1>5. IdleMatcher \in Matcher /\ IdleMatcher.pc = "idle" /\ DOMAIN IdleMatcher.claimed = {}
    BY <1>4 DEF IdleMatcher, Matcher
<1>6. /\ IdleDeliverer \in Deliverer /\ IdleDeliverer.pc = "idle" /\ IdleDeliverer.held = {}
      /\ IdleDeliverer.cur = None /\ IdleDeliverer.reply = None
    BY DEF IdleDeliverer, Deliverer
<1> QED BY <1>1, <1>2, <1>3, <1>5, <1>6

\* A matcher's claims are its events' attempts.
LEMMA ClaimedType ==
    ASSUME NEW f, NEW batch \in SUBSET Events, f \in [batch -> 1..MaxMatchAttempts]
    PROVE  f \in UNION {[b -> 1..MaxMatchAttempts] : b \in SUBSET Events}
OBVIOUS

LEMMA BatchType ==
    ASSUME TypeOK, NEW m \in Matchers
    PROVE  /\ matchers[m] \in Matcher /\ Batch(m) \subseteq Events
           /\ matchers[m].claimed \in [Batch(m) -> 1..MaxMatchAttempts]
<1>1. matchers[m] \in Matcher
    BY DEF TypeOK
<1>2. matchers[m].claimed \in UNION {[b -> 1..MaxMatchAttempts] : b \in SUBSET Events}
    BY <1>1 DEF Matcher
<1>3. PICK b \in SUBSET Events : matchers[m].claimed \in [b -> 1..MaxMatchAttempts]
    BY <1>2
<1> QED BY <1>1, <1>3 DEF Batch

\* Claiming a row, and giving it back.
LEMMA ClaimTypes ==
    /\ \A row \in Job, m \in Matchers :
          /\ Claim(row, m, "matching") \in Job
          /\ Holds(Claim(row, m, "matching"), m, "matching") /\ Claim(row, m, "matching").live
    /\ \A row \in Row, d \in Deliverers :
          /\ Claim(row, d, "sending") \in Row
          /\ Holds(Claim(row, d, "sending"), d, "sending") /\ Claim(row, d, "sending").live
          /\ Claim(row, d, "sending").gen = row.gen
          /\ Claim(row, d, "sending").install = row.install
<1>1. ASSUME NEW row \in Job, NEW m \in Matchers
      PROVE  /\ Claim(row, m, "matching") \in Job
             /\ Holds(Claim(row, m, "matching"), m, "matching") /\ Claim(row, m, "matching").live
    <2>1. row.attempts + 1 \in Nat
        BY DEF Job
    <2> DEFINE n == row.attempts + 1
    <2>2. Claim(row, m, "matching") = [row EXCEPT !.state = "matching", !.by = m, !.live = TRUE,
                                                  !.attempts = n]
        BY DEF Claim, Job
    <2> HIDE DEF n
    <2> QED BY <2>1, <2>2 DEF Holds, Job, n
<1>2. ASSUME NEW row \in Row, NEW d \in Deliverers
      PROVE  /\ Claim(row, d, "sending") \in Row
             /\ Holds(Claim(row, d, "sending"), d, "sending") /\ Claim(row, d, "sending").live
             /\ Claim(row, d, "sending").gen = row.gen
             /\ Claim(row, d, "sending").install = row.install
    <2>1. row.attempts + 1 \in Nat
        BY DEF Row
    <2> DEFINE n == row.attempts + 1
    <2>2. Claim(row, d, "sending") = [row EXCEPT !.state = "sending", !.by = d, !.live = TRUE,
                                                 !.attempts = n]
        BY DEF Claim, Row
    <2> HIDE DEF n
    <2> QED BY <2>1, <2>2 DEF Holds, Row, n
<1> QED BY <1>1, <1>2

\* complete_match_batch leaves the jobs of others alone.
LEMMA CompleteFacts ==
    ASSUME TypeOK, NEW m \in Matchers, NEW done, NEW retry,
           jobs' = CompleteMatches(m, done, retry)
    PROVE  /\ jobs' \in [Events -> Job]
           /\ \A e \in Events :
                \/ jobs'[e] = jobs[e]
                \/ /\ Holds(jobs[e], m, "matching") /\ e \in done
                   /\ jobs'[e].state = "none" /\ ~ jobs'[e].live
                \/ /\ Holds(jobs[e], m, "matching") /\ e \in retry /\ e \notin done
                   /\ jobs'[e].state = "pending" /\ ~ jobs'[e].live
           /\ \A e \in Events : Holds(jobs[e], m, "matching") /\ e \in done => jobs'[e].state = "none"
<1> DEFINE back(e) == [jobs[e] EXCEPT !.state = "pending", !.by = None, !.live = FALSE]
<1>1. jobs \in [Events -> Job]
    BY DEF TypeOK
<1>2. \A e \in Events : back(e) \in Job /\ back(e).state = "pending" /\ ~ back(e).live
    BY <1>1 DEF Job
<1>3. \A e \in Events : jobs'[e] = IF ~ Holds(jobs[e], m, "matching") THEN jobs[e]
                                   ELSE IF e \in done THEN NoJob
                                   ELSE IF e \in retry THEN back(e) ELSE jobs[e]
    BY DEF CompleteMatches
<1>4. DOMAIN jobs' = Events /\ jobs' = [e \in Events |-> jobs'[e]]
    BY DEF CompleteMatches
<1> HIDE DEF back
<1>5. \A e \in Events : jobs'[e] \in Job
    BY <1>1, <1>2, <1>3, FreshTypes
<1> QED BY <1>2, <1>3, <1>4, <1>5, FreshTypes

-----------------------------------------------------------------------------
(***************************************************************************)
(* What each part of the invariant depends on.                             *)
(***************************************************************************)
\* The rows of the outbox are the same but for their state and claim.
SameRows ==
    /\ DOMAIN outbox' = DOMAIN outbox
    /\ \A w \in DOMAIN outbox : /\ outbox'[w].gen = outbox[w].gen
                                /\ outbox'[w].install = outbox[w].install

MatchVars == <<leases, events, jobs, member, matchers, owed, gaveUp>>

LEMMA MatchFrame ==
    ASSUME Inv, UNCHANGED MatchVars, SameRows, grants \subseteq grants'
    PROVE  GateInv' /\ LeaseInv' /\ MatchInv' /\ NoLostWake'
<1>1. /\ leases' = leases /\ events' = events /\ jobs' = jobs /\ member' = member
      /\ matchers' = matchers /\ owed' = owed /\ gaveUp' = gaveUp
    BY DEF MatchVars
<1>2. GateInv'
    BY <1>1 DEF Inv, GateInv, SameRows, Committed, Batch, Eligible
<1>3. LeaseInv'
    BY <1>1 DEF Inv, LeaseInv, SameRows
<1>4. MatchInv'
    BY <1>1 DEF Inv, MatchInv, SameRows, Owed, WakeOf, Batch, Eligible
<1>5. NoLostWake'
    BY <1>1 DEF Inv, NoLostWake, SameRows, Eligible
<1> QED BY <1>2, <1>3, <1>4, <1>5

LEMMA JobFrame ==
    ASSUME Inv, UNCHANGED <<jobs, matchers>>,
           \A m \in Matchers, e \in Events : <<m, e>> \in lapsed => <<m, e>> \in lapsed'
    PROVE  JobInv'
<1>1. \A m \in Matchers : Batch(m) \subseteq Events /\ Batch(m)' = Batch(m)
    BY BatchType DEF Inv, Batch
<1> QED BY <1>1 DEF Inv, JobInv

LEMMA WakeFrame ==
    ASSUME Inv, UNCHANGED outbox,
           \A d \in Deliverers : deliverers'[d].held = deliverers[d].held,
           \A d \in Deliverers, w \in Wakes : <<d, w>> \in lapsed => <<d, w>> \in lapsed'
    PROVE  WakeInv'
<1>1. \A d \in Deliverers : \A c \in deliverers[d].held : c.wake \in Wakes
    BY DEF Inv, WakeInv, TypeOK
<1> QED BY <1>1 DEF Inv, WakeInv

LEMMA SendFrame ==
    ASSUME Inv, UNCHANGED <<tasks, reserved, confirmed, repeated, invalid>>,
           \A e \in Events : Useless(e) => Useless(e)'
    PROVE  SendInv'
<1>1. \A w \in Wakes : Expired(w) => Expired(w)'
    BY DEF Wakes, Expired
<1>2. \A t \in tasks : t.wake \in Wakes
    BY DEF Inv, TypeOK, Task
<1>3. confirmed \subseteq Wakes
    BY DEF Inv, TypeOK
<1>4. OneSendPerRequest'
    BY <1>1, <1>2 DEF Inv, SendInv, OneSendPerRequest
<1> QED BY <1>1, <1>3, <1>4 DEF Inv, SendInv, Retryable

LEMMA GrantFrame ==
    ASSUME Inv, UNCHANGED <<tasks, grants, delegation>>, DOMAIN outbox' = DOMAIN outbox
    PROVE  GrantInv'
BY DEF Inv, GrantInv

LEMMA DelivererFrame ==
    ASSUME Inv, UNCHANGED <<deliverers, invalid>>
    PROVE  DelivererInv'
BY DEF Inv, DelivererInv

LEMMA DisabledFrame ==
    ASSUME Inv, UNCHANGED leases, invalid \subseteq invalid'
    PROVE  DisabledInv'
BY DEF Inv, DisabledInv, DisabledWasInvalid

-----------------------------------------------------------------------------
(***************************************************************************)
(* The devices at the gateway.                                             *)
(***************************************************************************)
LEMMA ChangeType ==
    ASSUME TypeOK, Change \/ UNCHANGED changes
    PROVE  changes' \in Nat
BY DEF TypeOK, Change

LEMMA FaultType ==
    ASSUME TypeOK, Fault \/ UNCHANGED faults
    PROVE  faults' \in Nat
BY DEF TypeOK, Fault

\* A delegation gets a newer generation, and every grant sealed is older or its own.
LEMMA DeviceFacts ==
    ASSUME Inv, NEW i \in Installs, DeviceStep(i)
    PROVE  /\ installation' \in [Installs -> [epoch : 1..MaxEpoch, revoked : BOOLEAN]]
           /\ delegation' \in [Installs -> [gen : Nat, epoch : Nat, revoked : BOOLEAN]]
           /\ grants \subseteq grants' /\ grants' \subseteq Grants
           /\ quota' \in [Installs -> 0..MaxQuota]
           /\ changes' \in Nat
           /\ \A g \in grants' : g.gen <= delegation'[g.install].gen
           /\ UNCHANGED <<reserved, tasks, confirmed, repeated, invalid>>
           /\ UNCHANGED <<leases, events, member, jobs, outbox, matchers, deliverers, faults>>
           /\ UNCHANGED <<owed, gaveUp, lapsed, blocked>>
<1>a. /\ installation \in [Installs -> [epoch : 1..MaxEpoch, revoked : BOOLEAN]]
      /\ delegation \in [Installs -> [gen : Nat, epoch : Nat, revoked : BOOLEAN]]
      /\ grants \subseteq Grants /\ quota \in [Installs -> 0..MaxQuota] /\ TypeOK
    BY DEF Inv, TypeOK
<1>b. \A g \in grants : g.gen <= delegation[g.install].gen /\ g.install \in Installs /\ g.gen \in Nat
    BY <1>a DEF Inv, GrantInv, Grants
<1>c. MaxEpoch \in Nat \ {0} /\ MaxGrants \in Nat /\ MaxQuota \in Nat
    BY GatewayAssumption
<1>d. /\ UNCHANGED <<leases, events, member, jobs, outbox, matchers, deliverers, faults>>
      /\ UNCHANGED <<owed, gaveUp, lapsed, blocked>>
    BY DEF DeviceStep, workVars, historyVars
<1>e. changes' \in Nat
    BY <1>a, ChangeType DEF DeviceStep
<1>1. CASE UpsertDelegation(i)
    <2> DEFINE n == delegation[i].gen + 1
               p == installation[i].epoch
               d == [gen |-> n, epoch |-> p, revoked |-> FALSE]
               g0 == [install |-> i, epoch |-> p, gen |-> n]
    <2>1. n \in 1..MaxGrants /\ p \in 1..MaxEpoch /\ n \in Nat /\ p \in Nat /\ delegation[i].gen \in Nat
        BY <1>a, <1>c, <1>1 DEF UpsertDelegation
    <2>2. /\ delegation' = [delegation EXCEPT ![i] = d] /\ grants' = grants \cup {g0}
          /\ UNCHANGED <<installation, quota, reserved, tasks, confirmed, repeated, invalid>>
        BY <1>1 DEF UpsertDelegation
    <2>3. g0 \in Grants /\ g0.gen = n /\ g0.install = i
        BY <2>1 DEF Grants
    <2>4. d \in [gen : Nat, epoch : Nat, revoked : BOOLEAN] /\ d.gen = n
        BY <2>1
    <2>5. delegation[i].gen <= n
        BY <2>1
    <2> HIDE DEF n, p, d, g0
    <2>6. \A g \in grants' : g.gen <= delegation'[g.install].gen
        <3> SUFFICES ASSUME NEW g \in grants' PROVE g.gen <= delegation'[g.install].gen
            OBVIOUS
        <3>1. CASE g = g0
            BY <1>a, <2>1, <2>2, <2>3, <2>4, <3>1
        <3>2. CASE g \in grants /\ g.install = i
            BY <1>a, <1>b, <2>1, <2>2, <2>4, <2>5, <3>2
        <3>3. CASE g \in grants /\ g.install # i
            BY <1>a, <1>b, <2>2, <3>3
        <3> QED BY <2>2, <3>1, <3>2, <3>3
    <2> QED BY <1>a, <1>d, <1>e, <2>2, <2>3, <2>4, <2>6
<1>2. CASE RotateEndpoint(i)
    <2>1. /\ installation' = [installation EXCEPT ![i].epoch = installation[i].epoch + 1]
          /\ quota' = [quota EXCEPT ![i] = 0] /\ installation[i].epoch + 1 \in 1..MaxEpoch
          /\ UNCHANGED <<delegation, grants, reserved, tasks, confirmed, repeated, invalid>>
        BY <1>a, <1>c, <1>2 DEF RotateEndpoint
    <2> QED BY <1>a, <1>b, <1>c, <1>d, <1>e, <2>1
<1>3. CASE RevokeDelegation(i)
    <2> DEFINE n == delegation[i].gen + 1
               d == [delegation[i] EXCEPT !.gen = n, !.revoked = TRUE]
    <2>2. delegation[i].gen \in Nat /\ n \in Nat /\ delegation[i].gen <= n
        BY <1>a
    <2>1. /\ delegation' = [delegation EXCEPT ![i] = d]
          /\ UNCHANGED <<installation, grants, quota, reserved, tasks, confirmed, repeated, invalid>>
        <3>1. delegation' = [delegation EXCEPT ![i].gen = n, ![i].revoked = TRUE]
            BY <1>a, <1>3 DEF RevokeDelegation
        <3> HIDE DEF n
        <3> QED BY <1>a, <1>3, <3>1 DEF RevokeDelegation
    <2> HIDE DEF n
    <2>3. d \in [gen : Nat, epoch : Nat, revoked : BOOLEAN] /\ d.gen = n
        BY <1>a, <2>2
    <2> HIDE DEF d
    <2>4. \A g \in grants : g.gen <= delegation'[g.install].gen
        <3> SUFFICES ASSUME NEW g \in grants PROVE g.gen <= delegation'[g.install].gen
            OBVIOUS
        <3>1. CASE g.install = i
            BY <1>a, <1>b, <2>1, <2>2, <2>3, <3>1
        <3>2. CASE g.install # i
            BY <1>a, <1>b, <2>1, <3>2
        <3> QED BY <3>1, <3>2
    <2> QED BY <1>a, <1>d, <1>e, <2>1, <2>3, <2>4
<1>4. CASE RevokeInstallation(i)
    <2>1. /\ installation' = [installation EXCEPT ![i].epoch = installation[i].epoch + 1,
                                                  ![i].revoked = TRUE]
          /\ installation[i].epoch + 1 \in 1..MaxEpoch
          /\ UNCHANGED <<delegation, grants, quota, reserved, tasks, confirmed, repeated, invalid>>
        BY <1>a, <1>c, <1>4 DEF RevokeInstallation
    <2> DEFINE n == installation[i].epoch + 1
    <2>2. n \in 1..MaxEpoch
        BY <2>1
    <2> HIDE DEF n
    <2>3. installation' \in [Installs -> [epoch : 1..MaxEpoch, revoked : BOOLEAN]]
        BY <1>a, <2>1, <2>2 DEF n
    <2> QED BY <1>a, <1>b, <1>d, <1>e, <2>1, <2>3
<1>5. CASE QuotaWindow(i)
    <2>1. quota' = [quota EXCEPT ![i] = 0]
        BY <1>5 DEF QuotaWindow
    <2> QED BY <1>a, <1>b, <1>c, <1>d, <1>e, <1>5, <2>1 DEF QuotaWindow, authorityVars
<1> QED BY <1>1, <1>2, <1>3, <1>4, <1>5 DEF DeviceStep

LEMMA DeviceInv ==
    ASSUME Inv, NEW i \in Installs, DeviceStep(i)
    PROVE  Inv'
<1>1. /\ UNCHANGED <<reserved, tasks, confirmed, repeated, invalid>>
      /\ UNCHANGED <<leases, events, member, jobs, outbox, matchers, deliverers, faults>>
      /\ UNCHANGED <<owed, gaveUp, lapsed, blocked>>
      /\ grants \subseteq grants'
      /\ \A g \in grants' : g.gen <= delegation'[g.install].gen
    BY DeviceFacts
<1>2. TypeOK'
    BY DeviceFacts DEF Inv, TypeOK
<1>3. GateInv' /\ LeaseInv' /\ MatchInv' /\ NoLostWake'
    BY <1>1, MatchFrame DEF MatchVars, SameRows
<1>4. JobInv' /\ WakeInv' /\ DelivererInv' /\ DisabledInv'
    BY <1>1, JobFrame, WakeFrame, DelivererFrame, DisabledFrame
<1>5. GrantInv'
    BY <1>1 DEF Inv, GrantInv
<1>6. SendInv'
    BY <1>1, SendFrame DEF Useless
<1> QED BY <1>2, <1>3, <1>4, <1>5, <1>6 DEF Inv

-----------------------------------------------------------------------------
(***************************************************************************)
(* The gateway's delivery handler.                                         *)
(***************************************************************************)
\* An answer reaches a worker that waits for it, and changes nothing else of it.
LEMMA AnswerFacts ==
    ASSUME TypeOK, NEW t \in tasks, NEW reply \in Replies, Answer(t, reply)
    PROVE  /\ deliverers' \in [Deliverers -> Deliverer]
           /\ \A d \in Deliverers :
                /\ deliverers'[d].pc = deliverers[d].pc
                /\ deliverers'[d].held = deliverers[d].held
                /\ deliverers'[d].cur = deliverers[d].cur
                /\ \/ deliverers'[d].reply = deliverers[d].reply
                   \/ /\ deliverers'[d].reply = reply /\ deliverers[d].pc = "wait"
                      /\ deliverers[d].cur.wake = t.wake
<1>1. deliverers \in [Deliverers -> Deliverer]
    BY DEF TypeOK
<1> DEFINE a(d) == [deliverers[d] EXCEPT !.reply = reply]
<1>2. \A d \in Deliverers :
        deliverers'[d] = IF /\ deliverers[d].pc = "wait"
                            /\ deliverers[d].cur = [wake |-> t.wake, attempt |-> t.attempt]
                         THEN a(d) ELSE deliverers[d]
    BY DEF Answer
<1>3. \A d \in Deliverers :
        /\ a(d) \in Deliverer /\ a(d).pc = deliverers[d].pc /\ a(d).held = deliverers[d].held
        /\ a(d).cur = deliverers[d].cur /\ a(d).reply = reply
    BY <1>1 DEF Deliverer, Replies
<1>4. DOMAIN deliverers' = Deliverers /\ deliverers' = [d \in Deliverers |-> deliverers'[d]]
    BY DEF Answer
<1> HIDE DEF a
<1>5. \A d \in Deliverers : deliverers'[d] \in Deliverer
    BY <1>1, <1>2, <1>3
<1> QED BY <1>2, <1>3, <1>4, <1>5

\* A step of the gateway leaves the relay as it is but for the answer.
LEMMA GatewayFrame ==
    ASSUME Inv, UNCHANGED <<leases, events, jobs, outbox, member, matchers>>,
           UNCHANGED <<owed, gaveUp, lapsed>>, UNCHANGED grants, invalid \subseteq invalid',
           \A d \in Deliverers : /\ deliverers'[d].held = deliverers[d].held
                                 /\ deliverers'[d].cur = deliverers[d].cur
                                 /\ deliverers'[d].pc = deliverers[d].pc
                                 /\ \/ deliverers'[d].reply = deliverers[d].reply
                                    \/ /\ deliverers[d].pc = "wait"
                                       /\ deliverers'[d].reply = "gone"
                                             => deliverers[d].cur.wake.grant \in invalid
    PROVE  /\ GateInv' /\ LeaseInv' /\ MatchInv' /\ NoLostWake' /\ JobInv' /\ WakeInv'
           /\ DelivererInv' /\ DisabledInv'
<1>1. GateInv' /\ LeaseInv' /\ MatchInv' /\ NoLostWake'
    BY MatchFrame DEF MatchVars, SameRows
<1>2. JobInv' /\ WakeInv' /\ DisabledInv'
    BY JobFrame, WakeFrame, DisabledFrame
<1>3. DelivererInv'
    BY DEF Inv, DelivererInv
<1> QED BY <1>1, <1>2, <1>3

\* A task takes its next step.
LEMMA TaskMoves ==
    ASSUME TypeOK, NEW t \in tasks, NEW u \in Task, u.wake = t.wake, u.grant = t.grant,
           tasks' = (tasks \ {t}) \cup {u}, GrantInv, UNCHANGED <<grants, delegation, outbox>>
    PROVE  tasks' \subseteq Task /\ GrantInv'
<1>1. tasks' \subseteq Task
    BY DEF TypeOK
<1>2. GrantInv'
    BY DEF GrantInv
<1> QED BY <1>1, <1>2

\* authorize_delivery admits a request whose id is free and that is not expired.
LEMMA AdmitInv ==
    ASSUME Inv, NEW t \in tasks, Admit(t)
    PROVE  Inv'
<1> DEFINE u == [t EXCEPT !.phase = "admitted"]
<1>a. TypeOK /\ t \in Task /\ t.wake \in Wakes /\ GrantInv
    BY DEF Inv, TypeOK, Task
<1>1. u \in Task /\ u.wake = t.wake /\ u.grant = t.grant /\ u.phase = "admitted"
    BY <1>a DEF Task
<1>2. /\ tasks' = (tasks \ {t}) \cup {u} /\ reserved' = reserved \cup {t.wake}
      /\ quota' = [quota EXCEPT ![t.grant.install] = quota[t.grant.install] + 1]
      /\ t.wake \notin reserved /\ ~ Expired(t.wake) /\ quota[t.grant.install] < MaxQuota
      /\ t.phase = "posted"
      /\ UNCHANGED <<installation, delegation, grants, confirmed, repeated, invalid>>
    BY DEF Admit, AuthorizeDelivery, Admissible, authorityVars
<1>3. /\ UNCHANGED <<leases, events, jobs, outbox, member, matchers, deliverers, faults, changes>>
      /\ UNCHANGED <<owed, gaveUp, lapsed, blocked>>
    BY DEF Admit, relayVars
<1> HIDE DEF u
<1>4. quota' \in [Installs -> 0..MaxQuota]
    <2>1. quota \in [Installs -> 0..MaxQuota] /\ t.grant.install \in Installs /\ MaxQuota \in Nat
        BY <1>a, GatewayAssumption DEF TypeOK, Task, Grants
    <2>2. quota[t.grant.install] + 1 \in 0..MaxQuota
        BY <1>2, <2>1
    <2> QED BY <1>2, <2>1, <2>2
<1>5. tasks' \subseteq Task /\ GrantInv'
    BY <1>a, <1>1, <1>2, <1>3, TaskMoves
<1>6. TypeOK'
    BY <1>a, <1>2, <1>3, <1>4, <1>5 DEF TypeOK
<1>7. /\ GateInv' /\ LeaseInv' /\ MatchInv' /\ NoLostWake' /\ JobInv' /\ WakeInv'
      /\ DelivererInv' /\ DisabledInv'
    BY <1>2, <1>3, GatewayFrame
<1>8. \A v \in tasks : v.phase # "posted" => v.wake # t.wake
    BY <1>2 DEF Inv, SendInv, OneSendPerRequest
<1>9. \A w : Expired(w)' <=> Expired(w)
    BY <1>3 DEF Expired, Useless
<1>10. OneSendPerRequest'
    BY <1>1, <1>2, <1>8, <1>9 DEF Inv, SendInv, OneSendPerRequest
<1>11. t.wake \notin confirmed
    BY <1>2 DEF Inv, SendInv
<1>12. SendInv'
    <2>1. \A w \in confirmed' : w \in reserved' \/ Expired(w)'
        BY <1>2, <1>9 DEF Inv, SendInv
    <2>2. \A v \in tasks' : v.phase = "admitted" \/ (v.phase = "sent" /\ Retryable(v))
                                 => v.wake \notin confirmed'
        BY <1>1, <1>2, <1>11 DEF Inv, SendInv
    <2>3. \A v \in tasks' : v.phase = "sent" /\ v.outcome = "InvalidEndpoint"
                                 => v.grant \in invalid'
        BY <1>1, <1>2 DEF Inv, SendInv
    <2> QED BY <1>2, <1>10, <2>1, <2>2, <2>3 DEF Inv, SendInv, Retryable
<1> QED BY <1>5, <1>6, <1>7, <1>12 DEF Inv

\* The provider is asked once per admission.
LEMMA TransportInv ==
    ASSUME Inv, NEW t \in tasks, Send(t)
    PROVE  Inv'
<1>1. PICK outcome \in Outcomes : TransportSend(t, outcome)
    BY DEF Send
<1> DEFINE u == [t EXCEPT !.phase = "sent", !.outcome = outcome]
<1>a. TypeOK /\ t \in Task /\ t.wake \in Wakes /\ t.grant \in Grants /\ GrantInv
    BY DEF Inv, TypeOK, Task
<1>2. /\ u \in Task /\ u.wake = t.wake /\ u.grant = t.grant /\ u.phase = "sent"
      /\ u.outcome = outcome
    BY <1>a DEF Task
<1>3. /\ tasks' = (tasks \ {t}) \cup {u} /\ t.phase = "admitted"
      /\ UNCHANGED <<installation, delegation, grants, reserved, quota>>
    BY <1>1 DEF TransportSend, authorityVars
<1>4. /\ UNCHANGED <<leases, events, jobs, outbox, member, matchers, deliverers, faults, changes>>
      /\ UNCHANGED <<owed, gaveUp, lapsed, blocked>>
    BY DEF Send, relayVars
<1>5. t.wake \notin confirmed
    BY <1>3 DEF Inv, SendInv
<1>6. /\ confirmed' = IF outcome = "Accepted" THEN confirmed \cup {t.wake} ELSE confirmed
      /\ repeated' = repeated
      /\ invalid' = IF outcome = "InvalidEndpoint" THEN invalid \cup {t.grant} ELSE invalid
    BY <1>1, <1>5 DEF TransportSend
<1> HIDE DEF u
<1>7. tasks' \subseteq Task /\ GrantInv'
    BY <1>a, <1>2, <1>3, <1>4, TaskMoves
<1>8. TypeOK'
    BY <1>a, <1>3, <1>4, <1>6, <1>7 DEF TypeOK
<1>9. /\ GateInv' /\ LeaseInv' /\ MatchInv' /\ NoLostWake' /\ JobInv' /\ WakeInv'
      /\ DelivererInv' /\ DisabledInv'
    BY <1>3, <1>4, <1>6, GatewayFrame
<1>10. \A v \in tasks : v.phase # "posted" /\ v.wake = t.wake => v = t
    BY <1>3 DEF Inv, SendInv, OneSendPerRequest
<1>11. t.wake \in reserved \/ Expired(t.wake)
    BY <1>3 DEF Inv, SendInv, OneSendPerRequest
<1>12. \A w : Expired(w)' <=> Expired(w)
    BY <1>4 DEF Expired, Useless
<1>13. OneSendPerRequest'
    BY <1>2, <1>3, <1>10, <1>11, <1>12 DEF Inv, SendInv, OneSendPerRequest
<1>14. SendInv'
    <2>1. \A w \in confirmed' : w \in reserved' \/ Expired(w)'
        BY <1>3, <1>6, <1>11, <1>12 DEF Inv, SendInv
    <2>2. ASSUME NEW v \in tasks', v.phase = "admitted" \/ (v.phase = "sent" /\ Retryable(v))
          PROVE  v.wake \notin confirmed'
        <3>1. CASE v = u
            BY <1>2, <1>5, <1>6, <2>2, <3>1 DEF Retryable
        <3>2. CASE v \in tasks /\ v # t
            BY <1>6, <1>10, <2>2, <3>2 DEF Inv, SendInv
        <3> QED BY <1>3, <3>1, <3>2
    <2>3. \A v \in tasks' : v.phase = "sent" /\ v.outcome = "InvalidEndpoint"
                                 => v.grant \in invalid'
        BY <1>2, <1>3, <1>6 DEF Inv, SendInv
    <2> QED BY <1>6, <1>13, <2>1, <2>2, <2>3 DEF Inv, SendInv, Retryable
<1> QED BY <1>7, <1>8, <1>9, <1>14 DEF Inv

\* A task ends, and its worker may be answered.
LEMMA TaskEnds ==
    ASSUME Inv, NEW t \in tasks, tasks' = tasks \ {t}, NEW reply \in Replies, Answer(t, reply),
           reply = "gone" => t.phase = "sent" /\ t.outcome = "InvalidEndpoint",
           \/ UNCHANGED reserved
           \/ t.phase = "sent" /\ Retryable(t) /\ reserved' = reserved \ {t.wake},
           UNCHANGED <<installation, delegation, grants, quota, confirmed, repeated, invalid>>,
           UNCHANGED <<leases, events, jobs, outbox, member, matchers, changes>>,
           UNCHANGED <<owed, gaveUp, lapsed, blocked>>, Fault \/ UNCHANGED faults
    PROVE  Inv'
<1>a. TypeOK
    BY DEF Inv
<1>1. /\ deliverers' \in [Deliverers -> Deliverer]
      /\ \A d \in Deliverers :
            /\ deliverers'[d].pc = deliverers[d].pc
            /\ deliverers'[d].held = deliverers[d].held
            /\ deliverers'[d].cur = deliverers[d].cur
            /\ \/ deliverers'[d].reply = deliverers[d].reply
               \/ /\ deliverers'[d].reply = reply /\ deliverers[d].pc = "wait"
                  /\ deliverers[d].cur.wake = t.wake
    BY <1>a, AnswerFacts
<1>2. faults' \in Nat
    BY <1>a, FaultType
<1>3. TypeOK'
    BY <1>a, <1>1, <1>2 DEF TypeOK
<1>4. reply = "gone" => t.wake.grant \in invalid
    BY DEF Inv, SendInv, GrantInv
<1>5. /\ GateInv' /\ LeaseInv' /\ MatchInv' /\ NoLostWake' /\ JobInv' /\ WakeInv'
      /\ DelivererInv' /\ DisabledInv'
    BY <1>1, <1>4, GatewayFrame
<1>6. GrantInv'
    BY DEF Inv, GrantInv
<1>7. \A w : Expired(w)' <=> Expired(w)
    BY DEF Expired, Useless
<1>8. t.phase = "sent" /\ Retryable(t) =>
        t.wake \notin confirmed /\ \A v \in tasks : v.phase # "posted" /\ v.wake = t.wake => v = t
    BY DEF Inv, SendInv, OneSendPerRequest
<1>9. OneSendPerRequest'
    BY <1>7, <1>8 DEF Inv, SendInv, OneSendPerRequest
<1>10. SendInv'
    <2>1. \A w \in confirmed' : w \in reserved' \/ Expired(w)'
        BY <1>7, <1>8 DEF Inv, SendInv
    <2> QED BY <1>9, <2>1 DEF Inv, SendInv, Retryable
<1> QED BY <1>3, <1>5, <1>6, <1>10 DEF Inv

LEMMA TaskInv ==
    ASSUME Inv, NEW t \in tasks, TaskStep(t)
    PROVE  Inv'
<1>1. CASE Reject(t)
    <2>1. "not_found" \in Replies /\ Answer(t, "not_found") /\ tasks' = tasks \ {t}
        BY <1>1 DEF Reject, RejectDelivery, Replies
    <2>2. /\ UNCHANGED <<installation, delegation, grants, quota, confirmed, repeated, invalid, reserved>>
          /\ UNCHANGED <<leases, events, jobs, outbox, member, matchers, changes, faults>>
          /\ UNCHANGED <<owed, gaveUp, lapsed, blocked>>
        BY <1>1 DEF Reject, RejectDelivery, authorityVars, answerUnchanged, deliverUnchanged
    <2> QED BY <2>1, <2>2, TaskEnds
<1>2. CASE Unavailable(t)
    <2>1. "unavailable" \in Replies /\ Answer(t, "unavailable") /\ tasks' = tasks \ {t} /\ Fault
        BY <1>2 DEF Unavailable, DropDelivery, Replies
    <2>2. /\ UNCHANGED <<installation, delegation, grants, quota, confirmed, repeated, invalid, reserved>>
          /\ UNCHANGED <<leases, events, jobs, outbox, member, matchers, changes>>
          /\ UNCHANGED <<owed, gaveUp, lapsed, blocked>>
        BY <1>2 DEF Unavailable, DropDelivery, authorityVars, answerUnchanged, deliverUnchanged
    <2> QED BY <2>1, <2>2, TaskEnds
<1>3. CASE Finish(t)
    <2>1. /\ DeliveryResponse(t) \in Replies
          /\ DeliveryResponse(t) = "gone" => t.outcome = "InvalidEndpoint"
        BY DEF DeliveryResponse, Replies
    <2>2. Answer(t, DeliveryResponse(t)) /\ tasks' = tasks \ {t} /\ t.phase = "sent"
        BY <1>3 DEF Finish, FinishDelivery
    <2>3. \/ UNCHANGED reserved
          \/ t.phase = "sent" /\ Retryable(t) /\ reserved' = reserved \ {t.wake}
        BY <1>3 DEF Finish, FinishDelivery
    <2>4. /\ UNCHANGED <<installation, delegation, grants, quota, confirmed, repeated, invalid>>
          /\ UNCHANGED <<leases, events, jobs, outbox, member, matchers, changes, faults>>
          /\ UNCHANGED <<owed, gaveUp, lapsed, blocked>>
        BY <1>3 DEF Finish, FinishDelivery, authorityVars, answerUnchanged, deliverUnchanged
    <2> QED BY <2>1, <2>2, <2>3, <2>4, TaskEnds
<1>4. CASE FinishUnstored(t)
    <2>1. "unavailable" \in Replies /\ Answer(t, "unavailable") /\ tasks' = tasks \ {t} /\ Fault
        BY <1>4 DEF FinishUnstored, FinishFails, Replies
    <2>2. /\ UNCHANGED <<installation, delegation, grants, quota, confirmed, repeated, invalid, reserved>>
          /\ UNCHANGED <<leases, events, jobs, outbox, member, matchers, changes>>
          /\ UNCHANGED <<owed, gaveUp, lapsed, blocked>>
        BY <1>4 DEF FinishUnstored, FinishFails, authorityVars, answerUnchanged, deliverUnchanged
    <2> QED BY <2>1, <2>2, TaskEnds
<1> QED BY <1>1, <1>2, <1>3, <1>4, AdmitInv, TransportInv DEF TaskStep

\* The gateway dies, or forgets expired reservations.
LEMMA GatewayInv ==
    ASSUME Inv, GatewayDies \/ ReapExpired
    PROVE  Inv'
<1>a. TypeOK
    BY DEF Inv
<1>1. /\ UNCHANGED <<installation, delegation, grants, quota, confirmed, repeated, invalid>>
      /\ UNCHANGED <<leases, events, jobs, outbox, member, matchers, deliverers, changes>>
      /\ UNCHANGED <<owed, gaveUp, lapsed, blocked>>
      /\ Fault \/ UNCHANGED faults
    BY DEF GatewayDies, GatewayCrash, ReapExpired, ReapReservations, authorityVars,
           answerUnchanged, deliverUnchanged, relayVars
<1>2. /\ tasks' \subseteq tasks
      /\ \A w \in reserved : w \in reserved' \/ Expired(w)
      /\ reserved' \subseteq reserved
    BY DEF GatewayDies, GatewayCrash, ReapExpired, ReapReservations
<1>3. TypeOK'
    BY <1>a, <1>1, <1>2, FaultType DEF TypeOK
<1>4. /\ GateInv' /\ LeaseInv' /\ MatchInv' /\ NoLostWake' /\ JobInv' /\ WakeInv'
      /\ DelivererInv' /\ DisabledInv'
    BY <1>1, GatewayFrame
<1>5. GrantInv'
    BY <1>1, <1>2 DEF Inv, GrantInv
<1>6. \A w : Expired(w)' <=> Expired(w)
    BY <1>1 DEF Expired, Useless
<1>7. OneSendPerRequest'
    BY <1>2, <1>6 DEF Inv, SendInv, OneSendPerRequest
<1>8. SendInv'
    BY <1>1, <1>2, <1>6, <1>7 DEF Inv, SendInv, Retryable
<1> QED BY <1>3, <1>4, <1>5, <1>8 DEF Inv

-----------------------------------------------------------------------------
(***************************************************************************)
(* The delivery workers.                                                   *)
(***************************************************************************)
\* A settlement touches the row of its own claim only, and ends the claim.
LEMMA SettledFacts ==
    ASSUME TypeOK, NEW d \in Deliverers, NEW c, c.wake \in DOMAIN outbox,
           NEW state \in {"pending", "delivered", "failed"}, outbox' = Settled(d, c, state)
    PROVE  /\ SameRows /\ outbox' \in [DOMAIN outbox' -> Row]
           /\ \A w \in DOMAIN outbox :
                \/ outbox'[w] = outbox[w]
                \/ /\ w = c.wake /\ Holds(outbox[w], d, "sending")
                   /\ ~ outbox'[w].live /\ outbox'[w].state # "sending"
<1>1. outbox \in [DOMAIN outbox -> Row]
    BY DEF TypeOK
<1>2. CASE Holds(outbox[c.wake], d, "sending")
    <2> DEFINE r == [outbox[c.wake] EXCEPT !.state = state, !.by = None, !.live = FALSE]
    <2>1. /\ r \in Row /\ r.gen = outbox[c.wake].gen /\ r.install = outbox[c.wake].install
          /\ ~ r.live /\ r.state = state
        BY <1>1 DEF Row
    <2>2. outbox' = [outbox EXCEPT ![c.wake] = r]
        BY <1>1, <1>2 DEF Settled
    <2> HIDE DEF r
    <2> QED BY <1>1, <1>2, <2>1, <2>2 DEF SameRows
<1>3. CASE ~ Holds(outbox[c.wake], d, "sending")
    BY <1>1, <1>3 DEF Settled, SameRows
<1> QED BY <1>2, <1>3

\* What a worker does to its claims leaves those of others alone.
LEMMA WorkerClaims ==
    ASSUME Inv, NEW d \in Deliverers, UNCHANGED <<jobs, matchers>>,
           \A b \in Deliverers \ {d} : deliverers'[b] = deliverers[b],
           deliverers'[d].held \subseteq deliverers[d].held,
           SameRows,
           \A w \in DOMAIN outbox :
              \/ outbox'[w] = outbox[w]
              \/ /\ Holds(outbox[w], d, "sending")
                 /\ ~ outbox'[w].live /\ outbox'[w].state # "sending"
                 /\ \A c \in deliverers'[d].held : c.wake # w,
           \A x \in lapsed : \/ x \in lapsed'
                             \/ /\ x[1] = d
                                /\ \A c \in deliverers'[d].held : x # <<d, c.wake>>
    PROVE  JobInv' /\ WakeInv'
<1>1. \A m \in Matchers, e \in Events : <<m, e>> \in lapsed => <<m, e>> \in lapsed'
    BY DeliveryAssumption
<1>2. JobInv'
    BY <1>1, JobFrame
<1>3. /\ \A w \in DOMAIN outbox' : outbox'[w].live => outbox'[w].state = "sending"
      /\ \A w \in DOMAIN outbox' : outbox'[w].state = "sending" => outbox'[w].by # None
    BY DEF Inv, WakeInv, SameRows
<1>4. ASSUME NEW b \in Deliverers, NEW c \in deliverers'[b].held
      PROVE  /\ c.wake \in DOMAIN outbox'
             /\ \A a \in deliverers'[b].held : a.wake = c.wake => a = c
             /\ <<b, c.wake>> \notin lapsed'
                   => Holds(outbox'[c.wake], b, "sending") /\ outbox'[c.wake].live
    <2>1. c \in deliverers[b].held /\ deliverers'[b].held \subseteq deliverers[b].held
        BY <1>4
    <2>2. /\ c.wake \in DOMAIN outbox'
          /\ \A a \in deliverers'[b].held : a.wake = c.wake => a = c
        BY <2>1 DEF Inv, WakeInv, SameRows
    <2>3. ASSUME <<b, c.wake>> \notin lapsed'
          PROVE  Holds(outbox'[c.wake], b, "sending") /\ outbox'[c.wake].live
        <3>1. <<b, c.wake>> \notin lapsed
            BY <1>4, <2>3
        <3>2. Holds(outbox[c.wake], b, "sending") /\ outbox[c.wake].live /\ c.wake \in DOMAIN outbox
            BY <2>1, <3>1 DEF Inv, WakeInv
        <3>3. outbox'[c.wake] = outbox[c.wake]
            BY <1>4, <3>2 DEF Holds
        <3> QED BY <3>2, <3>3
    <2> QED BY <2>2, <2>3
<1> QED BY <1>2, <1>3, <1>4 DEF WakeInv

deliverRest == <<changes, events, jobs, member, matchers, owed, gaveUp, blocked>>

\* The worker turns to its next claim, having settled this one or left it.
LEMMA EndInv ==
    ASSUME Inv, NEW d \in Deliverers, NEW c \in deliverers[d].held, EndWake(d, c),
           \/ UNCHANGED outbox
           \/ \E state \in {"pending", "delivered", "failed"} : outbox' = Settled(d, c, state),
           UNCHANGED <<gatewayVars, deliverRest, leases>>, Fault \/ UNCHANGED faults
    PROVE  Inv'
<1>a. TypeOK /\ c.wake \in DOMAIN outbox
    BY DEF Inv, WakeInv
<1>0. outbox \in [DOMAIN outbox -> Row] /\ deliverers \in [Deliverers -> Deliverer]
    BY <1>a DEF TypeOK
<1>1. /\ SameRows /\ outbox' \in [DOMAIN outbox' -> Row]
      /\ \A w \in DOMAIN outbox :
           \/ outbox'[w] = outbox[w]
           \/ /\ w = c.wake /\ Holds(outbox[w], d, "sending")
              /\ ~ outbox'[w].live /\ outbox'[w].state # "sending"
    <2>1. CASE UNCHANGED outbox
        BY <1>0, <2>1 DEF SameRows
    <2>2. CASE \E state \in {"pending", "delivered", "failed"} : outbox' = Settled(d, c, state)
        BY <1>a, <2>2, SettledFacts
    <2> QED BY <2>1, <2>2
<1> DEFINE h == deliverers[d].held \ {c}
           x == [IdleDeliverer EXCEPT !.held = h]
<1>2. h \in SUBSET Held
    BY <1>0 DEF Deliverer
<1>3. deliverers' = [deliverers EXCEPT ![d] = x] /\ lapsed' = lapsed \ {<<d, c.wake>>}
    BY DEF EndWake
<1>4. \A b \in h : b \in deliverers[d].held /\ b.wake # c.wake
    BY DEF Inv, WakeInv
<1> HIDE DEF h
<1>5. x \in Deliverer /\ x.pc = "idle" /\ x.held = h /\ x.cur = None /\ x.reply = None
    BY <1>2, FreshTypes DEF Deliverer
<1> HIDE DEF x
<1>6. /\ deliverers' \in [Deliverers -> Deliverer] /\ deliverers'[d] = x
      /\ \A b \in Deliverers \ {d} : deliverers'[b] = deliverers[b]
    BY <1>0, <1>3, <1>5
<1>7. UNCHANGED <<changes, events, jobs, member, matchers, owed, gaveUp, blocked>>
    BY DEF deliverRest
<1>8. UNCHANGED <<installation, delegation, grants, reserved, quota, tasks, confirmed, repeated, invalid>>
    BY DEF gatewayVars
<1>9. TypeOK'
    <2>1. DOMAIN outbox' \subseteq Wakes
        BY <1>1 DEF SameRows, Inv, TypeOK
    <2>2. lapsed' \subseteq (Matchers \X Events) \cup (Deliverers \X Wakes)
        BY <1>a, <1>3 DEF TypeOK
    <2>3. faults' \in Nat
        BY <1>a, FaultType
    <2> QED BY <1>a, <1>1, <1>6, <1>7, <1>8, <2>1, <2>2, <2>3 DEF TypeOK
<1>10. JobInv' /\ WakeInv'
    <2>1. \A y \in lapsed : y \in lapsed' \/ (y[1] = d /\ \A b \in h : y # <<d, b.wake>>)
        BY <1>3, <1>4
    <2> QED BY <1>1, <1>4, <1>5, <1>6, <1>7, <2>1, WorkerClaims
<1>11. GateInv' /\ LeaseInv' /\ MatchInv' /\ NoLostWake'
    BY <1>1, <1>7, <1>8, MatchFrame DEF MatchVars
<1>12. DelivererInv'
    <2>1. None # "gone"
        BY DeliveryAssumption DEF Replies
    <2> QED BY <1>5, <1>6, <1>8, <2>1 DEF Inv, DelivererInv
<1>13. DisabledInv' /\ GrantInv' /\ SendInv'
    BY <1>1, <1>7, <1>8, DisabledFrame, GrantFrame, SendFrame DEF SameRows, Useless
<1> QED BY <1>9, <1>10, <1>11, <1>12, <1>13 DEF Inv

\* The worker goes on with its claim.
LEMMA AdvanceFacts ==
    ASSUME Inv, NEW d \in Deliverers, NEW pc \in {"final", "send", "wait", "fail"}, Advance(d, pc),
           deliverers[d].pc # "idle", UNCHANGED <<jobs, matchers, invalid>>
    PROVE  /\ deliverers' \in [Deliverers -> Deliverer] /\ UNCHANGED <<outbox, lapsed>>
           /\ JobInv' /\ WakeInv' /\ DelivererInv'
<1>1. deliverers \in [Deliverers -> Deliverer] /\ deliverers[d] \in Deliverer
    BY DEF Inv, TypeOK
<1>2. deliverers' = [deliverers EXCEPT ![d] = [deliverers[d] EXCEPT !.pc = pc]] /\ UNCHANGED <<outbox, lapsed>>
    BY <1>1 DEF Advance
<1>3. /\ deliverers' \in [Deliverers -> Deliverer]
      /\ deliverers'[d].pc = pc /\ deliverers'[d].held = deliverers[d].held
      /\ deliverers'[d].cur = deliverers[d].cur /\ deliverers'[d].reply = deliverers[d].reply
      /\ \A b \in Deliverers \ {d} : deliverers'[b] = deliverers[b]
    BY <1>1, <1>2 DEF Deliverer
<1>4. JobInv' /\ WakeInv'
    <2>1. \A b \in Deliverers : deliverers'[b].held = deliverers[b].held
        BY <1>3
    <2> QED BY <1>2, <2>1, JobFrame, WakeFrame
<1>5. DelivererInv'
    BY <1>3 DEF Inv, DelivererInv
<1> QED BY <1>2, <1>3, <1>4, <1>5

LEMMA AdvanceInv ==
    ASSUME Inv, NEW d \in Deliverers, NEW pc \in {"final", "send", "wait", "fail"}, Advance(d, pc),
           deliverers[d].pc # "idle", UNCHANGED <<gatewayVars, deliverRest, leases, faults>>
    PROVE  Inv'
<1>1. /\ UNCHANGED <<changes, events, jobs, member, matchers, owed, gaveUp, blocked>>
      /\ UNCHANGED <<installation, delegation, grants, reserved, quota, tasks, confirmed, repeated, invalid>>
    BY DEF deliverRest, gatewayVars
<1>2. /\ deliverers' \in [Deliverers -> Deliverer] /\ UNCHANGED <<outbox, lapsed>>
      /\ JobInv' /\ WakeInv' /\ DelivererInv'
    BY <1>1, AdvanceFacts
<1>3. TypeOK'
    BY <1>1, <1>2 DEF Inv, TypeOK
<1>4. GateInv' /\ LeaseInv' /\ MatchInv' /\ NoLostWake'
    BY <1>1, <1>2, MatchFrame DEF MatchVars, SameRows
<1>5. DisabledInv' /\ GrantInv' /\ SendInv'
    BY <1>1, <1>2, DisabledFrame, GrantFrame, SendFrame DEF Useless
<1> QED BY <1>2, <1>3, <1>4, <1>5 DEF Inv

\* claim_due_wakes takes rows that no unexpired claim is on.
LEMMA ClaimWakesInv ==
    ASSUME Inv, NEW d \in Deliverers, ClaimWakes(d)
    PROVE  Inv'
<1>a. TypeOK
    BY DEF Inv
<1>0. outbox \in [DOMAIN outbox -> Row] /\ deliverers \in [Deliverers -> Deliverer]
      /\ DOMAIN outbox \subseteq Wakes
    BY <1>a DEF TypeOK
<1>1. PICK batch \in SUBSET DOMAIN outbox :
        /\ \A w \in batch : Claimable(outbox[w], "sending")
        /\ outbox' = [w \in DOMAIN outbox |->
                 IF w \in batch THEN Claim(outbox[w], d, "sending") ELSE outbox[w]]
        /\ deliverers' = [deliverers EXCEPT ![d].held =
                 {[wake |-> w, attempt |-> outbox[w].attempts + 1] : w \in batch}]
    BY DEF ClaimWakes
<1> DEFINE h == {[wake |-> w, attempt |-> outbox[w].attempts + 1] : w \in batch}
           x == [deliverers[d] EXCEPT !.held = h]
<1>2. /\ h \in SUBSET Held /\ \A c \in h : c.wake \in batch
      /\ \A b, c \in h : b.wake = c.wake => b = c
    <2>1. \A w \in batch : w \in Wakes /\ outbox[w].attempts + 1 \in Nat
        BY <1>0, <1>1 DEF Row
    <2> QED BY <2>1 DEF Held
<1>3. /\ deliverers[d].pc = "idle" /\ deliverers' = [deliverers EXCEPT ![d] = x]
      /\ UNCHANGED <<installation, delegation, grants, reserved, quota, tasks, confirmed, repeated, invalid>>
      /\ UNCHANGED <<changes, leases, events, jobs, member, matchers, faults>>
      /\ UNCHANGED <<owed, gaveUp, lapsed, blocked>>
    BY <1>0, <1>1 DEF ClaimWakes, gatewayVars, historyVars
<1> HIDE DEF h
<1>4. x \in Deliverer /\ x.pc = "idle" /\ x.held = h /\ x.cur = deliverers[d].cur
      /\ x.reply = deliverers[d].reply
    BY <1>0, <1>2, <1>3 DEF Deliverer
<1> HIDE DEF x
<1>5. /\ deliverers' \in [Deliverers -> Deliverer] /\ deliverers'[d] = x
      /\ \A b \in Deliverers \ {d} : deliverers'[b] = deliverers[b]
    BY <1>0, <1>3, <1>4
<1>6. /\ SameRows /\ outbox' \in [DOMAIN outbox' -> Row]
      /\ \A w \in batch : Holds(outbox'[w], d, "sending") /\ outbox'[w].live
      /\ \A w \in DOMAIN outbox \ batch : outbox'[w] = outbox[w]
    <2>1. DOMAIN outbox' = DOMAIN outbox
        BY <1>1
    <2>2. /\ \A w \in batch : outbox'[w] = Claim(outbox[w], d, "sending") /\ outbox[w] \in Row
          /\ \A w \in DOMAIN outbox \ batch : outbox'[w] = outbox[w]
        BY <1>0, <1>1
    <2>3. \A w \in batch : /\ outbox'[w] \in Row /\ Holds(outbox'[w], d, "sending")
                           /\ outbox'[w].live /\ outbox'[w].gen = outbox[w].gen
                           /\ outbox'[w].install = outbox[w].install
        BY <2>2, ClaimTypes
    <2>4. \A w \in DOMAIN outbox : outbox'[w] \in Row
        BY <1>0, <2>2, <2>3
    <2>5. outbox' = [w \in DOMAIN outbox' |-> outbox'[w]]
        BY <1>1
    <2>6. outbox' \in [DOMAIN outbox' -> Row]
        BY <2>1, <2>4, <2>5
    <2> QED BY <2>1, <2>2, <2>3, <2>6 DEF SameRows
<1>7. TypeOK'
    <2>1. DOMAIN outbox' \subseteq Wakes
        BY <1>0, <1>6 DEF SameRows
    <2> QED BY <1>a, <1>3, <1>5, <1>6, <2>1 DEF TypeOK
<1>8. WakeInv'
    <2>1. /\ \A w \in DOMAIN outbox' : outbox'[w].live => outbox'[w].state = "sending"
          /\ \A w \in DOMAIN outbox' : outbox'[w].state = "sending" => outbox'[w].by # None
        BY SMTT(40), <1>1, <1>6, DeliveryAssumption DEF Inv, WakeInv, SameRows, Holds
    <2>2. ASSUME NEW b \in Deliverers, NEW c \in deliverers'[b].held
          PROVE  /\ c.wake \in DOMAIN outbox'
                 /\ \A a \in deliverers'[b].held : a.wake = c.wake => a = c
                 /\ <<b, c.wake>> \notin lapsed'
                       => Holds(outbox'[c.wake], b, "sending") /\ outbox'[c.wake].live
        <3>1. CASE b = d
            BY <1>1, <1>2, <1>4, <1>5, <1>6, <2>2, <3>1 DEF SameRows
        <3>2. CASE b # d
            <4>1. c \in deliverers[b].held /\ deliverers'[b] = deliverers[b]
                BY <1>5, <2>2, <3>2
            <4>2. ASSUME <<b, c.wake>> \notin lapsed
                  PROVE  Holds(outbox'[c.wake], b, "sending") /\ outbox'[c.wake].live
                <5>1. Holds(outbox[c.wake], b, "sending") /\ outbox[c.wake].live
                      /\ c.wake \in DOMAIN outbox
                    BY <4>1, <4>2 DEF Inv, WakeInv
                <5>2. c.wake \notin batch
                    BY <1>1, <5>1 DEF Claimable, Holds
                <5> QED BY <1>6, <5>1, <5>2
            <4> QED BY <1>3, <1>6, <4>1, <4>2 DEF Inv, WakeInv, SameRows
        <3> QED BY <3>1, <3>2
    <2> QED BY <2>1, <2>2 DEF WakeInv
<1>9. JobInv'
    BY <1>3, JobFrame
<1>10. GateInv' /\ LeaseInv' /\ MatchInv' /\ NoLostWake'
    BY <1>3, <1>6, MatchFrame DEF MatchVars
<1>11. DelivererInv'
    BY <1>3, <1>4, <1>5 DEF Inv, DelivererInv
<1>12. DisabledInv' /\ GrantInv' /\ SendInv'
    BY <1>3, <1>6, DisabledFrame, GrantFrame, SendFrame DEF SameRows, Useless
<1> QED BY <1>7, <1>8, <1>9, <1>10, <1>11, <1>12 DEF Inv

\* What the worker's steps leave alone.
LEMMA DeliverRest ==
    ASSUME UNCHANGED deliverUnchanged
    PROVE  UNCHANGED <<deliverRest, leases>>
BY DEF deliverUnchanged, deliverRest

LEMMA StartWakeInv ==
    ASSUME Inv, NEW d \in Deliverers, StartWake(d)
    PROVE  Inv'
<1>1. PICK c \in deliverers[d].held :
          \/ /\ deliverers' = [deliverers EXCEPT ![d].pc = "member", ![d].cur = c]
             /\ UNCHANGED <<outbox, lapsed>>
          \/ SettleWake(d, c, "failed")
    BY DEF StartWake
<1>2. UNCHANGED <<gatewayVars, deliverRest, leases, faults>> /\ deliverers[d].pc = "idle"
    BY DeliverRest DEF StartWake
<1>3. CASE SettleWake(d, c, "failed")
    BY <1>2, <1>3, EndInv DEF SettleWake
<1>4. CASE /\ deliverers' = [deliverers EXCEPT ![d].pc = "member", ![d].cur = c]
           /\ UNCHANGED <<outbox, lapsed>>
    <2>1. deliverers \in [Deliverers -> Deliverer] /\ deliverers[d] \in Deliverer
        BY DEF Inv, TypeOK
    <2> DEFINE x == [deliverers[d] EXCEPT !.pc = "member", !.cur = c]
    <2>2. x \in Deliverer /\ x.pc = "member" /\ x.cur = c /\ x.held = deliverers[d].held
          /\ x.reply = deliverers[d].reply
        <3>1. c \in Held
            BY <2>1 DEF Deliverer
        <3> QED BY <2>1, <3>1 DEF Deliverer
    <2>3. deliverers' = [deliverers EXCEPT ![d] = x]
        BY <1>4, <2>1
    <2> HIDE DEF x
    <2>4. /\ deliverers' \in [Deliverers -> Deliverer] /\ deliverers'[d] = x
          /\ \A b \in Deliverers \ {d} : deliverers'[b] = deliverers[b]
        BY <2>1, <2>2, <2>3
    <2>5. /\ UNCHANGED <<changes, events, jobs, member, matchers, owed, gaveUp, blocked>>
          /\ UNCHANGED <<installation, delegation, grants, reserved, quota, tasks, confirmed, repeated, invalid>>
          /\ UNCHANGED <<leases, faults, outbox, lapsed>>
        BY <1>2, <1>4 DEF deliverRest, gatewayVars
    <2>6. TypeOK'
        BY <2>4, <2>5 DEF Inv, TypeOK
    <2>7. GateInv' /\ LeaseInv' /\ MatchInv' /\ NoLostWake'
        BY <2>5, MatchFrame DEF MatchVars, SameRows
    <2>8. JobInv' /\ WakeInv'
        <3>1. \A b \in Deliverers : deliverers'[b].held = deliverers[b].held
            BY <2>2, <2>4
        <3> QED BY <2>5, <3>1, JobFrame, WakeFrame
    <2>9. DelivererInv'
        <3>1. None # "gone" /\ deliverers[d].reply = None
            BY <1>2, DeliveryAssumption DEF Replies, Inv, DelivererInv
        <3> QED BY <1>1, <2>2, <2>4, <2>5, <3>1 DEF Inv, DelivererInv
    <2>10. DisabledInv' /\ GrantInv' /\ SendInv'
        BY <2>5, DisabledFrame, GrantFrame, SendFrame DEF Useless
    <2> QED BY <2>6, <2>7, <2>8, <2>9, <2>10 DEF Inv
<1> QED BY <1>1, <1>3, <1>4

\* The steps on the claim the worker is at, but for the request and its answer.
LEMMA CurrentInv ==
    ASSUME Inv, NEW d \in Deliverers,
           \/ CheckMember(d) \/ FinalRevalidate(d) \/ ServingRefused(d) \/ Timeout(d)
           \/ HandleReply(d) \/ FailGone(d) \/ AbandonWake(d)
    PROVE  Inv'
<1> DEFINE c == deliverers[d].cur
<1>1. deliverers[d].pc # "idle" /\ c \in deliverers[d].held
    BY DEF Inv, DelivererInv, CheckMember, FinalRevalidate, ServingRefused, Timeout, HandleReply,
           FailGone, AbandonWake
<1>2. UNCHANGED <<gatewayVars, deliverRest, leases>> /\ (Fault \/ UNCHANGED faults)
    BY DeliverRest DEF CheckMember, FinalRevalidate, ServingRefused, Timeout, HandleReply,
           FailGone, AbandonWake
<1>3. \/ \E pc \in {"final", "send"} : Advance(d, pc) /\ UNCHANGED faults
      \/ \E state \in {"pending", "delivered", "failed"} : SettleWake(d, c, state)
      \/ EndWake(d, c) /\ UNCHANGED outbox
    <2>1. CASE CheckMember(d)
        BY <2>1 DEF CheckMember
    <2>2. CASE FinalRevalidate(d)
        BY <2>2 DEF FinalRevalidate
    <2>3. CASE ServingRefused(d) \/ FailGone(d)
        BY <2>3 DEF ServingRefused, FailGone
    <2>4. CASE Timeout(d)
        BY <2>4 DEF Timeout, RetryOrFail
    <2>5. CASE HandleReply(d)
        <3>1. AnsweredState(c, deliverers[d].reply) \in {"pending", "delivered", "failed"}
            BY DEF AnsweredState, RetryOrFail
        <3> QED BY <2>5, <3>1 DEF HandleReply
    <2>6. CASE AbandonWake(d)
        BY <2>6 DEF AbandonWake
    <2> QED BY <2>1, <2>2, <2>3, <2>4, <2>5, <2>6
<1>4. CASE \E pc \in {"final", "send"} : Advance(d, pc) /\ UNCHANGED faults
    BY <1>1, <1>2, <1>4, AdvanceInv
<1>5. CASE \E state \in {"pending", "delivered", "failed"} : SettleWake(d, c, state)
    <2> HIDE DEF c
    <2> QED BY <1>1, <1>2, <1>5, EndInv DEF SettleWake
<1>6. CASE EndWake(d, c) /\ UNCHANGED outbox
    <2> HIDE DEF c
    <2> QED BY <1>1, <1>2, <1>6, EndInv
<1> QED BY <1>3, <1>4, <1>5, <1>6

\* The request goes out for a wake of the outbox.
LEMMA PostWakeInv ==
    ASSUME Inv, NEW d \in Deliverers, PostWake(d)
    PROVE  Inv'
<1> DEFINE c == deliverers[d].cur
           t == [wake |-> c.wake, attempt |-> c.attempt, grant |-> c.wake.grant,
                 phase |-> "posted", outcome |-> None]
<1>0. TypeOK /\ deliverers[d].pc # "idle" /\ c \in deliverers[d].held
    BY DEF Inv, DelivererInv, PostWake
<1>1. c.wake \in DOMAIN outbox /\ c.wake.grant \in grants /\ c \in Held /\ c.wake.grant \in Grants
    BY <1>0 DEF Inv, WakeInv, GrantInv, TypeOK, Deliverer
<1>2. /\ tasks' = tasks \cup {t} /\ Advance(d, "wait")
      /\ UNCHANGED <<installation, delegation, grants, reserved, quota, confirmed, repeated, invalid>>
      /\ UNCHANGED <<changes, leases, events, jobs, member, matchers, owed, gaveUp, blocked, faults>>
    BY DEF PostWake, authorityVars, deliverUnchanged
<1>3. t \in Task /\ t.phase = "posted" /\ t.wake = c.wake /\ t.grant = c.wake.grant
    BY <1>1 DEF Task, Held
<1> HIDE DEF c, t
<1>4. /\ deliverers' \in [Deliverers -> Deliverer] /\ UNCHANGED <<outbox, lapsed>>
      /\ JobInv' /\ WakeInv' /\ DelivererInv'
    BY <1>0, <1>2, AdvanceFacts
<1>5. TypeOK'
    BY <1>0, <1>2, <1>3, <1>4 DEF TypeOK
<1>6. GateInv' /\ LeaseInv' /\ MatchInv' /\ NoLostWake' /\ DisabledInv'
    BY <1>2, <1>4, MatchFrame, DisabledFrame DEF MatchVars, SameRows
<1>7. GrantInv'
    BY <1>1, <1>2, <1>3, <1>4 DEF Inv, GrantInv
<1>8. \A w : Expired(w)' <=> Expired(w)
    BY <1>2 DEF Expired, Useless
<1>9. OneSendPerRequest'
    BY <1>2, <1>3, <1>8 DEF Inv, SendInv, OneSendPerRequest
<1>10. SendInv'
    BY <1>2, <1>3, <1>8, <1>9 DEF Inv, SendInv, Retryable
<1> QED BY <1>4, <1>5, <1>6, <1>7, <1>10 DEF Inv
\* Leases that lose their eligibility, and nothing else.
LEMMA LeaseLoses ==
    ASSUME Inv, UNCHANGED <<events, jobs, member, matchers, owed, gaveUp, grants>>, SameRows,
           \A i \in Installs :
              /\ leases'[i].gen = leases[i].gen /\ leases'[i].active = leases[i].active
              /\ leases'[i].grant = leases[i].grant
              /\ Eligible(i)' => Eligible(i)
    PROVE  GateInv' /\ LeaseInv' /\ MatchInv' /\ NoLostWake'
<1>a. /\ \A w \in DOMAIN outbox : outbox[w].install \in Installs
      /\ \A e \in Events : \A x \in owed[e] : x[1] \in Installs
    BY DEF Inv, TypeOK, Row
<1>1. GateInv'
    BY DEF Inv, GateInv, SameRows, Committed, Batch
<1>2. LeaseInv'
    BY <1>a DEF Inv, LeaseInv, SameRows
<1>3. \A e \in Events, i \in Installs : /\ Owed(e, i)' => Owed(e, i)
                                        /\ WakeOf(e, i)' = WakeOf(e, i)
    BY DEF Owed, WakeOf
<1>4. MatchInv'
    <2>0. \A m \in Matchers : Batch(m)' = Batch(m) /\ Batch(m) \subseteq Events
        BY BatchType DEF Inv, Batch
    <2>1. \A e \in Events, i \in Installs :
          /\ <<i, leases'[i].gen>> \in owed'[e] /\ leases'[i].active
          /\ WakeOf(e, i)' \in DOMAIN outbox'
          => outbox'[WakeOf(e, i)'].gen = leases'[i].gen
        BY <1>3 DEF Inv, MatchInv, SameRows
    <2>2. \A m \in Matchers : matchers'[m].pc = "enqueue" =>
          \A e \in Batch(m)', i \in Installs :
             Owed(e, i)' => <<i, leases'[i].gen>> \in matchers'[m].leases
        BY <1>3, <2>0 DEF Inv, MatchInv
    <2>3. \A m \in Matchers : matchers'[m].pc = "settle" =>
          \A e \in Batch(m)' \ matchers'[m].failed, i \in Installs :
             Owed(e, i)' /\ events'[e] \in {"recent", "old"} => WakeOf(e, i)' \in DOMAIN outbox'
        BY <1>3, <2>0 DEF Inv, MatchInv, SameRows
    <2> QED BY <2>1, <2>2, <2>3 DEF MatchInv
<1>5. NoLostWake'
    BY DEF Inv, NoLostWake, SameRows
<1> QED BY <1>1, <1>2, <1>4, <1>5

\* disable_endpoint_generation hits the lease whose endpoint was refused.
LEMMA DisableInv ==
    ASSUME Inv, NEW d \in Deliverers, DisableEndpoint(d)
    PROVE  Inv'
<1> DEFINE c == deliverers[d].cur
           i == outbox[c.wake].install
<1>0. /\ TypeOK /\ deliverers[d].pc # "idle" /\ c \in deliverers[d].held
      /\ c.wake.grant \in invalid
    BY DEF Inv, DelivererInv, DisableEndpoint
<1>1. /\ c.wake \in DOMAIN outbox /\ i \in Installs
      /\ leases \in [Installs -> Lease] /\ leases[i] \in Lease
    BY <1>0 DEF Inv, WakeInv, TypeOK, Row
<1>2. /\ leases' = leases \/ (/\ leases' = [leases EXCEPT ![i].enabled = FALSE]
                              /\ c.wake.grant.gen = outbox[c.wake].gen
                              /\ leases[i].gen = outbox[c.wake].gen)
      /\ Advance(d, "fail")
      /\ UNCHANGED <<installation, delegation, grants, reserved, quota, tasks, confirmed, repeated, invalid>>
      /\ UNCHANGED <<changes, events, jobs, member, matchers, owed, gaveUp, blocked, faults>>
    BY DEF DisableEndpoint, gatewayVars
<1>3. leases[i].gen = outbox[c.wake].gen => leases[i].grant = c.wake.grant
    BY <1>1 DEF Inv, LeaseInv
<1> HIDE DEF c, i
<1>4. /\ deliverers' \in [Deliverers -> Deliverer] /\ UNCHANGED <<outbox, lapsed>>
      /\ JobInv' /\ WakeInv' /\ DelivererInv'
    BY <1>0, <1>2, AdvanceFacts
<1>5. /\ leases' \in [Installs -> Lease]
      /\ \A j \in Installs :
            /\ leases'[j].gen = leases[j].gen /\ leases'[j].active = leases[j].active
            /\ leases'[j].grant = leases[j].grant /\ leases'[j].expired = leases[j].expired
            /\ leases'[j].enabled = leases[j].enabled
               \/ (j = i /\ ~ leases'[j].enabled /\ c.wake.grant.gen = leases[i].gen
                   /\ leases[i].grant = c.wake.grant)
    <2>1. CASE leases' = leases
        BY <1>1, <2>1
    <2>2. CASE leases' # leases
        <3> DEFINE l == [leases[i] EXCEPT !.enabled = FALSE]
        <3>1. l \in Lease /\ l.gen = leases[i].gen /\ l.active = leases[i].active
              /\ l.grant = leases[i].grant /\ l.expired = leases[i].expired /\ ~ l.enabled
            BY <1>1 DEF Lease
        <3>2. leases' = [leases EXCEPT ![i] = l]
            BY <1>1, <1>2, <2>2
        <3> HIDE DEF l
        <3> QED BY <1>1, <1>2, <1>3, <2>2, <3>1, <3>2
    <2> QED BY <2>1, <2>2
<1>6. \A j \in Installs : Eligible(j)' => Eligible(j)
    BY <1>5 DEF Eligible
<1>7. TypeOK'
    BY <1>0, <1>2, <1>4, <1>5 DEF TypeOK
<1>8. GateInv' /\ LeaseInv' /\ MatchInv' /\ NoLostWake'
    BY <1>2, <1>4, <1>5, <1>6, LeaseLoses DEF SameRows
<1>9. DisabledInv'
    <2> SUFFICES ASSUME NEW j \in Installs, leases'[j].active, ~ leases'[j].enabled
                 PROVE  leases'[j].grant \in invalid' /\ leases'[j].grant.gen = leases'[j].gen
        BY DEF DisabledInv, DisabledWasInvalid
    <2>1. CASE leases'[j].enabled = leases[j].enabled
        BY <1>2, <1>5, <2>1 DEF Inv, DisabledInv, DisabledWasInvalid
    <2>2. CASE leases'[j].enabled # leases[j].enabled
        BY <1>0, <1>2, <1>5, <2>2
    <2> QED BY <2>1, <2>2
<1>10. GrantInv' /\ SendInv'
    BY <1>2, <1>4, GrantFrame, SendFrame DEF Useless
<1> QED BY <1>4, <1>7, <1>8, <1>9, <1>10 DEF Inv

LEMMA DelivererCrashInv ==
    ASSUME Inv, NEW d \in Deliverers, DelivererCrash(d)
    PROVE  Inv'
<1>0. TypeOK /\ deliverers \in [Deliverers -> Deliverer]
    BY DEF Inv, TypeOK
<1>1. /\ deliverers' = [deliverers EXCEPT ![d] = IdleDeliverer] /\ Fault
      /\ lapsed' = {x \in lapsed : x[1] # d} /\ UNCHANGED outbox
      /\ UNCHANGED <<installation, delegation, grants, reserved, quota, tasks, confirmed, repeated, invalid>>
      /\ UNCHANGED <<changes, leases, events, jobs, member, matchers, owed, gaveUp, blocked>>
    BY DEF DelivererCrash, gatewayVars, deliverUnchanged
<1>2. /\ deliverers' \in [Deliverers -> Deliverer] /\ deliverers'[d] = IdleDeliverer
      /\ \A b \in Deliverers \ {d} : deliverers'[b] = deliverers[b]
    BY <1>0, <1>1, FreshTypes
<1>3. TypeOK'
    <2>1. lapsed' \subseteq lapsed /\ faults' \in Nat
        BY <1>0, <1>1, FaultType
    <2> QED BY <1>0, <1>1, <1>2, <2>1 DEF TypeOK
<1>4. JobInv' /\ WakeInv'
    <2>1. deliverers'[d].held = {}
        BY <1>2, FreshTypes
    <2>2. \A x \in lapsed : x \in lapsed' \/ x[1] = d
        BY <1>1
    <2> QED BY <1>1, <1>2, <2>1, <2>2, WorkerClaims DEF SameRows
<1>5. GateInv' /\ LeaseInv' /\ MatchInv' /\ NoLostWake'
    BY <1>1, MatchFrame DEF MatchVars, SameRows
<1>6. DelivererInv'
    <2>1. None # "gone"
        BY DeliveryAssumption DEF Replies
    <2> QED BY <1>1, <1>2, <2>1, FreshTypes DEF Inv, DelivererInv
<1>7. DisabledInv' /\ GrantInv' /\ SendInv'
    BY <1>1, DisabledFrame, GrantFrame, SendFrame DEF Useless
<1> QED BY <1>3, <1>4, <1>5, <1>6, <1>7 DEF Inv

\* A claim runs out; its worker, if it still holds it, is on record as late.
LEMMA ExpireWakeClaimInv ==
    ASSUME Inv, NEW w \in DOMAIN outbox, ExpireWakeClaim(w)
    PROVE  Inv'
<1>0. TypeOK /\ outbox \in [DOMAIN outbox -> Row] /\ DOMAIN outbox \subseteq Wakes
    BY DEF Inv, TypeOK
<1>1. /\ outbox[w].live /\ outbox' = [outbox EXCEPT ![w].live = FALSE]
      /\ lapsed \subseteq lapsed' /\ lapsed' \subseteq lapsed \cup {<<outbox[w].by, w>>}
      /\ (\E c \in deliverers[outbox[w].by].held : c.wake = w) => <<outbox[w].by, w>> \in lapsed'
      /\ Fault \/ UNCHANGED faults
      /\ UNCHANGED <<installation, delegation, grants, reserved, quota, tasks, confirmed, repeated, invalid>>
      /\ UNCHANGED <<changes, leases, events, jobs, member, matchers, owed, gaveUp, blocked, deliverers>>
    BY DEF ExpireWakeClaim, gatewayVars, deliverUnchanged
<1>2. outbox[w].by \in Deliverers
    BY <1>0, <1>1 DEF Inv, WakeInv, Row
<1> DEFINE r == [outbox[w] EXCEPT !.live = FALSE]
<1>3. /\ r \in Row /\ ~ r.live /\ r.state = outbox[w].state /\ r.by = outbox[w].by
      /\ r.gen = outbox[w].gen /\ r.install = outbox[w].install
    BY <1>0 DEF Row
<1>4. outbox' = [outbox EXCEPT ![w] = r]
    BY <1>0, <1>1
<1> HIDE DEF r
<1>5. /\ outbox' \in [DOMAIN outbox' -> Row] /\ SameRows /\ outbox'[w] = r
      /\ \A v \in DOMAIN outbox \ {w} : outbox'[v] = outbox[v]
    BY <1>0, <1>3, <1>4 DEF SameRows
<1>6. TypeOK'
    <2>1. DOMAIN outbox' \subseteq Wakes
        BY <1>0, <1>5 DEF SameRows
    <2>2. lapsed' \subseteq (Matchers \X Events) \cup (Deliverers \X Wakes)
        BY <1>0, <1>1, <1>2 DEF TypeOK
    <2>3. faults' \in Nat
        BY <1>0, <1>1, FaultType
    <2> QED BY <1>0, <1>1, <1>5, <2>1, <2>2, <2>3 DEF TypeOK
<1>7. JobInv'
    BY <1>1, JobFrame
<1>8. WakeInv'
    <2>1. /\ \A v \in DOMAIN outbox' : outbox'[v].live => outbox'[v].state = "sending"
          /\ \A v \in DOMAIN outbox' : outbox'[v].state = "sending" => outbox'[v].by # None
        BY <1>3, <1>5 DEF Inv, WakeInv, SameRows
    <2>2. ASSUME NEW b \in Deliverers, NEW c \in deliverers'[b].held
          PROVE  /\ c.wake \in DOMAIN outbox'
                 /\ \A a \in deliverers'[b].held : a.wake = c.wake => a = c
                 /\ <<b, c.wake>> \notin lapsed'
                       => Holds(outbox'[c.wake], b, "sending") /\ outbox'[c.wake].live
        <3>1. c \in deliverers[b].held /\ c.wake \in DOMAIN outbox'
            BY <1>1, <1>5, <2>2 DEF Inv, WakeInv, SameRows
        <3>2. ASSUME <<b, c.wake>> \notin lapsed'
              PROVE  Holds(outbox'[c.wake], b, "sending") /\ outbox'[c.wake].live
            <4>1. Holds(outbox[c.wake], b, "sending") /\ outbox[c.wake].live /\ c.wake \in DOMAIN outbox
                BY <1>1, <3>1, <3>2 DEF Inv, WakeInv
            <4>2. c.wake # w
                BY <1>1, <3>1, <3>2, <4>1 DEF Holds
            <4> QED BY <1>5, <4>1, <4>2
        <3> QED BY <1>1, <3>1, <3>2 DEF Inv, WakeInv
    <2> QED BY <2>1, <2>2 DEF WakeInv
<1>9. GateInv' /\ LeaseInv' /\ MatchInv' /\ NoLostWake'
    BY <1>1, <1>5, MatchFrame DEF MatchVars
<1>10. DelivererInv' /\ DisabledInv' /\ GrantInv' /\ SendInv'
    BY <1>1, <1>5, DelivererFrame, DisabledFrame, GrantFrame, SendFrame DEF SameRows, Useless
<1> QED BY <1>6, <1>7, <1>8, <1>9, <1>10 DEF Inv

LEMMA DelivererStepInv ==
    ASSUME Inv, NEW d \in Deliverers, DelivererStep(d) \/ AbandonWake(d) \/ DelivererCrash(d)
    PROVE  Inv'
BY ClaimWakesInv, StartWakeInv, CurrentInv, PostWakeInv, DisableInv, DelivererCrashInv
   DEF DelivererStep
-----------------------------------------------------------------------------
(***************************************************************************)
(* The matchers.                                                           *)
(***************************************************************************)
\* What does not touch the delivery side leaves its invariants.
LEMMA DeliveryFrame ==
    ASSUME Inv, UNCHANGED gatewayVars, UNCHANGED <<leases, outbox, deliverers>>,
           \A d \in Deliverers, w \in Wakes : <<d, w>> \in lapsed => <<d, w>> \in lapsed',
           \A e \in Events : Useless(e) => Useless(e)'
    PROVE  WakeInv' /\ DelivererInv' /\ DisabledInv' /\ GrantInv' /\ SendInv'
BY WakeFrame, DelivererFrame, DisabledFrame, GrantFrame, SendFrame DEF gatewayVars

\* A matcher takes a step that claims nothing, and others keep what they are at.
LEMMA MatcherClaims ==
    ASSUME Inv, NEW m \in Matchers, UNCHANGED <<leases, events, owed, outbox>>,
           \A k \in Matchers \ {m} : matchers'[k] = matchers[k],
           Batch(m)' \subseteq Batch(m), matchers'[m].pc = "idle" => Batch(m)' = {},
           \A e \in Events :
              \/ jobs'[e] = jobs[e]
              \/ /\ Holds(jobs[e], m, "matching") /\ e \notin Batch(m)'
                 /\ ~ jobs'[e].live /\ jobs'[e].state # "matching",
           \A x \in lapsed : \/ x \in lapsed'
                             \/ x[1] = m /\ \A e \in Batch(m)' : x # <<m, e>>
    PROVE  /\ GateInv' /\ JobInv'
           /\ \A d \in Deliverers, w \in Wakes : <<d, w>> \in lapsed => <<d, w>> \in lapsed'
<1>0. \A k \in Matchers : Batch(k)' \subseteq Batch(k) /\ Batch(k) \subseteq Events
    BY BatchType DEF Inv, Batch
<1>1. \A d \in Deliverers, w \in Wakes : <<d, w>> \in lapsed => <<d, w>> \in lapsed'
    BY DeliveryAssumption
<1>2. GateInv'
    <2>1. \A e \in Events : ~ Committed(e) => jobs[e].state = "none"
        BY DEF Inv, GateInv
    <2>2. \A e \in Events : ~ Committed(e) => jobs'[e] = jobs[e]
        BY <2>1 DEF Holds
    <2> QED BY <1>0, <2>2 DEF Inv, GateInv, Committed, Eligible
<1>3. JobInv'
    <2>1. /\ \A e \in Events : jobs'[e].live => jobs'[e].state = "matching"
          /\ \A e \in Events : jobs'[e].state = "matching" => jobs'[e].by # None
          /\ \A k \in Matchers : matchers'[k].pc = "idle" => Batch(k)' = {}
        BY DEF Inv, JobInv, Batch
    <2>2. ASSUME NEW k \in Matchers, NEW e \in Batch(k)', <<k, e>> \notin lapsed'
          PROVE  Holds(jobs'[e], k, "matching") /\ jobs'[e].live
        <3>1. e \in Batch(k) /\ e \in Events /\ <<k, e>> \notin lapsed
            BY <1>0, <2>2
        <3>2. Holds(jobs[e], k, "matching") /\ jobs[e].live
            BY <3>1 DEF Inv, JobInv
        <3>3. jobs'[e] = jobs[e]
            BY <2>2, <3>1, <3>2 DEF Holds
        <3> QED BY <3>2, <3>3
    <2> QED BY <2>1, <2>2 DEF JobInv
<1> QED BY <1>1, <1>2, <1>3

\* claim_due_match_batch takes jobs that no unexpired claim is on.
LEMMA ClaimMatchesInv ==
    ASSUME Inv, NEW m \in Matchers, ClaimMatches(m)
    PROVE  Inv'
<1>0. TypeOK /\ jobs \in [Events -> Job] /\ matchers \in [Matchers -> Matcher]
      /\ MaxMatchAttempts \in Nat
    BY DeliveryAssumption DEF Inv, TypeOK
<1>1. PICK batch \in SUBSET Events :
        /\ \A e \in batch : Claimable(jobs[e], "matching") /\ jobs[e].attempts < MaxMatchAttempts
        /\ jobs' = [e \in Events |-> IF e \in batch THEN Claim(jobs[e], m, "matching") ELSE jobs[e]]
        /\ matchers' = [matchers EXCEPT ![m].pc = "load",
                                        ![m].claimed = [e \in batch |-> jobs[e].attempts + 1]]
    BY DEF ClaimMatches
<1> DEFINE f == [e \in batch |-> jobs[e].attempts + 1]
           x == [matchers[m] EXCEPT !.pc = "load", !.claimed = f]
<1>2. f \in [batch -> 1..MaxMatchAttempts] /\ DOMAIN f = batch
    <2>1. \A e \in batch : jobs[e].attempts + 1 \in 1..MaxMatchAttempts
        BY <1>0, <1>1 DEF Job
    <2> QED BY <2>1
<1>3. /\ matchers' = [matchers EXCEPT ![m] = x] /\ UNCHANGED gatewayVars
      /\ UNCHANGED <<changes, leases, events, outbox, member, deliverers, faults>>
      /\ UNCHANGED <<owed, gaveUp, lapsed, blocked>> /\ matchers[m].pc = "idle"
    BY <1>0, <1>1 DEF ClaimMatches, historyVars
<1> HIDE DEF f
<1>4. x \in Matcher /\ x.pc = "load" /\ x.claimed = f
    <2>1. f \in UNION {[b -> 1..MaxMatchAttempts] : b \in SUBSET Events}
        BY <1>2, ClaimedType
    <2> QED BY <1>0, <2>1 DEF Matcher
<1> HIDE DEF x
<1>5. /\ matchers' \in [Matchers -> Matcher] /\ matchers'[m] = x /\ Batch(m)' = batch
      /\ \A k \in Matchers \ {m} : matchers'[k] = matchers[k] /\ Batch(k)' = Batch(k)
    BY <1>0, <1>2, <1>3, <1>4 DEF Batch
<1>6. /\ jobs' \in [Events -> Job]
      /\ \A e \in batch : Holds(jobs'[e], m, "matching") /\ jobs'[e].live
      /\ \A e \in Events \ batch : jobs'[e] = jobs[e]
    <2>1. /\ \A e \in batch : jobs'[e] = Claim(jobs[e], m, "matching") /\ jobs[e] \in Job
          /\ \A e \in Events \ batch : jobs'[e] = jobs[e]
        BY <1>0, <1>1
    <2>2. \A e \in batch : jobs'[e] \in Job /\ Holds(jobs'[e], m, "matching") /\ jobs'[e].live
        BY <2>1, ClaimTypes
    <2>3. jobs' = [e \in Events |-> jobs'[e]] /\ \A e \in Events : jobs'[e] \in Job
        BY <1>0, <1>1, <2>1, <2>2
    <2>4. jobs' \in [Events -> Job]
        BY <2>3
    <2> QED BY <2>1, <2>2, <2>4
<1>7. TypeOK'
    BY <1>0, <1>3, <1>5, <1>6 DEF TypeOK, gatewayVars
<1>8. \A e \in batch : jobs[e].state # "none" /\ ~ jobs[e].live /\ Committed(e)
    BY <1>1 DEF Claimable, Inv, JobInv, GateInv
<1>9. GateInv'
    <2>1. \A k \in Matchers : \A e \in Batch(k)' : Committed(e)
        BY <1>5, <1>8 DEF Inv, GateInv
    <2>2. \A e \in Events : ~ Committed(e) => jobs'[e].state = "none"
        BY <1>6, <1>8 DEF Inv, GateInv
    <2> QED BY <1>3, <2>1, <2>2 DEF Inv, GateInv, Committed, Eligible
<1>10. LeaseInv'
    BY <1>3 DEF Inv, LeaseInv, gatewayVars
<1>11. MatchInv'
    BY <1>3, <1>4, <1>5 DEF Inv, MatchInv, Owed, WakeOf, Eligible
<1>12. NoLostWake'
    <2>1. \A e \in Events : jobs[e].state # "none" => jobs'[e].state # "none"
        BY <1>6 DEF Holds
    <2> QED BY <1>3, <2>1 DEF Inv, NoLostWake, Eligible
<1>13. JobInv'
    <2>1. /\ \A e \in Events : jobs'[e].live => jobs'[e].state = "matching"
          /\ \A e \in Events : jobs'[e].state = "matching" => jobs'[e].by # None
        BY <1>6, DeliveryAssumption DEF Inv, JobInv, Holds
    <2>2. ASSUME NEW k \in Matchers, NEW e \in Batch(k)', <<k, e>> \notin lapsed'
          PROVE  Holds(jobs'[e], k, "matching") /\ jobs'[e].live
        <3>1. CASE k = m
            BY <1>5, <1>6, <2>2, <3>1
        <3>2. CASE k # m
            <4>1. e \in Batch(k) /\ e \in Events
                BY <1>0, <1>5, <2>2, <3>2, BatchType
            <4>2. Holds(jobs[e], k, "matching") /\ jobs[e].live
                BY <1>3, <2>2, <4>1 DEF Inv, JobInv
            <4> QED BY <1>6, <1>8, <4>1, <4>2
        <3> QED BY <3>1, <3>2
    <2> QED BY <1>4, <1>5, <2>1, <2>2 DEF Inv, JobInv
<1>14. WakeInv' /\ DelivererInv' /\ DisabledInv' /\ GrantInv' /\ SendInv'
    BY <1>3, DeliveryFrame DEF Useless
<1> QED BY <1>7, <1>9, <1>10, <1>11, <1>12, <1>13, <1>14 DEF Inv
\* Only jobs of events that are gone are dropped when the batch is loaded.
LEMMA LoadEventsInv ==
    ASSUME Inv, NEW m \in Matchers, LoadEvents(m)
    PROVE  Inv'
<1> DEFINE found == {e \in Batch(m) : Live(e)}
           g == [e \in found |-> matchers[m].claimed[e]]
           y == [matchers[m] EXCEPT !.pc = "context", !.claimed = g]
           x == IF found = {} THEN IdleMatcher ELSE y
<1>0. /\ TypeOK /\ jobs \in [Events -> Job] /\ matchers \in [Matchers -> Matcher]
      /\ Batch(m) \subseteq Events /\ matchers[m].claimed \in [Batch(m) -> 1..MaxMatchAttempts]
    BY BatchType DEF Inv, TypeOK
<1>1. /\ jobs' = CompleteMatches(m, Batch(m) \ found, {})
      /\ matchers' = [matchers EXCEPT ![m] = x]
      /\ lapsed' = {c \in lapsed : c[1] = m => c[2] \in found}
      /\ UNCHANGED gatewayVars
      /\ UNCHANGED <<changes, leases, events, outbox, member, deliverers, faults>>
      /\ UNCHANGED <<owed, gaveUp, blocked>>
    BY <1>0 DEF LoadEvents
<1>2. g \in [found -> 1..MaxMatchAttempts] /\ DOMAIN g = found /\ found \subseteq Events
    BY <1>0
<1>3. found \subseteq Batch(m) /\ \A e \in Batch(m) \ found : ~ Live(e)
    OBVIOUS
<1> HIDE DEF found, g
<1>4. y \in Matcher /\ y.pc = "context" /\ DOMAIN y.claimed = found
    <2>1. g \in UNION {[b -> 1..MaxMatchAttempts] : b \in SUBSET Events}
        BY <1>2, ClaimedType
    <2> QED BY <1>0, <1>2, <2>1 DEF Matcher
<1> HIDE DEF y
<1>5. x \in Matcher /\ x.pc \in {"idle", "context"} /\ DOMAIN x.claimed = found
      /\ (x.pc = "idle" => found = {})
    BY <1>4, FreshTypes
<1> HIDE DEF x
<1>6. /\ matchers' \in [Matchers -> Matcher] /\ matchers'[m] = x /\ Batch(m)' = found
      /\ \A k \in Matchers \ {m} : matchers'[k] = matchers[k]
    BY <1>0, <1>1, <1>5 DEF Batch
<1>7. /\ jobs' \in [Events -> Job]
      /\ \A e \in Events :
            \/ jobs'[e] = jobs[e]
            \/ /\ Holds(jobs[e], m, "matching") /\ e \in Batch(m) \ found
               /\ jobs'[e].state = "none" /\ ~ jobs'[e].live
    BY <1>0, <1>1, CompleteFacts
<1>8. TypeOK'
    BY <1>0, <1>1, <1>6, <1>7 DEF TypeOK, gatewayVars
<1>9. /\ GateInv' /\ JobInv'
      /\ \A d \in Deliverers, w \in Wakes : <<d, w>> \in lapsed => <<d, w>> \in lapsed'
    <2>1. \A c \in lapsed : c \in lapsed' \/ (c[1] = m /\ \A e \in found : c # <<m, e>>)
        BY <1>1
    <2>2. /\ Batch(m)' \subseteq Batch(m) /\ (matchers'[m].pc = "idle" => Batch(m)' = {})
          /\ \A c \in lapsed : c \in lapsed' \/ (c[1] = m /\ \A e \in Batch(m)' : c # <<m, e>>)
        BY <1>3, <1>5, <1>6, <2>1
    <2>3. \A e \in Events :
            \/ jobs'[e] = jobs[e]
            \/ /\ Holds(jobs[e], m, "matching") /\ e \notin Batch(m)'
               /\ ~ jobs'[e].live /\ jobs'[e].state # "matching"
        BY <1>6, <1>7
    <2> QED BY <1>1, <1>6, <2>2, <2>3, MatcherClaims
<1>10. LeaseInv'
    BY <1>1 DEF Inv, LeaseInv, gatewayVars
<1>11. MatchInv'
    BY <1>1, <1>5, <1>6 DEF Inv, MatchInv, Owed, WakeOf, Eligible, Batch
<1>12. NoLostWake'
    BY ZenonT(60), <1>1, <1>3, <1>7 DEF Inv, NoLostWake, Eligible, Live
<1>13. WakeInv' /\ DelivererInv' /\ DisabledInv' /\ GrantInv' /\ SendInv'
    BY <1>1, <1>9, DeliveryFrame DEF Useless
<1> QED BY <1>8, <1>9, <1>10, <1>11, <1>12, <1>13 DEF Inv

\* The context is read after the claim, so that it has every lease owed.
LEMMA LoadContextInv ==
    ASSUME Inv, NEW m \in Matchers, LoadContext(m)
    PROVE  Inv'
<1> DEFINE ls == IF member THEN EligibleLeases ELSE {}
           x == [matchers[m] EXCEPT !.pc = "enqueue", !.leases = ls]
<1>0. /\ TypeOK /\ jobs \in [Events -> Job] /\ matchers \in [Matchers -> Matcher]
      /\ leases \in [Installs -> Lease]
    BY DEF Inv, TypeOK
<1>1. /\ matchers' = [matchers EXCEPT ![m] = x] /\ UNCHANGED gatewayVars
      /\ UNCHANGED <<changes, leases, events, jobs, outbox, member, deliverers, faults>>
      /\ UNCHANGED <<owed, gaveUp, lapsed, blocked>>
      /\ matchers[m].pc = "context"
    BY <1>0 DEF LoadContext, historyVars
<1>2. ls \in SUBSET (Installs \X Nat)
    <2>1. \A i \in Installs : leases[i].gen \in Nat
        BY <1>0 DEF Lease
    <2> QED BY <2>1 DEF EligibleLeases
<1>3. \A e \in Events, i \in Installs : Owed(e, i) => <<i, leases[i].gen>> \in ls
    BY DEF Owed, EligibleLeases
<1> HIDE DEF ls
<1>4. x \in Matcher /\ x.pc = "enqueue" /\ x.leases = ls /\ x.claimed = matchers[m].claimed
    BY <1>0, <1>2 DEF Matcher
<1> HIDE DEF x
<1>5. /\ matchers' \in [Matchers -> Matcher] /\ matchers'[m] = x /\ Batch(m)' = Batch(m)
      /\ \A k \in Matchers \ {m} : matchers'[k] = matchers[k]
    BY <1>0, <1>1, <1>4 DEF Batch
<1>6. TypeOK'
    BY <1>0, <1>1, <1>5 DEF TypeOK, gatewayVars
<1>7. GateInv' /\ JobInv'
    BY <1>1, <1>4, <1>5, MatcherClaims
<1>8. LeaseInv'
    BY <1>1 DEF Inv, LeaseInv, gatewayVars
<1>9. MatchInv'
    <2>0. \A k \in Matchers : Batch(k)' = Batch(k) /\ Batch(k) \subseteq Events
        BY <1>0, <1>5, BatchType DEF Batch
    <2>1. \A e \in Events, i \in Installs : /\ Owed(e, i)' <=> Owed(e, i)
                                            /\ WakeOf(e, i)' = WakeOf(e, i)
        BY <1>1 DEF Owed, WakeOf, Eligible
    <2>2. \A e \in Events, i \in Installs :
          /\ <<i, leases'[i].gen>> \in owed'[e] /\ leases'[i].active
          /\ WakeOf(e, i)' \in DOMAIN outbox'
          => outbox'[WakeOf(e, i)'].gen = leases'[i].gen
        BY <1>1, <2>1 DEF Inv, MatchInv
    <2>3. ASSUME NEW k \in Matchers, matchers'[k].pc = "enqueue",
                 NEW e \in Batch(k)', NEW i \in Installs, Owed(e, i)'
          PROVE  <<i, leases'[i].gen>> \in matchers'[k].leases
        <3>1. CASE k = m
            BY <1>1, <1>3, <1>4, <1>5, <2>0, <2>1, <2>3, <3>1
        <3>2. CASE k # m
            BY <1>1, <1>5, <2>0, <2>1, <2>3, <3>2 DEF Inv, MatchInv
        <3> QED BY <3>1, <3>2
    <2>4. \A k \in Matchers : matchers'[k].pc = "settle" =>
          \A e \in Batch(k)' \ matchers'[k].failed, i \in Installs :
             Owed(e, i)' /\ events'[e] \in {"recent", "old"} => WakeOf(e, i)' \in DOMAIN outbox'
        BY <1>1, <1>4, <1>5, <2>0, <2>1 DEF Inv, MatchInv
    <2> QED BY <2>2, <2>3, <2>4 DEF MatchInv
<1>10. NoLostWake'
    BY <1>1 DEF Inv, NoLostWake, Eligible
<1>11. WakeInv' /\ DelivererInv' /\ DisabledInv' /\ GrantInv' /\ SendInv'
    BY <1>1, DeliveryFrame DEF Useless
<1> QED BY <1>6, <1>7, <1>8, <1>9, <1>10, <1>11 DEF Inv

\* The matcher drops or gives back its batch.
LEMMA EndMatchInv ==
    ASSUME Inv, NEW m \in Matchers, ContextFails(m) \/ SettleMatches(m) \/ MatcherQuits(m)
    PROVE  Inv'
<1>0. /\ TypeOK /\ jobs \in [Events -> Job] /\ matchers \in [Matchers -> Matcher]
      /\ Batch(m) \subseteq Events
    BY BatchType DEF Inv, TypeOK
<1>1. /\ matchers' = [matchers EXCEPT ![m] = IdleMatcher] /\ UNCHANGED gatewayVars
      /\ lapsed' = {c \in lapsed : c[1] # m}
      /\ UNCHANGED <<changes, leases, events, outbox, member, deliverers, owed, blocked>>
      /\ Fault \/ UNCHANGED faults
    BY DEF ContextFails, SettleMatches, MatcherQuits, EndMatch
<1>2. /\ matchers' \in [Matchers -> Matcher] /\ matchers'[m] = IdleMatcher /\ Batch(m)' = {}
      /\ \A k \in Matchers \ {m} : matchers'[k] = matchers[k]
    BY <1>0, <1>1, FreshTypes DEF Batch
<1>3. /\ jobs' \in [Events -> Job]
      /\ \A e \in Events :
            \/ jobs'[e] = jobs[e]
            \/ /\ Holds(jobs[e], m, "matching")
               /\ ~ jobs'[e].live /\ jobs'[e].state # "matching"
    <2>1. CASE UNCHANGED jobs
        BY <1>0, <2>1
    <2>2. CASE \E done, retry \in SUBSET Events : jobs' = CompleteMatches(m, done, retry)
        BY <1>0, <2>2, CompleteFacts
    <2>3. CASE SettleMatches(m)
        <3>1. PICK done, retry : jobs' = CompleteMatches(m, done, retry)
            BY <2>3 DEF SettleMatches
        <3> QED BY <1>0, <3>1, CompleteFacts
    <2> QED BY <1>0, <2>1, <2>2, <2>3 DEF ContextFails, MatcherQuits
<1>4. gaveUp \subseteq gaveUp' /\ gaveUp' \subseteq Events
    <2>1. gaveUp \subseteq Events /\ matchers[m].failed \subseteq Events
        BY <1>0, BatchType DEF TypeOK, Matcher
    <2> QED BY <2>1 DEF ContextFails, SettleMatches, MatcherQuits
<1>5. TypeOK'
    <2>1. faults' \in Nat /\ lapsed' \subseteq lapsed
        BY <1>0, <1>1, FaultType
    <2> QED BY <1>0, <1>1, <1>2, <1>3, <1>4, <2>1 DEF TypeOK, gatewayVars
<1>6. /\ GateInv' /\ JobInv'
      /\ \A d \in Deliverers, w \in Wakes : <<d, w>> \in lapsed => <<d, w>> \in lapsed'
    <2>1. \A c \in lapsed : c \in lapsed' \/ c[1] = m
        BY <1>1
    <2> QED BY <1>1, <1>2, <1>3, <2>1, MatcherClaims
<1>7. LeaseInv'
    BY <1>1 DEF Inv, LeaseInv, gatewayVars
<1>8. MatchInv'
    BY <1>1, <1>2, FreshTypes DEF Inv, MatchInv, Owed, WakeOf, Eligible, Batch
<1>9. NoLostWake'
    <2> SUFFICES ASSUME NEW e \in Events, NEW i \in Installs,
                        <<i, leases[i].gen>> \in owed[e], Eligible(i), member,
                        events[e] \in {"recent", "old"}, e \notin gaveUp', jobs'[e].state = "none"
                 PROVE  WakeOf(e, i) \in DOMAIN outbox /\ outbox[WakeOf(e, i)].gen = leases[i].gen
        BY <1>1 DEF NoLostWake, WakeOf, Eligible
    <2>1. CASE jobs[e].state = "none"
        BY <1>4, <2>1 DEF Inv, NoLostWake, WakeOf
    <2>2. CASE jobs[e].state # "none"
        <3>1. SettleMatches(m)
            <4>1. CASE ContextFails(m)
                <5>1. jobs' = CompleteMatches(m, {}, Batch(m))
                    BY <4>1 DEF ContextFails
                <5>2. jobs'[e] = jobs[e] \/ jobs'[e].state = "pending"
                    BY <1>0, <5>1, CompleteFacts
                <5> QED BY <2>2, <5>2
            <4>2. CASE MatcherQuits(m)
                BY <2>2, <4>2 DEF MatcherQuits
            <4> QED BY <4>1, <4>2
        <3> DEFINE retry == {k \in matchers[m].failed : matchers[m].claimed[k] < MaxMatchAttempts}
        <3>2. /\ jobs' = CompleteMatches(m, Batch(m) \ retry, retry) /\ matchers[m].pc = "settle"
              /\ gaveUp' = gaveUp \cup {k \in matchers[m].failed \ retry : Holds(jobs[k], m, "matching")}
            BY <3>1 DEF SettleMatches
        <3> HIDE DEF retry
        <3> DEFINE done == Batch(m) \ retry
        <3>3. Holds(jobs[e], m, "matching") /\ e \in Batch(m) \ retry
            <4>1. jobs' = CompleteMatches(m, done, retry)
                BY <3>2
            <4> HIDE DEF done
            <4>2. \/ jobs'[e] = jobs[e]
                  \/ Holds(jobs[e], m, "matching") /\ e \in done
                  \/ jobs'[e].state = "pending"
                BY <1>0, <4>1, CompleteFacts
            <4> QED BY <2>2, <4>2 DEF done
        <3>4. e \notin matchers[m].failed
            BY <3>2, <3>3
        <3>5. Owed(e, i)
            BY DEF Owed
        <3>6. WakeOf(e, i) \in DOMAIN outbox
            BY <3>2, <3>3, <3>4, <3>5 DEF Inv, MatchInv
        <3> QED BY <3>6 DEF Inv, MatchInv, Eligible
    <2> QED BY <2>1, <2>2
<1>10. WakeInv' /\ DelivererInv' /\ DisabledInv' /\ GrantInv' /\ SendInv'
    BY <1>1, <1>6, DeliveryFrame DEF Useless
<1> QED BY <1>5, <1>6, <1>7, <1>8, <1>9, <1>10 DEF Inv
\* enqueue_wakes adds rows for leases eligible now under the generation seen, and
\* one for each lease that an event of the batch is owed to.
LEMMA EnqueueFacts ==
    ASSUME Inv, NEW m \in Matchers, NEW failed \in SUBSET Batch(m), EnqueueWakes(m, failed)
    PROVE  /\ DOMAIN outbox \subseteq DOMAIN outbox' /\ outbox' \in [DOMAIN outbox' -> Row]
           /\ \A w \in DOMAIN outbox : outbox'[w] = outbox[w]
           /\ \A w \in DOMAIN outbox' \ DOMAIN outbox :
                /\ w \in Wakes /\ w.event \in Batch(m) /\ ~ outbox'[w].live
                /\ outbox'[w].state = "pending" /\ outbox'[w].install \in Installs
                /\ Eligible(outbox'[w].install)
                /\ outbox'[w].gen = leases[outbox'[w].install].gen
                /\ w.grant = leases[outbox'[w].install].grant
           /\ \A e \in Batch(m) \ failed, i \in Installs :
                Owed(e, i) /\ events[e] \in {"recent", "old"} => WakeOf(e, i) \in DOMAIN outbox'
<1> DEFINE sources == {i \in Installs : Eligible(i) /\ <<i, leases[i].gen>> \in matchers[m].leases}
           useful == {e \in Batch(m) \ failed : ~ Useless(e)}
           pick(w) == CHOOSE i \in sources : leases[i].grant = w.grant
           row(w) == [install |-> pick(w), gen |-> leases[pick(w)].gen,
                      state |-> "pending", attempts |-> 0, by |-> None, live |-> FALSE]
           new == {[grant |-> leases[i].grant, event |-> e] : i \in sources, e \in useful}
<1>0. /\ TypeOK /\ leases \in [Installs -> Lease] /\ outbox \in [DOMAIN outbox -> Row]
      /\ Batch(m) \subseteq Events
    BY BatchType DEF Inv, TypeOK
<1>1. outbox' = [w \in DOMAIN outbox \cup new |-> IF w \in DOMAIN outbox THEN outbox[w] ELSE row(w)]
    BY DEF EnqueueWakes
<1>2. ASSUME NEW w \in new
      PROVE  /\ pick(w) \in sources /\ leases[pick(w)].grant = w.grant
             /\ w \in Wakes /\ w.event \in Batch(m)
    <2>1. PICK i \in sources, e \in useful : w = [grant |-> leases[i].grant, event |-> e]
        BY <1>2
    <2>2. w.grant = leases[i].grant /\ w.event = e
        BY <2>1
    <2>3. leases[i].grant \in Grants
        <3>1. leases[i].active /\ leases[i].grant \in Grants \cup {None}
            BY <1>0 DEF Lease, Eligible
        <3> QED BY <3>1 DEF Inv, LeaseInv
    <2>4. w \in Wakes
        BY <1>0, <2>1, <2>3 DEF Wakes
    <2>5. w.event \in Batch(m) /\ \E j \in sources : leases[j].grant = w.grant
        BY <2>2
    <2> HIDE DEF sources, useful, new
    <2>6. pick(w) \in sources /\ leases[pick(w)].grant = w.grant
        BY <2>5
    <2> QED BY <2>4, <2>5, <2>6
<1>3. \A i \in sources : i \in Installs /\ Eligible(i) /\ leases[i].gen \in Nat
    BY <1>0 DEF Lease
<1>4. ASSUME NEW e \in Batch(m) \ failed, NEW i \in Installs, Owed(e, i), events[e] \in {"recent", "old"}
      PROVE  WakeOf(e, i) \in new
    <2>1. <<i, leases[i].gen>> \in matchers[m].leases
        BY <1>4 DEF Inv, MatchInv, EnqueueWakes
    <2>2. i \in sources
        BY <1>4, <2>1 DEF Owed
    <2>3. e \in useful
        BY <1>4 DEF Useless
    <2> QED BY <2>2, <2>3 DEF WakeOf
<1> HIDE DEF sources, useful, pick, new
<1>5. ASSUME NEW w \in new
      PROVE  /\ row(w) \in Row /\ row(w).install = pick(w) /\ row(w).gen = leases[pick(w)].gen
             /\ row(w).state = "pending" /\ ~ row(w).live
    BY <1>2, <1>3, <1>5 DEF Row
<1> HIDE DEF row
<1>6. /\ DOMAIN outbox' = DOMAIN outbox \cup new
      /\ \A w \in DOMAIN outbox : outbox'[w] = outbox[w]
      /\ \A w \in DOMAIN outbox' \ DOMAIN outbox : w \in new /\ outbox'[w] = row(w)
      /\ outbox' = [w \in DOMAIN outbox' |-> outbox'[w]]
    BY <1>1
<1>7. \A w \in DOMAIN outbox' : outbox'[w] \in Row
    BY <1>0, <1>5, <1>6
<1>8. outbox' \in [DOMAIN outbox' -> Row]
    BY <1>6, <1>7
<1> QED BY <1>2, <1>3, <1>4, <1>5, <1>6, <1>8

LEMMA EnqueueInv ==
    ASSUME Inv, NEW m \in Matchers, NEW failed \in SUBSET Batch(m), EnqueueWakes(m, failed)
    PROVE  Inv'
<1> DEFINE x == [matchers[m] EXCEPT !.pc = "settle", !.failed = failed]
<1>0. /\ TypeOK /\ jobs \in [Events -> Job] /\ matchers \in [Matchers -> Matcher]
      /\ leases \in [Installs -> Lease] /\ Batch(m) \subseteq Events
    BY BatchType DEF Inv, TypeOK
<1>1. /\ matchers' = [matchers EXCEPT ![m] = x] /\ UNCHANGED gatewayVars
      /\ UNCHANGED <<changes, leases, events, jobs, member, deliverers>>
      /\ UNCHANGED <<owed, gaveUp, lapsed, blocked>>
      /\ Fault \/ UNCHANGED faults
    BY <1>0 DEF EnqueueWakes, historyVars
<1>2. x \in Matcher /\ x.pc = "settle" /\ x.failed = failed /\ x.claimed = matchers[m].claimed
    BY <1>0 DEF Matcher
<1> HIDE DEF x
<1>3. /\ matchers' \in [Matchers -> Matcher] /\ matchers'[m] = x
      /\ \A k \in Matchers \ {m} : matchers'[k] = matchers[k]
      /\ \A k \in Matchers : Batch(k)' = Batch(k) /\ Batch(k) \subseteq Events
    BY <1>0, <1>1, <1>2, BatchType DEF Batch
<1>4. /\ DOMAIN outbox \subseteq DOMAIN outbox' /\ outbox' \in [DOMAIN outbox' -> Row]
      /\ \A w \in DOMAIN outbox : outbox'[w] = outbox[w]
      /\ \A w \in DOMAIN outbox' \ DOMAIN outbox :
            /\ w \in Wakes /\ w.event \in Batch(m) /\ ~ outbox'[w].live
            /\ outbox'[w].state = "pending" /\ outbox'[w].install \in Installs
            /\ Eligible(outbox'[w].install)
            /\ outbox'[w].gen = leases[outbox'[w].install].gen
            /\ w.grant = leases[outbox'[w].install].grant
      /\ \A e \in Batch(m) \ failed, i \in Installs :
            Owed(e, i) /\ events[e] \in {"recent", "old"} => WakeOf(e, i) \in DOMAIN outbox'
    BY EnqueueFacts
<1>5. TypeOK'
    <2>1. DOMAIN outbox' \subseteq Wakes
        BY <1>0, <1>4 DEF TypeOK
    <2>2. faults' \in Nat
        BY <1>0, <1>1, FaultType
    <2> QED BY <1>0, <1>1, <1>3, <1>4, <2>1, <2>2 DEF TypeOK, gatewayVars
<1>6. GateInv'
    <2>1. \A w \in DOMAIN outbox' : Committed(w.event)
        BY <1>4 DEF Inv, GateInv
    <2> QED BY <1>1, <1>3, <2>1 DEF Inv, GateInv, Committed, Eligible
<1>7. LeaseInv'
    <2>1. \A w \in DOMAIN outbox' :
              /\ outbox'[w].gen <= leases[outbox'[w].install].gen
              /\ outbox'[w].gen = leases[outbox'[w].install].gen
                    => leases[outbox'[w].install].grant = w.grant
        <3>1. \A i \in Installs : leases[i].gen \in Nat
            BY <1>0 DEF Lease
        <3> QED BY <1>4, <3>1 DEF Inv, LeaseInv
    <2> QED BY <1>1, <2>1 DEF Inv, LeaseInv, gatewayVars
<1>8. \A e \in Events, i \in Installs : /\ Owed(e, i)' <=> Owed(e, i)
                                        /\ WakeOf(e, i)' = WakeOf(e, i)
    BY <1>1 DEF Owed, WakeOf, Eligible
<1>9. MatchInv'
    <2>1. ASSUME NEW e \in Events, NEW i \in Installs, <<i, leases[i].gen>> \in owed[e],
                 leases[i].active, WakeOf(e, i) \in DOMAIN outbox'
          PROVE  outbox'[WakeOf(e, i)].gen = leases[i].gen
        <3>1. CASE WakeOf(e, i) \in DOMAIN outbox
            BY <1>4, <2>1, <3>1 DEF Inv, MatchInv
        <3>2. CASE WakeOf(e, i) \notin DOMAIN outbox
            <4> DEFINE j == outbox'[WakeOf(e, i)].install
            <4>1. /\ j \in Installs /\ outbox'[WakeOf(e, i)].gen = leases[j].gen
                  /\ WakeOf(e, i).grant = leases[j].grant
                BY <1>4, <2>1, <3>2
            <4>2. leases[i].grant = leases[j].grant
                BY <4>1 DEF WakeOf
            <4>3. i = j
                BY <2>1, <4>1, <4>2 DEF Inv, LeaseInv
            <4> QED BY <4>1, <4>3
        <3> QED BY <3>1, <3>2
    <2>2. \A k \in Matchers : matchers'[k].pc = "enqueue" =>
          \A e \in Batch(k)', i \in Installs :
             Owed(e, i)' => <<i, leases'[i].gen>> \in matchers'[k].leases
        BY <1>1, <1>2, <1>3, <1>8 DEF Inv, MatchInv
    <2>3. ASSUME NEW k \in Matchers, matchers'[k].pc = "settle",
                 NEW e \in Batch(k)' \ matchers'[k].failed, NEW i \in Installs,
                 Owed(e, i)', events'[e] \in {"recent", "old"}
          PROVE  WakeOf(e, i)' \in DOMAIN outbox'
        <3>1. CASE k = m
            BY <1>1, <1>2, <1>3, <1>4, <1>8, <2>3, <3>1
        <3>2. CASE k # m
            BY <1>1, <1>3, <1>4, <1>8, <2>3, <3>2 DEF Inv, MatchInv
        <3> QED BY <3>1, <3>2
    <2>4. \A e \in Events, i \in Installs :
          /\ <<i, leases'[i].gen>> \in owed'[e] /\ leases'[i].active
          /\ WakeOf(e, i)' \in DOMAIN outbox'
          => outbox'[WakeOf(e, i)'].gen = leases'[i].gen
        BY <1>1, <1>8, <2>1
    <2> QED BY <2>2, <2>3, <2>4 DEF MatchInv
<1>10. NoLostWake'
    BY <1>1, <1>4 DEF Inv, NoLostWake, Eligible
<1>11. JobInv'
    BY <1>1, <1>2, <1>3 DEF Inv, JobInv
<1>12. WakeInv'
    <2>1. /\ \A w \in DOMAIN outbox' : outbox'[w].live => outbox'[w].state = "sending"
          /\ \A w \in DOMAIN outbox' : outbox'[w].state = "sending" => outbox'[w].by # None
        BY <1>4 DEF Inv, WakeInv
    <2>2. \A d \in Deliverers : \A c \in deliverers[d].held :
              c.wake \in DOMAIN outbox' /\ outbox'[c.wake] = outbox[c.wake]
        BY <1>4 DEF Inv, WakeInv
    <2> QED BY <1>1, <2>1, <2>2 DEF Inv, WakeInv
<1>13. DelivererInv' /\ DisabledInv' /\ SendInv'
    BY <1>1, DelivererFrame, DisabledFrame, SendFrame DEF gatewayVars, Useless
<1>14. GrantInv'
    <2>1. \A w \in DOMAIN outbox' \ DOMAIN outbox : w.grant \in grants
        BY <1>4 DEF Inv, LeaseInv, Eligible
    <2> QED BY <1>1, <1>4, <2>1 DEF Inv, GrantInv, gatewayVars
<1> QED BY <1>5, <1>6, <1>7, <1>9, <1>10, <1>11, <1>12, <1>13, <1>14 DEF Inv

\* reap_exhausted_matches drops a job that no unexpired claim is on.
LEMMA ReapMatchesInv ==
    ASSUME Inv, NEW e \in Events, ReapMatches(e)
    PROVE  Inv'
<1>0. TypeOK /\ jobs \in [Events -> Job] /\ gaveUp \subseteq Events
    BY DEF Inv, TypeOK
<1>1. /\ Claimable(jobs[e], "matching") /\ jobs' = [jobs EXCEPT ![e] = NoJob]
      /\ gaveUp' = gaveUp \cup {e} /\ UNCHANGED gatewayVars
      /\ UNCHANGED <<changes, leases, events, outbox, member, matchers, deliverers, faults>>
      /\ UNCHANGED <<owed, lapsed, blocked>>
    BY DEF ReapMatches
<1>2. /\ jobs' \in [Events -> Job] /\ jobs'[e].state = "none" /\ ~ jobs'[e].live
      /\ \A k \in Events \ {e} : jobs'[k] = jobs[k]
    BY <1>0, <1>1, FreshTypes
<1>3. TypeOK'
    BY <1>0, <1>1, <1>2 DEF TypeOK, gatewayVars
<1>4. GateInv'
    BY <1>1, <1>2 DEF Inv, GateInv, Committed, Batch, Eligible
<1>5. LeaseInv' /\ MatchInv'
    BY <1>1 DEF Inv, LeaseInv, gatewayVars, MatchInv, Owed, WakeOf, Eligible, Batch
<1>6. NoLostWake'
    BY <1>1, <1>2 DEF Inv, NoLostWake, Eligible
<1>7. JobInv'
    <2>1. \A m \in Matchers : Batch(m)' = Batch(m) /\ Batch(m) \subseteq Events
        BY <1>0, <1>1, BatchType DEF Batch
    <2>2. ~ (jobs[e].state = "matching" /\ jobs[e].live)
        BY <1>1 DEF Claimable
    <2> QED BY <1>1, <1>2, <2>1, <2>2 DEF Inv, JobInv, Holds
<1>8. WakeInv' /\ DelivererInv' /\ DisabledInv' /\ GrantInv' /\ SendInv'
    BY <1>1, DeliveryFrame DEF Useless
<1> QED BY <1>3, <1>4, <1>5, <1>6, <1>7, <1>8 DEF Inv

LEMMA ExpireMatchClaimInv ==
    ASSUME Inv, NEW e \in Events, ExpireMatchClaim(e)
    PROVE  Inv'
<1>0. TypeOK /\ jobs \in [Events -> Job]
    BY DEF Inv, TypeOK
<1>1. /\ jobs[e].live /\ jobs' = [jobs EXCEPT ![e].live = FALSE]
      /\ lapsed \subseteq lapsed' /\ lapsed' \subseteq lapsed \cup {<<jobs[e].by, e>>}
      /\ e \in Batch(jobs[e].by) => <<jobs[e].by, e>> \in lapsed'
      /\ Fault \/ UNCHANGED faults
      /\ UNCHANGED gatewayVars
      /\ UNCHANGED <<changes, leases, events, outbox, member, matchers, deliverers>>
      /\ UNCHANGED <<owed, gaveUp, blocked>>
    BY DEF ExpireMatchClaim
<1>2. jobs[e].by \in Matchers /\ jobs[e].state = "matching"
    BY <1>0, <1>1 DEF Inv, JobInv, Job
<1> DEFINE j == [jobs[e] EXCEPT !.live = FALSE]
<1>3. j \in Job /\ ~ j.live /\ j.state = jobs[e].state /\ j.by = jobs[e].by
    BY <1>0 DEF Job
<1>4. jobs' = [jobs EXCEPT ![e] = j]
    BY <1>0, <1>1
<1> HIDE DEF j
<1>5. /\ jobs' \in [Events -> Job] /\ jobs'[e] = j
      /\ \A k \in Events \ {e} : jobs'[k] = jobs[k]
    BY <1>0, <1>3, <1>4
<1>6. TypeOK'
    <2>1. lapsed' \subseteq (Matchers \X Events) \cup (Deliverers \X Wakes)
        BY <1>0, <1>1, <1>2 DEF TypeOK
    <2>2. faults' \in Nat
        BY <1>0, <1>1, FaultType
    <2> QED BY <1>0, <1>1, <1>5, <2>1, <2>2 DEF TypeOK, gatewayVars
<1>7. GateInv'
    BY <1>1, <1>3, <1>5 DEF Inv, GateInv, Committed, Batch, Eligible
<1>8. LeaseInv' /\ MatchInv'
    BY <1>1 DEF Inv, LeaseInv, gatewayVars, MatchInv, Owed, WakeOf, Eligible, Batch
<1>9. NoLostWake'
    BY <1>1, <1>3, <1>5 DEF Inv, NoLostWake, Eligible
<1>10. JobInv'
    <2>0. \A m \in Matchers : Batch(m)' = Batch(m) /\ Batch(m) \subseteq Events
        BY <1>0, <1>1, BatchType DEF Batch
    <2>1. /\ \A k \in Events : jobs'[k].live => jobs'[k].state = "matching"
          /\ \A k \in Events : jobs'[k].state = "matching" => jobs'[k].by # None
          /\ \A m \in Matchers : matchers'[m].pc = "idle" => Batch(m)' = {}
        BY <1>1, <1>3, <1>5, <2>0 DEF Inv, JobInv
    <2>2. ASSUME NEW m \in Matchers, NEW k \in Batch(m)', <<m, k>> \notin lapsed'
          PROVE  Holds(jobs'[k], m, "matching") /\ jobs'[k].live
        <3>1. k \in Batch(m) /\ k \in Events /\ <<m, k>> \notin lapsed
            BY <1>1, <2>0, <2>2
        <3>2. Holds(jobs[k], m, "matching") /\ jobs[k].live
            BY <3>1 DEF Inv, JobInv
        <3>3. k # e
            BY <1>1, <2>2, <3>1, <3>2 DEF Holds
        <3> QED BY <1>5, <3>1, <3>2, <3>3
    <2> QED BY <2>1, <2>2 DEF JobInv
<1>11. WakeInv' /\ DelivererInv' /\ DisabledInv' /\ GrantInv' /\ SendInv'
    BY <1>1, DeliveryFrame DEF Useless
<1> QED BY <1>6, <1>7, <1>8, <1>9, <1>10, <1>11 DEF Inv

LEMMA MatcherStepInv ==
    ASSUME Inv, NEW m \in Matchers, MatcherStep(m) \/ MatcherQuits(m)
    PROVE  Inv'
BY ClaimMatchesInv, LoadEventsInv, LoadContextInv, EnqueueInv, EndMatchInv DEF MatcherStep
-----------------------------------------------------------------------------
(***************************************************************************)
(* Events and the push gate.                                               *)
(***************************************************************************)
\* An event moves on, not past its commit.
LEMMA EventFrame ==
    ASSUME Inv, UNCHANGED <<gatewayVars, leases, member, workVars, historyVars>>,
           Change \/ UNCHANGED changes, events' \in [Events -> EventState],
           \A e \in Events :
              /\ Committed(e)' <=> Committed(e)
              /\ events'[e] \in {"recent", "old"} => events[e] \in {"recent", "old"}
              /\ Useless(e) => Useless(e)'
              /\ events'[e] = "skipped" => \A i \in Installs : ~ Eligible(i)
    PROVE  Inv'
<1>0. TypeOK
    BY DEF Inv
<1>1. /\ UNCHANGED <<leases, member, jobs, outbox, matchers, deliverers, faults>>
      /\ UNCHANGED <<owed, gaveUp, lapsed, blocked>>
      /\ UNCHANGED <<installation, delegation, grants, reserved, quota, tasks, confirmed, repeated, invalid>>
    BY DEF workVars, historyVars, gatewayVars
<1>2. changes' \in Nat
    BY <1>0, ChangeType
<1>3. TypeOK'
    BY <1>0, <1>1, <1>2 DEF TypeOK
<1>4. \A m \in Matchers : Batch(m)' = Batch(m) /\ Batch(m) \subseteq Events
    BY <1>0, <1>1, BatchType DEF Batch
<1>5. GateInv'
    <2>1. \A w \in DOMAIN outbox : w.event \in Events
        BY <1>0 DEF TypeOK, Wakes
    <2>2. \A w \in DOMAIN outbox : Committed(w.event)'
        BY <2>1 DEF Inv, GateInv
    <2>3. \A m \in Matchers : \A e \in Batch(m)' : Committed(e)'
        BY <1>4 DEF Inv, GateInv
    <2>4. \A w \in DOMAIN outbox' : Committed(w.event)'
        BY <1>1, <2>2
    <2>5. \A e \in Events : events'[e] = "skipped" => \A i \in Installs : ~ Eligible(i)'
        BY <1>1 DEF Eligible
    <2>6. \A e \in Events : ~ Committed(e)' => jobs'[e].state = "none" /\ owed'[e] = {}
        BY <1>1 DEF Inv, GateInv
    <2> QED BY <2>3, <2>4, <2>5, <2>6 DEF GateInv
<1>6. LeaseInv'
    BY <1>1 DEF Inv, LeaseInv
<1>7. MatchInv'
    BY <1>1, <1>4 DEF Inv, MatchInv, Owed, WakeOf, Eligible
<1>8. NoLostWake'
    BY <1>1 DEF Inv, NoLostWake, Eligible
<1>9. JobInv'
    BY <1>1, JobFrame
<1>10. WakeInv' /\ DelivererInv' /\ DisabledInv' /\ GrantInv' /\ SendInv'
    BY <1>1, DeliveryFrame
<1> QED BY <1>3, <1>5, <1>6, <1>7, <1>8, <1>9, <1>10 DEF Inv

LEMMA EventStepInv ==
    ASSUME Inv, NEW e \in Events, EventStep(e)
    PROVE  Inv'
<1>0. events \in [Events -> EventState]
    BY DEF Inv, TypeOK
<1>1. CASE InsertEvent(e)
    <2> DEFINE x == IF EligibleLeases # {} THEN "queued" ELSE "skipped"
    <2>1. events' = [events EXCEPT ![e] = x] /\ events[e] = "none" /\ UNCHANGED changes
          /\ UNCHANGED <<gatewayVars, leases, member, workVars, historyVars>>
        BY <1>1 DEF InsertEvent
    <2>2. x \in {"queued", "skipped"} /\ (x = "skipped" => \A i \in Installs : ~ Eligible(i))
        BY DEF EligibleLeases
    <2> HIDE DEF x
    <2>3. events' \in [Events -> EventState] /\ events'[e] = x
          /\ \A k \in Events \ {e} : events'[k] = events[k]
        BY <1>0, <2>1, <2>2 DEF EventState
    <2>4. \A k \in Events :
              /\ Committed(k)' <=> Committed(k)
              /\ events'[k] \in {"recent", "old"} => events[k] \in {"recent", "old"}
              /\ Useless(k) => Useless(k)'
              /\ events'[k] = "skipped" => \A i \in Installs : ~ Eligible(i)
        BY <2>1, <2>2, <2>3 DEF Committed, Useless, Inv, GateInv
    <2> QED BY <2>1, <2>3, <2>4, EventFrame
<1>2. CASE AgeEvent(e) \/ DeleteEvent(e)
    <2>1. /\ UNCHANGED <<gatewayVars, leases, member, workVars, historyVars>>
          /\ Change \/ UNCHANGED changes
        BY <1>2 DEF AgeEvent, DeleteEvent
    <2>2. PICK x \in {"old", "useless", "deleted", "forgotten"} :
              /\ events' = [events EXCEPT ![e] = x]
              /\ events[e] \in {"recent", "old", "useless", "deleted"}
              /\ x = "old" => events[e] = "recent"
              /\ Useless(e) => x = "forgotten"
        BY <1>2 DEF AgeEvent, DeleteEvent, Useless, Live
    <2>3. events' \in [Events -> EventState] /\ events'[e] = x
          /\ \A k \in Events \ {e} : events'[k] = events[k]
        BY <1>0, <2>2 DEF EventState
    <2>4. \A k \in Events :
              /\ Committed(k)' <=> Committed(k)
              /\ events'[k] \in {"recent", "old"} => events[k] \in {"recent", "old"}
              /\ Useless(k) => Useless(k)'
              /\ events'[k] = "skipped" => \A i \in Installs : ~ Eligible(i)
        BY <2>2, <2>3 DEF Committed, Useless, Inv, GateInv
    <2> QED BY <2>1, <2>3, <2>4, EventFrame
<1> QED BY <1>1, <1>2 DEF EventStep

\* The commit: what the event is owed to is what its trigger saw, or there is a job.
LEMMA CommitEventInv ==
    ASSUME Inv, NEW e \in Events, CommitEvent(e)
    PROVE  Inv'
<1>0. /\ TypeOK /\ events \in [Events -> EventState] /\ jobs \in [Events -> Job]
      /\ leases \in [Installs -> Lease] /\ owed \in [Events -> SUBSET (Installs \X Nat)]
    BY DEF Inv, TypeOK
<1>1. /\ Inserting(e) /\ events' = [events EXCEPT ![e] = "recent"]
      /\ jobs' = IF events[e] = "queued" THEN [jobs EXCEPT ![e] = NewJob] ELSE jobs
      /\ owed' = [owed EXCEPT ![e] = EligibleLeases] /\ UNCHANGED gatewayVars
      /\ UNCHANGED <<changes, leases, outbox, member, matchers, deliverers, faults>>
      /\ UNCHANGED <<gaveUp, lapsed, blocked>>
    BY DEF CommitEvent
<1>2. \A i \in Installs : leases[i].gen \in Nat
    BY <1>0 DEF Lease
<1>3. EligibleLeases \subseteq Installs \X Nat
    BY <1>2 DEF EligibleLeases
<1>4. \A x \in EligibleLeases : x[1] \in Installs /\ x[2] = leases[x[1]].gen /\ Eligible(x[1])
    BY DEF EligibleLeases
<1>5. /\ jobs' \in [Events -> Job] /\ \A k \in Events \ {e} : jobs'[k] = jobs[k]
      /\ events' \in [Events -> EventState] /\ \A k \in Events \ {e} : events'[k] = events[k]
      /\ owed' \in [Events -> SUBSET (Installs \X Nat)] /\ \A k \in Events \ {e} : owed'[k] = owed[k]
      /\ events'[e] = "recent" /\ owed'[e] = EligibleLeases
      /\ jobs'[e] = jobs[e] \/ (jobs'[e] = NewJob)
      /\ events[e] = "queued" => jobs'[e] = NewJob
    BY <1>0, <1>1, <1>3, FreshTypes DEF EventState
<1>6. ~ Committed(e) /\ (events[e] = "queued" \/ events[e] = "skipped") /\ jobs[e].state = "none"
    BY <1>1 DEF Inserting, Committed, Inv, GateInv
<1>7. \A m \in Matchers : Batch(m)' = Batch(m) /\ Batch(m) \subseteq Events \ {e}
    BY <1>0, <1>1, <1>6, BatchType DEF Batch, Inv, GateInv
<1>8. \A w \in DOMAIN outbox : w.event \in Events \ {e}
    BY <1>0, <1>6 DEF TypeOK, Wakes, Inv, GateInv
<1>9. TypeOK'
    BY <1>0, <1>1, <1>5 DEF TypeOK, gatewayVars
<1>10. GateInv'
    <2>1. \A k \in Events \ {e} : Committed(k)' <=> Committed(k)
        BY <1>5 DEF Committed
    <2>2. Committed(e)'
        BY <1>5 DEF Committed
    <2>3. \A w \in DOMAIN outbox : Committed(w.event)'
        BY <1>8, <2>1 DEF Inv, GateInv
    <2>4. \A w \in DOMAIN outbox' : Committed(w.event)'
        BY <1>1, <2>3
    <2>5. \A m \in Matchers : \A k \in Batch(m)' : Committed(k)'
        BY <1>7, <2>1 DEF Inv, GateInv
    <2>6. \A k \in Events : ~ Committed(k)' => jobs'[k].state = "none" /\ owed'[k] = {}
        BY <1>5, <2>1, <2>2 DEF Inv, GateInv
    <2>7. \A k \in Events : events'[k] = "skipped" => \A i \in Installs : ~ Eligible(i)'
        BY <1>1, <1>5 DEF Inv, GateInv, Eligible
    <2> QED BY <2>4, <2>5, <2>6, <2>7 DEF GateInv
<1>11. LeaseInv'
    <2>1. \A k \in Events : \A x \in owed'[k] : x[2] <= leases[x[1]].gen
        BY <1>2, <1>4, <1>5 DEF Inv, LeaseInv
    <2> QED BY <1>1, <2>1 DEF Inv, LeaseInv, gatewayVars
<1>12. MatchInv'
    <2>1. \A k \in Events, i \in Installs : WakeOf(k, i)' = WakeOf(k, i) /\ WakeOf(k, i).event = k
        BY <1>1 DEF WakeOf
    <2>2. \A k \in Events \ {e}, i \in Installs : Owed(k, i)' <=> Owed(k, i)
        BY <1>1, <1>5 DEF Owed, Eligible
    <2>3. \A k \in Events, i \in Installs :
          /\ <<i, leases'[i].gen>> \in owed'[k] /\ leases'[i].active
          /\ WakeOf(k, i)' \in DOMAIN outbox'
          => outbox'[WakeOf(k, i)'].gen = leases'[i].gen
        BY <1>1, <1>5, <1>8, <2>1 DEF Inv, MatchInv
    <2>4. \A m \in Matchers : matchers'[m].pc = "enqueue" =>
          \A k \in Batch(m)', i \in Installs :
             Owed(k, i)' => <<i, leases'[i].gen>> \in matchers'[m].leases
        BY <1>1, <1>7, <2>2 DEF Inv, MatchInv
    <2>5. \A m \in Matchers : matchers'[m].pc = "settle" =>
          \A k \in Batch(m)' \ matchers'[m].failed, i \in Installs :
             Owed(k, i)' /\ events'[k] \in {"recent", "old"} => WakeOf(k, i)' \in DOMAIN outbox'
        BY <1>1, <1>5, <1>7, <2>1, <2>2 DEF Inv, MatchInv
    <2> QED BY <2>3, <2>4, <2>5 DEF MatchInv
<1>13. NoLostWake'
    <2> SUFFICES ASSUME NEW k \in Events, NEW i \in Installs,
                        <<i, leases[i].gen>> \in owed'[k], Eligible(i), member,
                        events'[k] \in {"recent", "old"}, k \notin gaveUp, jobs'[k].state = "none"
                 PROVE  WakeOf(k, i) \in DOMAIN outbox /\ outbox[WakeOf(k, i)].gen = leases[i].gen
        BY <1>1 DEF NoLostWake, WakeOf, Eligible
    <2>1. k # e
        BY <1>5, <1>6, FreshTypes DEF Inv, GateInv
    <2> QED BY <1>5, <2>1 DEF Inv, NoLostWake, WakeOf
<1>14. JobInv'
    BY <1>1, <1>5, <1>7, FreshTypes DEF Inv, JobInv
<1>15. WakeInv' /\ DelivererInv' /\ DisabledInv' /\ GrantInv' /\ SendInv'
    <2>1. \A k \in Events : Useless(k) => Useless(k)'
        BY <1>5, <1>6 DEF Useless
    <2> QED BY <1>1, <2>1, DeliveryFrame
<1> QED BY <1>9, <1>10, <1>11, <1>12, <1>13, <1>14, <1>15 DEF Inv

LEMMA LeaveChannelInv ==
    ASSUME Inv, LeaveChannel
    PROVE  Inv'
<1>0. TypeOK
    BY DEF Inv
<1>1. /\ UNCHANGED <<leases, events, jobs, outbox, matchers, deliverers, faults>>
      /\ UNCHANGED <<owed, gaveUp, lapsed, blocked>> /\ ~ member' /\ member' \in BOOLEAN
      /\ UNCHANGED <<installation, delegation, grants, reserved, quota, tasks, confirmed, repeated, invalid>>
      /\ UNCHANGED gatewayVars /\ Change
    BY DEF LeaveChannel, workVars, historyVars, gatewayVars
<1>2. TypeOK'
    BY <1>0, <1>1, ChangeType DEF TypeOK
<1>3. GateInv' /\ LeaseInv'
    BY <1>1 DEF Inv, GateInv, LeaseInv, Committed, Batch, Eligible
<1>4. MatchInv'
    BY <1>1 DEF Inv, MatchInv, Owed, WakeOf, Batch
<1>5. NoLostWake'
    BY <1>1 DEF NoLostWake
<1>6. JobInv' /\ WakeInv' /\ DelivererInv' /\ DisabledInv' /\ GrantInv' /\ SendInv'
    BY <1>1, JobFrame, DeliveryFrame DEF Useless
<1> QED BY <1>2, <1>3, <1>4, <1>5, <1>6 DEF Inv
-----------------------------------------------------------------------------
(***************************************************************************)
(* The leases.                                                             *)
(***************************************************************************)
\* What accept_lease_event accepts is newer in both orders, and its endpoint is
\* nobody else's.
LEMMA AcceptFacts ==
    ASSUME Inv, NEW i \in Installs, NEW s \in Submissions, AcceptLease(i, s)
    PROVE  /\ leases' \in [Installs -> Lease]
           /\ \A j \in Installs \ {i} : leases'[j] = leases[j]
           /\ leases'[i].grant = s.grant /\ (leases'[i].active <=> s.grant # None)
           /\ leases'[i].enabled /\ ~ leases'[i].expired /\ s.grant \in grants \cup {None}
           /\ leases'[i].gen > leases[i].gen /\ leases'[i].created > leases[i].created
           /\ s.grant # None => \A j \in Installs \ {i} : leases[j].active => leases[j].grant # s.grant
           /\ jobs' \in [Events -> Job]
           /\ \A e \in Events : \/ jobs'[e] = jobs[e]
                                \/ /\ events[e] = "recent" /\ jobs[e].state = "none"
                                   /\ jobs'[e] = NewJob
<1>0. leases \in [Installs -> Lease] /\ jobs \in [Events -> Job] /\ grants \subseteq Grants
    BY DEF Inv, TypeOK
<1>1. s.created \in Nat /\ s.gen \in Nat /\ s.grant \in grants \cup {None}
    <2>1. PICK v \in Versions, g \in grants \cup {None} :
              s = [created |-> v[1], gen |-> v[2], grant |-> g]
        BY DEF Submissions
    <2>2. v[1] \in Nat /\ v[2] \in Nat
        BY DeliveryAssumption
    <2> QED BY <2>1, <2>2
<1>2. /\ WinsEvent(i, s) /\ WinsGeneration(i, s)
      /\ s.grant # None => ~ EndpointAlreadyLeased(i, s)
    BY DEF AcceptLease, AcceptLeaseOutcome
<1> DEFINE a == (s.grant # None)
           l == [created |-> s.created, gen |-> s.gen, active |-> a,
                 enabled |-> TRUE, expired |-> FALSE, grant |-> s.grant]
<1>3. a \in BOOLEAN
    OBVIOUS
<1>4. leases' = [leases EXCEPT ![i] = l]
    BY DEF AcceptLease
<1> HIDE DEF a
<1>5. /\ l \in Lease /\ l.grant = s.grant /\ l.active = a /\ l.enabled /\ ~ l.expired
      /\ l.gen = s.gen /\ l.created = s.created
    BY <1>0, <1>1, <1>3 DEF Lease
<1> HIDE DEF l
<1>6. /\ leases' \in [Installs -> Lease] /\ leases'[i] = l
      /\ \A j \in Installs \ {i} : leases'[j] = leases[j]
    BY <1>0, <1>4, <1>5
<1>7. /\ jobs' \in [Events -> Job]
      /\ \A e \in Events : \/ jobs'[e] = jobs[e]
                           \/ /\ events[e] = "recent" /\ jobs[e].state = "none"
                              /\ jobs'[e] = NewJob
    <2>1. CASE jobs' = jobs
        BY <1>0, <2>1
    <2>2. CASE jobs' = Backfilled
        BY <1>0, <2>2, FreshTypes DEF Backfilled
    <2> QED BY <2>1, <2>2 DEF AcceptLease
<1>8. s.grant # None => \A j \in Installs \ {i} : leases[j].active => leases[j].grant # s.grant
    BY <1>2 DEF EndpointAlreadyLeased
<1>9. leases'[i].active <=> s.grant # None
    BY <1>5, <1>6 DEF a
<1>10. leases'[i].gen > leases[i].gen /\ leases'[i].created > leases[i].created
    BY <1>2, <1>5, <1>6 DEF WinsEvent, WinsGeneration
<1> QED BY <1>1, <1>5, <1>6, <1>7, <1>8, <1>9, <1>10

LEMMA AcceptLeaseInv ==
    ASSUME Inv, NEW i \in Installs, NEW s \in Submissions, AcceptLease(i, s)
    PROVE  Inv'
<1>0. TypeOK /\ leases \in [Installs -> Lease]
    BY DEF Inv, TypeOK
<1>1. /\ s.grant # None => GateFree
      /\ UNCHANGED <<events, outbox, member, matchers, deliverers, faults>>
      /\ UNCHANGED <<owed, gaveUp, lapsed, blocked>> /\ UNCHANGED gatewayVars
      /\ UNCHANGED <<installation, delegation, grants, reserved, quota, tasks, confirmed, repeated, invalid>>
      /\ Change \/ UNCHANGED changes
    BY DEF AcceptLease, historyVars, gatewayVars
<1>2. /\ leases' \in [Installs -> Lease]
      /\ \A j \in Installs \ {i} : leases'[j] = leases[j]
      /\ leases'[i].grant = s.grant /\ (leases'[i].active <=> s.grant # None)
      /\ leases'[i].enabled /\ ~ leases'[i].expired /\ s.grant \in grants \cup {None}
      /\ leases'[i].gen > leases[i].gen /\ leases'[i].created > leases[i].created
      /\ s.grant # None => \A j \in Installs \ {i} : leases[j].active => leases[j].grant # s.grant
      /\ jobs' \in [Events -> Job]
      /\ \A e \in Events : \/ jobs'[e] = jobs[e]
                           \/ /\ events[e] = "recent" /\ jobs[e].state = "none"
                              /\ jobs'[e] = NewJob
    BY AcceptFacts
<1>3. \A j \in Installs : leases[j].gen \in Nat /\ leases'[j].gen \in Nat
    BY <1>0, <1>2 DEF Lease
<1>4. TypeOK'
    BY <1>0, <1>1, <1>2, ChangeType DEF TypeOK
<1>5. \A m \in Matchers : Batch(m)' = Batch(m) /\ Batch(m) \subseteq Events
    BY <1>0, <1>1, BatchType DEF Batch
<1>6. GateInv'
    <2>1. \A e \in Events : events'[e] = "skipped" => \A j \in Installs : ~ Eligible(j)'
        <3>1. CASE s.grant # None
            BY <1>1, <3>1 DEF GateFree, Inserting
        <3>2. CASE s.grant = None
            BY <1>1, <1>2, <3>2 DEF Inv, GateInv, Eligible
        <3> QED BY <3>1, <3>2
    <2>2. \A e \in Events : ~ Committed(e) => jobs'[e].state = "none"
        BY <1>2 DEF Inv, GateInv, Committed
    <2> QED BY <1>1, <1>5, <2>1, <2>2 DEF Inv, GateInv, Committed
<1>7. LeaseInv'
    <2>1. \A j \in Installs : leases'[j].active <=> leases'[j].grant # None
        BY <1>2 DEF Inv, LeaseInv
    <2>2. \A j \in Installs : leases'[j].grant \in grants' \cup {None}
        BY <1>1, <1>2 DEF Inv, LeaseInv
    <2>3. ASSUME NEW j \in Installs, NEW k \in Installs, leases'[j].active,
                 leases'[j].grant = leases'[k].grant
          PROVE  j = k
        <3>0. leases'[k].active /\ leases'[j].grant # None
            BY <2>1, <2>3
        <3>1. CASE j = i /\ k # i
            BY <1>2, <2>3, <3>0, <3>1
        <3>2. CASE j # i /\ k = i
            BY <1>2, <2>3, <3>0, <3>2
        <3>3. CASE j # i /\ k # i
            BY <1>2, <2>3, <3>3 DEF Inv, LeaseInv
        <3> QED BY <3>1, <3>2, <3>3
    <2>4. \A j \in Installs : leases[j].gen <= leases'[j].gen
        BY <1>2, <1>3
    <2>5. \A e \in Events : \A x \in owed'[e] : x[2] <= leases'[x[1]].gen
        <3>1. \A e \in Events : \A x \in owed[e] : x[1] \in Installs /\ x[2] \in Nat
            BY <1>0 DEF TypeOK
        <3> QED BY <1>1, <1>3, <2>4, <3>1 DEF Inv, LeaseInv
    <2>6. ASSUME NEW w \in DOMAIN outbox'
          PROVE  /\ outbox'[w].gen <= leases'[outbox'[w].install].gen
                 /\ outbox'[w].gen = leases'[outbox'[w].install].gen
                       => leases'[outbox'[w].install].grant = w.grant
        <3>1. w \in DOMAIN outbox /\ outbox'[w] = outbox[w] /\ outbox[w].install \in Installs
              /\ outbox[w].gen \in Nat
            BY <1>0, <1>1, <2>6 DEF TypeOK, Row
        <3>2. outbox[w].gen <= leases[outbox[w].install].gen
            BY <3>1 DEF Inv, LeaseInv
        <3>3. CASE outbox[w].install = i
            BY <1>2, <1>3, <3>1, <3>2, <3>3
        <3>4. CASE outbox[w].install # i
            BY <1>2, <3>1, <3>4 DEF Inv, LeaseInv
        <3> QED BY <3>3, <3>4
    <2> QED BY <2>1, <2>2, <2>3, <2>5, <2>6 DEF LeaseInv
\* Nothing is owed to the new generation yet.
<1>8. \A e \in Events : <<i, leases'[i].gen>> \notin owed[e]
    <2>1. \A e \in Events : \A x \in owed[e] : x[2] <= leases[x[1]].gen
        BY DEF Inv, LeaseInv
    <2> QED BY <1>2, <1>3, <2>1
<1>9. \A e \in Events, j \in Installs \ {i} : /\ Owed(e, j)' <=> Owed(e, j)
                                              /\ WakeOf(e, j)' = WakeOf(e, j)
    BY <1>1, <1>2 DEF Owed, WakeOf, Eligible
<1>10. \A e \in Events : ~ Owed(e, i)'
    BY <1>1, <1>8 DEF Owed
<1>11. MatchInv'
    <2>1. \A e \in Events, j \in Installs :
          /\ <<j, leases'[j].gen>> \in owed'[e] /\ leases'[j].active
          /\ WakeOf(e, j)' \in DOMAIN outbox'
          => outbox'[WakeOf(e, j)'].gen = leases'[j].gen
        BY <1>1, <1>2, <1>8, <1>9 DEF Inv, MatchInv
    <2>2. \A m \in Matchers : matchers'[m].pc = "enqueue" =>
          \A e \in Batch(m)', j \in Installs :
             Owed(e, j)' => <<j, leases'[j].gen>> \in matchers'[m].leases
        BY <1>1, <1>2, <1>5, <1>9, <1>10 DEF Inv, MatchInv
    <2>3. \A m \in Matchers : matchers'[m].pc = "settle" =>
          \A e \in Batch(m)' \ matchers'[m].failed, j \in Installs :
             Owed(e, j)' /\ events'[e] \in {"recent", "old"} => WakeOf(e, j)' \in DOMAIN outbox'
        BY <1>1, <1>5, <1>9, <1>10 DEF Inv, MatchInv
    <2> QED BY <2>1, <2>2, <2>3 DEF MatchInv
<1>12. NoLostWake'
    <2> SUFFICES ASSUME NEW e \in Events, NEW j \in Installs,
                        <<j, leases'[j].gen>> \in owed[e], Eligible(j)', member,
                        events[e] \in {"recent", "old"}, e \notin gaveUp, jobs'[e].state = "none"
                 PROVE  /\ [grant |-> leases'[j].grant, event |-> e] \in DOMAIN outbox
                        /\ outbox[[grant |-> leases'[j].grant, event |-> e]].gen = leases'[j].gen
        BY <1>1 DEF NoLostWake
    <2>1. j # i /\ leases'[j] = leases[j]
        BY <1>2, <1>8
    <2>2. jobs[e].state = "none"
        BY <1>2
    <2> QED BY <2>1, <2>2 DEF Inv, NoLostWake, Eligible
<1>13. JobInv'
    BY <1>1, <1>2, <1>5, FreshTypes DEF Inv, JobInv, Holds
<1>14. WakeInv' /\ DelivererInv' /\ GrantInv' /\ SendInv'
    BY <1>1, WakeFrame, DelivererFrame, GrantFrame, SendFrame DEF Useless
<1>15. DisabledInv'
    BY <1>1, <1>2 DEF Inv, DisabledInv, DisabledWasInvalid
<1> QED BY <1>4, <1>6, <1>7, <1>11, <1>12, <1>13, <1>14, <1>15 DEF Inv

\* A lease runs out where it is.
LEMMA ExpireFacts ==
    ASSUME Inv, NEW i \in Installs, ExpireLease(i)
    PROVE  /\ leases' \in [Installs -> Lease]
           /\ \A j \in Installs \ {i} : leases'[j] = leases[j]
           /\ leases'[i].created = leases[i].created
           /\ leases'[i].gen = leases[i].gen /\ leases'[i].active = leases[i].active
           /\ leases'[i].grant = leases[i].grant /\ leases'[i].enabled = leases[i].enabled
           /\ leases'[i].expired
<1>0. leases \in [Installs -> Lease]
    BY DEF Inv, TypeOK
<1> DEFINE l == [leases[i] EXCEPT !.expired = TRUE]
<1>1. /\ l \in Lease /\ l.gen = leases[i].gen /\ l.active = leases[i].active /\ l.expired
      /\ l.grant = leases[i].grant /\ l.enabled = leases[i].enabled
      /\ l.created = leases[i].created
    BY <1>0 DEF Lease
<1>2. leases' = [leases EXCEPT ![i] = l]
    BY <1>0 DEF ExpireLease
<1> HIDE DEF l
<1> QED BY <1>0, <1>1, <1>2

LEMMA LeaseStepInv ==
    ASSUME Inv, NEW i \in Installs, LeaseStep(i)
    PROVE  Inv'
<1>0. TypeOK
    BY DEF Inv
<1>1. CASE \E s \in Submissions : AcceptLease(i, s)
    BY <1>1, AcceptLeaseInv
<1>2. CASE \E s \in Submissions : LeaseError(i, s)
    <2>1. /\ UNCHANGED <<changes, leases, events, member, jobs, outbox, matchers, deliverers, faults>>
          /\ UNCHANGED <<owed, gaveUp, lapsed>> /\ UNCHANGED gatewayVars /\ blocked' = TRUE
          /\ UNCHANGED <<installation, delegation, grants, reserved, quota, tasks, confirmed, repeated, invalid>>
        BY <1>2 DEF LeaseError, workVars, gatewayVars
    <2>2. TypeOK'
        BY <1>0, <2>1 DEF TypeOK
    <2>3. GateInv' /\ LeaseInv' /\ MatchInv' /\ NoLostWake'
        BY <2>1, MatchFrame DEF MatchVars, SameRows
    <2>4. JobInv' /\ WakeInv' /\ DelivererInv' /\ DisabledInv' /\ GrantInv' /\ SendInv'
        BY <2>1, JobFrame, DeliveryFrame DEF Useless
    <2> QED BY <2>2, <2>3, <2>4 DEF Inv
<1>3. CASE ExpireLease(i)
    <2>1. /\ UNCHANGED <<events, member, jobs, outbox, matchers, deliverers, faults>>
          /\ UNCHANGED <<owed, gaveUp, lapsed, blocked>> /\ UNCHANGED gatewayVars /\ Change
          /\ UNCHANGED <<installation, delegation, grants, reserved, quota, tasks, confirmed, repeated, invalid>>
        BY <1>3 DEF ExpireLease, workVars, historyVars, gatewayVars
    <2>2. /\ leases' \in [Installs -> Lease]
          /\ \A j \in Installs :
                /\ leases'[j].gen = leases[j].gen /\ leases'[j].active = leases[j].active
                /\ leases'[j].grant = leases[j].grant /\ leases'[j].enabled = leases[j].enabled
                /\ leases'[j].expired \/ leases'[j] = leases[j]
        BY <1>3, ExpireFacts
    <2>3. \A j \in Installs : Eligible(j)' => Eligible(j)
        BY <2>2 DEF Eligible
    <2>4. TypeOK'
        BY <1>0, <2>1, <2>2, ChangeType DEF TypeOK
    <2>5. GateInv' /\ LeaseInv' /\ MatchInv' /\ NoLostWake'
        BY <2>1, <2>2, <2>3, LeaseLoses DEF SameRows
    <2>6. JobInv' /\ WakeInv' /\ DelivererInv' /\ GrantInv' /\ SendInv'
        BY <2>1, JobFrame, WakeFrame, DelivererFrame, GrantFrame, SendFrame DEF Useless
    <2>7. DisabledInv'
        BY <2>1, <2>2 DEF Inv, DisabledInv, DisabledWasInvalid
    <2> QED BY <2>4, <2>5, <2>6, <2>7 DEF Inv
<1> QED BY <1>1, <1>2, <1>3 DEF LeaseStep
-----------------------------------------------------------------------------
(***************************************************************************)
(* The theorems.                                                           *)
(***************************************************************************)
LEMMA InitInv == Init => Inv
<1> SUFFICES ASSUME Init PROVE Inv
    OBVIOUS
<1>1. /\ leases = [i \in Installs |-> NoLease] /\ events = [e \in Events |-> "none"]
      /\ jobs = [e \in Events |-> NoJob] /\ outbox = <<>> /\ member = TRUE
      /\ matchers = [m \in Matchers |-> IdleMatcher]
      /\ deliverers = [d \in Deliverers |-> IdleDeliverer]
      /\ faults = 0 /\ changes = 0 /\ owed = [e \in Events |-> {}] /\ gaveUp = {}
      /\ lapsed = {} /\ blocked = FALSE
    BY DEF Init
<1>2. /\ installation = [i \in Installs |-> [epoch |-> 1, revoked |-> FALSE]]
      /\ delegation = [i \in Installs |-> [gen |-> 0, epoch |-> 0, revoked |-> FALSE]]
      /\ grants = {} /\ reserved = {} /\ quota = [i \in Installs |-> 0] /\ tasks = {}
      /\ confirmed = {} /\ repeated = {} /\ invalid = {}
    BY DEF Init, GatewayInit
<1>3. DOMAIN outbox = {} /\ outbox \in [DOMAIN outbox -> Row]
    <2>1. DOMAIN outbox = {}
        BY <1>1
    <2>2. outbox = [w \in {} |-> w]
        BY <1>1
    <2> QED BY <2>1, <2>2
<1>4. /\ \A m \in Matchers : matchers[m] = IdleMatcher /\ Batch(m) = {}
      /\ \A d \in Deliverers : deliverers[d] = IdleDeliverer
    BY <1>1, FreshTypes DEF Batch
<1>5. TypeOK
    <2>1. /\ installation \in [Installs -> [epoch : 1..MaxEpoch, revoked : BOOLEAN]]
          /\ delegation \in [Installs -> [gen : Nat, epoch : Nat, revoked : BOOLEAN]]
          /\ quota \in [Installs -> 0..MaxQuota]
        BY <1>2, GatewayAssumption
    <2>2. /\ leases \in [Installs -> Lease] /\ jobs \in [Events -> Job]
          /\ matchers \in [Matchers -> Matcher] /\ deliverers \in [Deliverers -> Deliverer]
        BY <1>1, FreshTypes
    <2>3. events \in [Events -> EventState] /\ owed \in [Events -> SUBSET (Installs \X Nat)]
        BY <1>1 DEF EventState
    <2> QED BY <1>1, <1>2, <1>3, <2>1, <2>2, <2>3 DEF TypeOK
<1>6. GateInv /\ NoLostWake
    BY <1>1, <1>3, <1>4, FreshTypes DEF GateInv, NoLostWake, Committed, Eligible
<1>7. LeaseInv /\ DisabledInv
    BY <1>1, <1>3, FreshTypes DEF LeaseInv, DisabledInv, DisabledWasInvalid
<1>8. MatchInv /\ JobInv
    BY <1>1, <1>3, <1>4, FreshTypes DEF MatchInv, JobInv
<1>9. WakeInv /\ DelivererInv
    <2>1. None # "gone"
        BY DeliveryAssumption DEF Replies
    <2> QED BY <1>3, <1>4, <2>1, FreshTypes DEF WakeInv, DelivererInv
<1>10. GrantInv /\ SendInv
    BY <1>2, <1>3 DEF GrantInv, SendInv, OneSendPerRequest
<1> QED BY <1>5, <1>6, <1>7, <1>8, <1>9, <1>10 DEF Inv

LEMMA NextInv == Inv /\ [Next]_vars => Inv'
<1> SUFFICES ASSUME Inv, [Next]_vars PROVE Inv'
    OBVIOUS
<1>1. CASE Next
    BY <1>1, DeviceInv, LeaseStepInv, EventStepInv, CommitEventInv, ReapMatchesInv,
       ExpireMatchClaimInv, MatcherStepInv, DelivererStepInv, ExpireWakeClaimInv, TaskInv,
       LeaveChannelInv, GatewayInv DEF Next
<1>2. CASE UNCHANGED vars
    <2>1. /\ UNCHANGED <<leases, events, jobs, outbox, member, matchers, deliverers, faults, changes>>
          /\ UNCHANGED <<owed, gaveUp, lapsed, blocked>> /\ UNCHANGED gatewayVars
          /\ UNCHANGED <<installation, delegation, grants, reserved, quota, tasks, confirmed, repeated, invalid>>
        BY <1>2 DEF vars, relayVars, gatewayVars
    <2>2. TypeOK'
        BY <2>1 DEF Inv, TypeOK
    <2>3. GateInv' /\ LeaseInv' /\ MatchInv' /\ NoLostWake'
        BY <2>1, MatchFrame DEF MatchVars, SameRows
    <2>4. JobInv' /\ WakeInv' /\ DelivererInv' /\ DisabledInv' /\ GrantInv' /\ SendInv'
        BY <2>1, JobFrame, DeliveryFrame DEF Useless
    <2> QED BY <2>2, <2>3, <2>4 DEF Inv
<1> QED BY <1>1, <1>2

\* The inductive invariant holds in every reachable state.
THEOREM PushInvariant == Spec => []Inv
BY InitInv, NextInv, PTL DEF Spec

\* Type correctness: rows, jobs, claims, requests and counters keep their types.
THEOREM PushTypes == Spec => []TypeOK
<1>1. Inv => TypeOK
    BY DEF Inv
<1> QED BY <1>1, PushInvariant, PTL

\* No lease that was eligible at an event's commit, and still is, is left without
\* a job or a wake: the push gate closes the race between an insertion and an
\* activation, and the matcher's fences the one between a rematch and a settlement.
THEOREM WakesNotLost == Spec => []NoLostWake
<1>1. Inv => NoLostWake
    BY DEF Inv
<1> QED BY <1>1, PushInvariant, PTL

\* A worker keeps the jobs and wakes it claimed until the claim runs out.
THEOREM ClaimsKept == Spec => []ClaimsExclusive
<1>1. Inv => ClaimsExclusive
    BY DEF Inv, JobInv, WakeInv, ClaimsExclusive
<1> QED BY <1>1, PushInvariant, PTL

\* The request id is the gateway's fence: one task per request at the provider.
THEOREM OneSend == Spec => []OneSendPerRequest
<1>1. Inv => OneSendPerRequest
    BY DEF Inv, SendInv
<1> QED BY <1>1, PushInvariant, PTL

\* A push that APNs confirmed is not sent again.
THEOREM ConfirmedOnce == Spec => []NothingAfterAccepted
<1>1. Inv => NothingAfterAccepted
    BY DEF Inv, SendInv, NothingAfterAccepted
<1> QED BY <1>1, PushInvariant, PTL

\* disable_endpoint_generation disables only what APNs refused.
THEOREM DisabledJustly == Spec => []DisabledWasInvalid
<1>1. Inv => DisabledWasInvalid
    BY DEF Inv, DisabledInv
<1> QED BY <1>1, PushInvariant, PTL

-----------------------------------------------------------------------------
(***************************************************************************)
(* What no step may do.                                                    *)
(***************************************************************************)
\* The matchers touch neither the gateway nor the leases.
LEMMA MatcherFrame ==
    ASSUME NEW m \in Matchers, MatcherStep(m) \/ MatcherQuits(m)
    PROVE  UNCHANGED <<gatewayVars, leases>>
<1>1. CASE ClaimMatches(m) \/ LoadEvents(m) \/ LoadContext(m)
    BY <1>1 DEF ClaimMatches, LoadEvents, LoadContext
<1>2. CASE ContextFails(m) \/ SettleMatches(m) \/ MatcherQuits(m)
    BY <1>2 DEF ContextFails, SettleMatches, MatcherQuits
<1>3. ASSUME NEW failed, EnqueueWakes(m, failed)
      PROVE  UNCHANGED <<gatewayVars, leases>>
    BY <1>3 DEF EnqueueWakes
<1> QED BY <1>1, <1>2, <1>3 DEF MatcherStep

\* Only an admission adds a reservation.
LEMMA ReservedOnlyAdmitted ==
    ASSUME Next, NEW w \in reserved' \ reserved
    PROVE  \E t \in tasks : Admit(t) /\ w = t.wake
<1>1. CASE \E i \in Installs : DeviceStep(i)
    BY <1>1 DEF DeviceStep, UpsertDelegation, RotateEndpoint, RevokeDelegation, RevokeInstallation,
                QuotaWindow
<1>2. CASE \E i \in Installs : LeaseStep(i)
    BY <1>2 DEF LeaseStep, AcceptLease, LeaseError, ExpireLease, gatewayVars
<1>3. CASE \E e \in Events : EventStep(e) \/ CommitEvent(e) \/ ReapMatches(e) \/ ExpireMatchClaim(e)
    BY <1>3 DEF EventStep, InsertEvent, AgeEvent, DeleteEvent, CommitEvent, ReapMatches,
                ExpireMatchClaim, gatewayVars
<1>4. CASE \E m \in Matchers : MatcherStep(m) \/ MatcherQuits(m)
    <2>1. UNCHANGED gatewayVars
        BY <1>4, MatcherFrame
    <2> QED BY <2>1 DEF gatewayVars
<1>5. CASE \E d \in Deliverers : DelivererStep(d) \/ AbandonWake(d) \/ DelivererCrash(d)
    BY <1>5 DEF DelivererStep, ClaimWakes, StartWake, CheckMember, FinalRevalidate, PostWake,
                ServingRefused, Timeout, HandleReply, DisableEndpoint, FailGone, AbandonWake,
                DelivererCrash, gatewayVars
<1>6. CASE \E v \in DOMAIN outbox : ExpireWakeClaim(v)
    BY <1>6 DEF ExpireWakeClaim, gatewayVars
<1>7. CASE \E t \in tasks : TaskStep(t)
    <2>1. PICK t \in tasks : TaskStep(t)
        BY <1>7
    <2>2. CASE Admit(t)
        BY <2>2 DEF Admit, AuthorizeDelivery
    <2>3. CASE ~ Admit(t)
        BY <2>1, <2>3 DEF TaskStep, Reject, RejectDelivery, Unavailable, DropDelivery, Send,
                          TransportSend, Finish, FinishDelivery, FinishUnstored, FinishFails
    <2> QED BY <2>2, <2>3
<1>8. CASE LeaveChannel \/ GatewayDies \/ ReapExpired
    BY <1>8 DEF LeaveChannel, GatewayDies, GatewayCrash, ReapExpired, ReapReservations, gatewayVars
<1> QED BY <1>1, <1>2, <1>3, <1>4, <1>5, <1>6, <1>7, <1>8 DEF Next

\* No request is admitted for a grant older than the one its lease now holds: the
\* gateway compares the generation with the delegation's, which no sealed grant of
\* the device exceeds.
THEOREM StaleNotSent == Spec => NoStaleSend
<1>1. ASSUME Inv, Next, NEW w \in reserved' \ reserved,
             leases[outbox[w].install].active,
             leases[outbox[w].install].grant.install = w.grant.install
      PROVE  w.grant.gen >= leases[outbox[w].install].grant.gen
    <2> DEFINE l == leases[outbox[w].install]
    <2>1. PICK t \in tasks : Admit(t) /\ w = t.wake
        BY <1>1, ReservedOnlyAdmitted
    <2>2. t.grant = w.grant /\ w \in DOMAIN outbox /\ w.grant \in grants
        BY <1>1, <2>1 DEF Inv, GrantInv
    <2>3. delegation[w.grant.install].gen = w.grant.gen
        BY <2>1, <2>2 DEF Admit, AuthorizeDelivery, Admissible, GrantCurrent
    <2>4. outbox[w].install \in Installs /\ grants \subseteq Grants
        BY <1>1, <2>2 DEF Inv, TypeOK, Row
    <2>5. l.grant \in grants
        BY <1>1, <2>4 DEF Inv, LeaseInv
    <2>6. l.grant.gen <= delegation[l.grant.install].gen
        BY <1>1, <2>5 DEF Inv, GrantInv
    <2>7. l.grant.gen \in Nat /\ w.grant.gen \in Nat
        BY <2>2, <2>4, <2>5 DEF Grants
    <2> QED BY <1>1, <2>3, <2>6, <2>7
<1>2. Inv /\ [Next]_vars =>
        [\A w \in reserved' \ reserved :
            LET l == leases[outbox[w].install] IN
            l.active /\ l.grant.install = w.grant.install => w.grant.gen >= l.grant.gen]_vars
    BY <1>1
<1> QED BY <1>2, PushInvariant, PTL DEF Spec, NoStaleSend
\* A lease changes by a submission, by running out, or by an invalid endpoint.
LEMMA LeaseChanges ==
    ASSUME Inv, Next, NEW i \in Installs, leases'[i] # leases[i]
    PROVE  \/ leases'[i].created > leases[i].created /\ leases'[i].gen > leases[i].gen
           \/ /\ leases'[i].created = leases[i].created /\ leases'[i].gen = leases[i].gen
              /\ leases'[i].grant = leases[i].grant
              /\ ~ Eligible(i)'
<1>1. CASE \E j \in Installs : LeaseStep(j)
    <2>1. PICK j \in Installs : LeaseStep(j)
        BY <1>1
    <2>2. CASE \E s \in Submissions : AcceptLease(j, s)
        BY <2>2, AcceptFacts
    <2>3. CASE \E s \in Submissions : LeaseError(j, s)
        BY <2>3 DEF LeaseError
    <2>4. CASE ExpireLease(j)
        BY <2>4, ExpireFacts DEF Eligible
    <2> QED BY <2>1, <2>2, <2>3, <2>4 DEF LeaseStep
<1>2. CASE \E d \in Deliverers : DisableEndpoint(d)
    <2>0. leases \in [Installs -> Lease]
        BY DEF Inv, TypeOK
    <2>1. PICK j : leases' = [leases EXCEPT ![j].enabled = FALSE]
        BY <1>2 DEF DisableEndpoint
    <2>2. j = i
        BY <2>0, <2>1
    <2> DEFINE l == [leases[i] EXCEPT !.enabled = FALSE]
    <2>3. l.created = leases[i].created /\ l.gen = leases[i].gen /\ l.grant = leases[i].grant
          /\ ~ l.enabled
        BY <2>0 DEF Lease
    <2>4. leases'[i] = l
        BY <2>0, <2>1, <2>2
    <2> HIDE DEF l
    <2> QED BY <2>3, <2>4 DEF Eligible
<1>3. CASE \E j \in Installs : DeviceStep(j)
    BY <1>3 DEF DeviceStep
<1>4. CASE \E e \in Events : EventStep(e) \/ CommitEvent(e) \/ ReapMatches(e) \/ ExpireMatchClaim(e)
    BY <1>4 DEF EventStep, InsertEvent, AgeEvent, DeleteEvent, CommitEvent, ReapMatches,
                ExpireMatchClaim
<1>5. CASE \E m \in Matchers : MatcherStep(m) \/ MatcherQuits(m)
    BY <1>5, MatcherFrame
<1>6. CASE \E d \in Deliverers : /\ ~ DisableEndpoint(d)
                                 /\ DelivererStep(d) \/ AbandonWake(d) \/ DelivererCrash(d)
    BY <1>6 DEF DelivererStep, ClaimWakes, StartWake, CheckMember, FinalRevalidate, PostWake,
                ServingRefused, Timeout, HandleReply, FailGone, AbandonWake,
                DelivererCrash, deliverUnchanged
<1>7. CASE \E v \in DOMAIN outbox : ExpireWakeClaim(v)
    BY <1>7 DEF ExpireWakeClaim, deliverUnchanged
<1>8. CASE \E t \in tasks : TaskStep(t)
    BY <1>8 DEF TaskStep, Admit, Reject, Unavailable, Send, Finish, FinishUnstored, relayVars,
                answerUnchanged, deliverUnchanged
<1>9. CASE LeaveChannel \/ GatewayDies \/ ReapExpired
    BY <1>9 DEF LeaveChannel, GatewayDies, ReapExpired, relayVars, answerUnchanged, deliverUnchanged
<1> QED BY <1>1, <1>2, <1>3, <1>4, <1>5, <1>6, <1>7, <1>8, <1>9 DEF Next

\* No replay of an old submission and no late answer makes a lease effective.
THEOREM LeasesReplaced == Spec => LeasesOnlyReplaced
<1>1. Inv /\ [Next]_vars =>
        [\A i \in Installs : leases'[i] # leases[i] =>
            \/ leases'[i].created > leases[i].created /\ leases'[i].gen > leases[i].gen
            \/ /\ leases'[i].created = leases[i].created /\ leases'[i].gen = leases[i].gen
               /\ leases'[i].grant = leases[i].grant
               /\ ~ Eligible(i)']_vars
    BY LeaseChanges
<1> QED BY <1>1, PushInvariant, PTL DEF Spec, LeasesOnlyReplaced
=============================================================================
