----------------------------- MODULE PushGateway -----------------------------
(***************************************************************************)
(* The public push gateway: its durable authority (installations,          *)
(* delegations, replay reservations, quotas) and the delivery handler.     *)
(*                                                                         *)
(* A device delegates to the relay and gets a sealed grant; the relay      *)
(* posts a grant and a request id, the id of its wake.  Admission is one   *)
(* transaction; after it a detached task talks to APNs and disposes of the *)
(* reservation, whether or not the relay still waits.  Each operation of   *)
(* the store is one transaction and one action.                            *)
(***************************************************************************)
EXTENDS Naturals, FiniteSets

CONSTANTS
    Installs,   \* the devices' installations
    MaxEpoch,   \* bound: endpoint epochs of an installation
    MaxGrants,  \* bound: generations of an installation that carry a grant
    MaxQuota    \* quota_max_deliveries of one endpoint in one window

ASSUME GatewayAssumption == MaxEpoch \in Nat \ {0} /\ MaxGrants \in Nat /\ MaxQuota \in Nat

VARIABLES
    installation, \* push_gateway_installations: endpoint epoch and revocation
    delegation,   \* push_gateway_delegations of this relay; generation 0: no row
    grants,       \* every grant sealed so far
    reserved,     \* push_gateway_delivery_request_replays: reserved request ids
    quota,        \* push_gateway_endpoint_quotas.admitted in the present window
    tasks,        \* delivery requests inside the gateway
    confirmed,    \* history: requests APNs said it accepted
    repeated,     \* history: requests APNs took again after that
    invalid       \* history: grants whose endpoint APNs called unregistered

gatewayVars == <<installation, delegation, grants, reserved, quota, tasks,
                 confirmed, repeated, invalid>>
authorityVars == <<installation, delegation, grants>>

Grants == [install : Installs, epoch : 1..MaxEpoch, gen : 1..MaxGrants]

GatewayInit ==
    /\ installation = [i \in Installs |-> [epoch |-> 1, revoked |-> FALSE]]
    /\ delegation = [i \in Installs |-> [gen |-> 0, epoch |-> 0, revoked |-> FALSE]]
    /\ grants = {}
    /\ reserved = {}
    /\ quota = [i \in Installs |-> 0]
    /\ tasks = {}
    /\ confirmed = {}
    /\ repeated = {}
    /\ invalid = {}

-----------------------------------------------------------------------------
(* What a device does.                                                     *)

\* delegate: a strictly newer generation replaces the row, and un-revokes it.
\* The grant is lost to the device if a later step of the handler fails.
UpsertDelegation(i) ==
    /\ ~ installation[i].revoked
    /\ delegation[i].gen < MaxGrants
    /\ LET d == [gen |-> delegation[i].gen + 1, epoch |-> installation[i].epoch, revoked |-> FALSE]
       IN  /\ delegation' = [delegation EXCEPT ![i] = d]
           /\ grants' = grants \cup {[install |-> i, epoch |-> d.epoch, gen |-> d.gen]}
    /\ UNCHANGED <<installation, reserved, quota, tasks, confirmed, repeated, invalid>>

\* rotate_endpoint: another token, so another quota row, under the next epoch.
RotateEndpoint(i) ==
    /\ ~ installation[i].revoked
    /\ installation[i].epoch < MaxEpoch
    /\ installation' = [installation EXCEPT ![i].epoch = @ + 1]
    /\ quota' = [quota EXCEPT ![i] = 0]
    /\ UNCHANGED <<delegation, grants, reserved, tasks, confirmed, repeated, invalid>>

\* revoke_delegation: a tombstone under a newer generation.
RevokeDelegation(i) ==
    /\ delegation[i].gen \in 1..MaxGrants
    /\ delegation' = [delegation EXCEPT ![i].gen = @ + 1, ![i].revoked = TRUE]
    /\ UNCHANGED <<installation, grants, reserved, quota, tasks, confirmed, repeated, invalid>>

\* revoke_installation moves the epoch too, so that no grant fits it.
RevokeInstallation(i) ==
    /\ ~ installation[i].revoked
    /\ installation[i].epoch < MaxEpoch
    /\ installation' = [installation EXCEPT ![i].epoch = @ + 1, ![i].revoked = TRUE]
    /\ UNCHANGED <<delegation, grants, reserved, quota, tasks, confirmed, repeated, invalid>>

-----------------------------------------------------------------------------
(* deliver, for one request t of the relay.                                *)

\* Mutant: the delegation's generation is not compared.
GrantCurrentAnyGeneration(g) ==
    /\ installation[g.install].epoch = g.epoch
    /\ ~ installation[g.install].revoked
    /\ delegation[g.install].epoch = g.epoch
    /\ ~ delegation[g.install].revoked

\* The installation and the delegation still are the grant's.
GrantCurrent(g) ==
    /\ installation[g.install].epoch = g.epoch
    /\ ~ installation[g.install].revoked
    /\ delegation[g.install].gen = g.gen
    /\ delegation[g.install].epoch = g.epoch
    /\ ~ delegation[g.install].revoked

\* Mutant: a request id seen before is admitted again.
AdmissibleReplayed(t, expired) ==
    /\ GrantCurrent(t.grant)
    /\ ~ expired
    /\ quota[t.grant.install] < MaxQuota

\* The conditions of authorize_delivery, the request's own deadline included.
Admissible(t, expired) ==
    /\ GrantCurrent(t.grant)
    /\ ~ expired
    /\ quota[t.grant.install] < MaxQuota
    /\ t.wake \notin reserved

\* authorize_delivery commits: quota charged, request id reserved.
AuthorizeDelivery(t, expired) ==
    /\ t.phase = "posted"
    /\ Admissible(t, expired)
    /\ reserved' = reserved \cup {t.wake}
    /\ quota' = [quota EXCEPT ![t.grant.install] = @ + 1]
    /\ tasks' = (tasks \ {t}) \cup {[t EXCEPT !.phase = "admitted"]}
    /\ UNCHANGED <<authorityVars, confirmed, repeated, invalid>>

\* Rejected: rolled back, and answered 404 invalid_grant.
RejectDelivery(t, expired) ==
    /\ t.phase = "posted"
    /\ ~ Admissible(t, expired)
    /\ tasks' = tasks \ {t}
    /\ UNCHANGED <<authorityVars, reserved, quota, confirmed, repeated, invalid>>

\* The store is unavailable: 503.
DropDelivery(t) ==
    /\ t.phase = "posted"
    /\ tasks' = tasks \ {t}
    /\ UNCHANGED <<authorityVars, reserved, quota, confirmed, repeated, invalid>>

\* The answers of ApnsTransport::send.  "Lost": APNs took the push and the
\* answer did not arrive, which is classified as Retry.  A failure to open the
\* token or to refresh the credential is a "Retry" that sends nothing.
Outcomes == {"Accepted", "InvalidEndpoint", "Retry", "Lost", "PermanentFault"}

TransportSend(t, outcome) ==
    /\ t.phase = "admitted"
    /\ tasks' = (tasks \ {t}) \cup {[t EXCEPT !.phase = "sent", !.outcome = outcome]}
    /\ confirmed' = IF outcome = "Accepted" THEN confirmed \cup {t.wake} ELSE confirmed
    /\ repeated' = IF outcome \in {"Accepted", "Lost"} /\ t.wake \in confirmed
                   THEN repeated \cup {t.wake} ELSE repeated
    /\ invalid' = IF outcome = "InvalidEndpoint" THEN invalid \cup {t.grant} ELSE invalid
    /\ UNCHANGED <<authorityVars, reserved, quota>>

\* Mutant: every outcome releases the request id.
RetryableAlways(t) == TRUE

Retryable(t) == t.outcome \in {"Retry", "Lost"}

\* finish_delivery: a retryable outcome releases the request id.
FinishDelivery(t) ==
    /\ t.phase = "sent"
    /\ tasks' = tasks \ {t}
    /\ reserved' = IF Retryable(t) THEN reserved \ {t.wake} ELSE reserved
    /\ UNCHANGED <<authorityVars, quota, confirmed, repeated, invalid>>

\* finish_delivery fails, which only a release can: the id stays reserved.
FinishFails(t) ==
    /\ t.phase = "sent"
    /\ Retryable(t)
    /\ tasks' = tasks \ {t}
    /\ UNCHANGED <<authorityVars, reserved, quota, confirmed, repeated, invalid>>

\* The process dies with its tasks; admissions are durable.
GatewayCrash ==
    /\ tasks # {}
    /\ tasks' = {}
    /\ UNCHANGED <<authorityVars, reserved, quota, confirmed, repeated, invalid>>

\* reap_expired forgets reservations of requests past their deadline.
ReapReservations(expired) ==
    /\ reserved \cap expired # {}
    /\ reserved' = reserved \ expired
    /\ UNCHANGED <<authorityVars, quota, tasks, confirmed, repeated, invalid>>

\* The quota window of an endpoint ends.
QuotaWindow(i) ==
    /\ quota[i] > 0
    /\ quota' = [quota EXCEPT ![i] = 0]
    /\ UNCHANGED <<authorityVars, reserved, tasks, confirmed, repeated, invalid>>
=============================================================================
