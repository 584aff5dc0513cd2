--------------------------- MODULE TenantLifecycle --------------------------
(***************************************************************************)
(* What deleting a tenant promises, whoever carries it out and however     *)
(* often that is interrupted: data is written only while the tenant is     *)
(* open or closing, destroyed only when it is sealed, a tenant is reopened *)
(* only while everything it had is still there and with the settings it    *)
(* had, and one that is gone has no data and stays gone.  Volatile data    *)
(* also goes by itself, and what reached the store while the tenant was    *)
(* sealed is its own only if it is reopened.                               *)
(***************************************************************************)
CONSTANTS
    Data,
    Volatile    \* data that expires

VARIABLES
    phase,      \* open, closing, sealed, gone
    data,       \* what the tenant has
    archived,   \* whether its owners have archived it
    doomed      \* its destruction has begun

vars == <<phase, data, archived, doomed>>

Init ==
    /\ phase = "open"
    /\ data = {}
    /\ archived = FALSE
    /\ doomed = FALSE

Write(d) ==
    /\ phase \in {"open", "closing"}
    /\ data' = data \cup {d}
    /\ UNCHANGED <<phase, archived, doomed>>

Expire(d) ==
    /\ data' = data \ {d}
    /\ UNCHANGED <<phase, archived, doomed>>

Archive(a) ==
    /\ phase = "open"
    /\ archived' = a
    /\ UNCHANGED <<phase, data, doomed>>

Close ==
    /\ phase = "open"
    /\ phase' = "closing"
    /\ UNCHANGED <<data, archived, doomed>>

Seal ==
    /\ phase = "closing"
    /\ phase' = "sealed"
    /\ UNCHANGED <<data, archived, doomed>>

Reopen(strays) ==
    /\ phase \in {"closing", "sealed"} /\ ~doomed
    /\ phase' = "open"
    /\ data' = data \cup strays
    /\ UNCHANGED <<archived, doomed>>

Doom ==
    /\ phase = "sealed"
    /\ doomed' = TRUE
    /\ UNCHANGED <<phase, data, archived>>

Destroy(gone) ==
    /\ phase = "sealed" /\ doomed
    /\ data' = data \ gone
    /\ UNCHANGED <<phase, archived, doomed>>

Bury ==
    /\ phase = "sealed" /\ doomed /\ data = {}
    /\ phase' = "gone"
    /\ UNCHANGED <<data, archived, doomed>>

Next ==
    \/ \E d \in Data : Write(d)
    \/ \E d \in Volatile : Expire(d)
    \/ \E a \in BOOLEAN : Archive(a)
    \/ Close
    \/ Seal
    \/ \E strays \in SUBSET Data : Reopen(strays)
    \/ Doom
    \/ \E gone \in SUBSET Data : Destroy(gone)
    \/ Bury

Spec == Init /\ [][Next]_vars
=============================================================================
