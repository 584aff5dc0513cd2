------------------------------ MODULE RefStore ------------------------------
(***************************************************************************)
(* What a git host promises its clients: the refs of a repository change   *)
(* by whole pushes, one at a time, and a push changes them only when every *)
(* ref it names still has the value the client saw.                        *)
(*                                                                         *)
(* A client that is told "ok" had its push applied; one that is refused    *)
(* never will.  A client that gets no clear answer (a server error, a lost *)
(* connection) learns nothing: its push may have been applied, may still   *)
(* be applied later, or never.                                             *)
(***************************************************************************)
CONSTANTS
    Pushers,    \* push requests
    Refs,       \* ref names
    Commits,    \* object ids a ref may have
    None        \* a ref that does not exist

RefMap == [Refs -> Commits \cup {None}]

VARIABLES
    refs,       \* the refs of the repository
    old,        \* the refs a client saw before it pushed
    want,       \* the refs it asked for
    phase,      \* what became of the push
    applied     \* whether it has changed the refs

vars == <<refs, old, want, phase, applied>>

Init ==
    /\ refs = [r \in Refs |-> None]
    /\ old = [p \in Pushers |-> [r \in Refs |-> None]]
    /\ want = [p \in Pushers |-> [r \in Refs |-> None]]
    /\ phase = [p \in Pushers |-> "idle"]
    /\ applied = [p \in Pushers |-> FALSE]

\* The refs a push names.
Touched(p) == {r \in Refs : want[p][r] # old[p][r]}

Ask(p) ==
    /\ phase[p] = "idle"
    /\ \E w \in RefMap : want' = [want EXCEPT ![p] = w]
    /\ old' = [old EXCEPT ![p] = refs]
    /\ phase' = [phase EXCEPT ![p] = "open"]
    /\ UNCHANGED <<refs, applied>>

Apply(p) ==
    /\ phase[p] \in {"open", "unknown"} /\ ~applied[p]
    /\ \A r \in Touched(p) : refs[r] = old[p][r]
    /\ refs' = [r \in Refs |-> IF r \in Touched(p) THEN want[p][r] ELSE refs[r]]
    /\ applied' = [applied EXCEPT ![p] = TRUE]
    /\ UNCHANGED <<old, want, phase>>

Answer(p) ==
    /\ phase[p] = "open"
    /\ \E a \in {"ok", "refused", "unknown"} :
          /\ a = "ok" => applied[p]
          /\ a = "refused" => ~applied[p]
          /\ phase' = [phase EXCEPT ![p] = a]
    /\ UNCHANGED <<refs, old, want, applied>>

Next == \E p \in Pushers : Ask(p) \/ Apply(p) \/ Answer(p)

Spec == Init /\ [][Next]_vars
=============================================================================
