------------------------------- MODULE MCAcp -------------------------------
(***************************************************************************)
(* TLC instances of AcpHarness.  Events are 1..NumEvents; created_at is    *)
(* chosen so that arrival order and author order disagree (relay replay    *)
(* delivers newest first).                                                 *)
(***************************************************************************)
EXTENDS AcpHarness, TLC

CONSTANTS NumEvents

MCEvents == 1..NumEvents

\* Replayed history: later arrivals are older, the last two tie.
MCCreatedAt == [e \in MCEvents |-> IF e = 1 THEN 2 ELSE 1]

MCSymmetry == Permutations(Agents) \cup Permutations(Channels)
=============================================================================
