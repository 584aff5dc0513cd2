------------------------------- MODULE MCGit -------------------------------
(***************************************************************************)
(* TLC instances of GitPublish.  The objects are 1, its child 2 and an     *)
(* unrelated 3; the refs are the branches main (1) and another (2).        *)
(***************************************************************************)
EXTENDS GitPublish, TLC

CONSTANTS NumRefs, NumCommits

MCRefs == 1..NumRefs
MCCommits == 1..NumCommits
MCReach == [c \in MCCommits |-> IF c = 2 THEN {1, 2} ELSE {c}]

MCSymmetry == Permutations(Pushers) \cup Permutations(Announcers)
=============================================================================
