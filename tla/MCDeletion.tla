----------------------------- MODULE MCDeletion -----------------------------
(***************************************************************************)
(* TLC instances of CommunityDeletion.                                     *)
(***************************************************************************)
EXTENDS CommunityDeletion, TLC

MCSymmetry == Permutations(Executors)
=============================================================================
