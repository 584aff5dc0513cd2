------------------------------- MODULE MCPush -------------------------------
(***************************************************************************)
(* TLC instances of PushDelivery.                                          *)
(***************************************************************************)
EXTENDS PushDelivery, TLC

MCSymmetry == Permutations(Deliverers) \cup Permutations(Matchers)

\* A lease, its replacement, and a newer event of an older generation.
MCVersions == {<<1, 1>>, <<2, 2>>, <<3, 1>>}

MCTwoVersions == {<<1, 1>>, <<2, 2>>}
=============================================================================
