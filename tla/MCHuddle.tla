------------------------------ MODULE MCHuddle ------------------------------
(***************************************************************************)
(* TLC instance of HuddleOwner.  A connection mints at most one lease, so  *)
(* there are as many generations as connections.                           *)
(***************************************************************************)
EXTENDS HuddleOwner

MCMaxGen == NumConns
=============================================================================
