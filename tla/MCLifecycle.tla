---------------------------- MODULE MCLifecycle ----------------------------
(***************************************************************************)
(* Lifecycle with two requests and up to two jobs: one of each may hold a  *)
(* connection while the other arrives.                                     *)
(***************************************************************************)
EXTENDS Lifecycle

CONSTANTS r1, r2

TwoRequests == {r1, r2}
=============================================================================
