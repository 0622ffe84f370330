--------------------------- MODULE MCTransaction ---------------------------
(***************************************************************************)
(* Three calls over a pool of two connections, each with two rows to       *)
(* write, so that calls wait and transactions can be half done.            *)
(***************************************************************************)
EXTENDS Transaction

CONSTANTS c1, c2, c3, user, job

MCCallers == {c1, c2, c3}
MCRows    == {user, job}
=============================================================================
