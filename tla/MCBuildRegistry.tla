-------------------------- MODULE MCBuildRegistry --------------------------
(***************************************************************************)
(* BuildRegistry with two known types, one of them registered from the     *)
(* start, one enum type, one custom token and a build.  Builds share only  *)
(* what they read, so that one stands for all.                             *)
(***************************************************************************)
EXTENDS BuildRegistry

CONSTANTS k1, k2, e1, da, db, b1, tag1

MCKnownTypes == {k1, k2}
MCEnumTypes  == {e1}
MCDefs       == {da, db}
MCDefaults   == [t \in MCKnownTypes |-> IF t = k1 THEN da ELSE Absent]
MCTags       == {tag1}
OneBuilder   == {b1}
=============================================================================
