--------------------------- MODULE StableSnapshot ---------------------------
(***************************************************************************)
(* What Group.BuildWith promises (internal/httpx/compile.go, 174-178): an  *)
(* application is compiled "against one stable registry generation".       *)
(*                                                                         *)
(* The registries only grow.  A builder looks at both of them in one       *)
(* instant, as often as it likes, and what it returns is what it saw the   *)
(* last time it looked.  BuildRegistry implements this specification       *)
(* without ever looking at both registries at once.                        *)
(***************************************************************************)
CONSTANTS
    KnownTypes, EnumTypes,   \* the types of either registry
    Builders,                \* concurrent calls of BuildWith
    Absent,                  \* no registration for this type
    Nothing                  \* a builder that has seen or returned nothing

VARIABLES
    known, enums,            \* the registries
    snap,                    \* builder -> the generation it saw last
    result                   \* builder -> the generation it returned

vars == <<known, enums, snap, result>>

Generation == [known |-> known, enums |-> enums]

Init ==
    /\ \A t \in EnumTypes : enums[t] = Absent
    /\ snap = [b \in Builders |-> Nothing]
    /\ result = [b \in Builders |-> Nothing]

(* A registration is never changed and never withdrawn.                    *)
Register ==
    /\ \A t \in KnownTypes : known[t] # Absent => known'[t] = known[t]
    /\ \A t \in EnumTypes : enums[t] # Absent => enums'[t] = enums[t]
    /\ UNCHANGED <<snap, result>>

Look(b) ==
    /\ result[b] = Nothing
    /\ snap' = [snap EXCEPT ![b] = Generation]
    /\ UNCHANGED <<known, enums, result>>

Return(b) ==
    /\ result[b] = Nothing
    /\ snap[b] # Nothing
    /\ result' = [result EXCEPT ![b] = snap[b]]
    /\ UNCHANGED <<known, enums, snap>>

Next ==
    \/ Register
    \/ \E b \in Builders : Look(b) \/ Return(b)

Spec == Init /\ [][Next]_vars
=============================================================================
