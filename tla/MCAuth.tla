------------------------------- MODULE MCAuth -------------------------------
(***************************************************************************)
(* Small instances of Auth with one e-mail address.  Each behaviour has a  *)
(* focus.  "rows": two calls run at once on one instance over a customer's *)
(* row, to which a registration adds another, which an operator removes or *)
(* gives another role; no time passes.  "clocks": one call at a time, on   *)
(* two instances that agree or are two ticks apart, with two ticks to the  *)
(* second, over a row whose hash is broken and a table without the columns *)
(* users.sql names; time passes, and one pair of tokens is issued.         *)
(***************************************************************************)
EXTENDS Auth, TLC

CONSTANTS c1, c2, i1, i2, email, p1, p2

VARIABLE focus

Customer(id, password) ==
    [id |-> id, email |-> email, password |-> password, role |-> "customer",
     tenant |-> FALSE]

OneEmail     == {email}
TwoPasswords == {p1, p2}
TwoClients   == {c1, c2}
TwoInstances == {i1, i2}
OneUser      == {Customer(1, [hashOf |-> p1])}
BrokenUsers  == {Customer(1, [hashOf |-> p1]), Customer(2, NotAHash)}
BothSeeds    == {OneUser, BrokenUsers}
Symmetry     == Permutations({c1, c2})

Rowwise ==
    /\ columns /\ now = 0
    /\ \A i \in Instances : offset[i] = 0
    /\ \A c \in Clients : call[c].inst = i1

OneCaller ==
    \E c \in Clients : \A d \in Clients \ {c} : at[d] = "done" /\ answer[d] = NoAnswer

Clockwise ==
    /\ ~columns /\ edits = 0 /\ issued <= 1
    /\ offset[i1] = -offset[i2]
    /\ OneCaller

(* With the last pair issued a behaviour of rows ends with the calls under *)
(* way, and in one of clocks no call begins that would issue another.      *)
PairsLeft ==
    \A c \in Clients : at[c] = "done" =>
        IF focus = "rows"
        THEN issued = MaxPairs => at'[c] = "done" /\ answer'[c] = answer[c]
        ELSE issued = 1 => at'[c] # "find"

InFocus == IF focus = "rows" THEN Rowwise ELSE Clockwise

MCInit ==
    /\ Init
    /\ focus = IF users = OneUser THEN "rows" ELSE "clocks"
    /\ InFocus

MCNext ==
    /\ Next
    /\ UNCHANGED focus
    /\ InFocus'
    /\ PairsLeft

MCSpec == MCInit /\ [][MCNext]_<<vars, focus>>
=============================================================================
