------------------------------ MODULE MCRoutes ------------------------------
(***************************************************************************)
(* Small instances of Routes: every tree of three groups, each with a      *)
(* guard of its own, up to two child links (mounts, inline groups, a group *)
(* mounted twice, cycles and nil) and up to two routes, under every        *)
(* request of up to three segments.  Beside them, and sharing nothing but  *)
(* the request, the address it is served under, on the empty tree.         *)
(***************************************************************************)
EXTENDS Routes, ClientAddress

CONSTANTS r, c1, c2, gr, g1, g2, own, zero, nil

MCRequirement ==
    (gr :> Unstated) @@ (g1 :> {{"bearer"}, {"basic"}}) @@ (g2 :> {{"bearer"}, {}})
    @@ (own :> {{"cookie"}})

MCPlaceholders == {"{p}", "{q}"}
MCPatterns == {<< >>, <<"a">>, <<"{p}">>, <<"b">>}

\* The literal b stands for one such as "by-p", whose words are those of {p}.
MCWords == ("a" :> <<"A">>) @@ ("b" :> <<"By", "P">>)
           @@ ("{p}" :> <<"By", "P">>) @@ ("{q}" :> <<"By", "Q">>)

Get(path, fields) ==
    [method |-> "GET", path |-> path, guards |-> << >>, fields |-> fields, id |-> << >>,
     security |-> Unstated]

\* Plain operations, and one each with a placeholder more than its path, a
\* guard and a requirement of its own, another method or an explicit id.
MCEndpoints ==
    {Get(<< >>, {}), Get(<<"a">>, {}), Get(<<"{p}">>, {"{p}"}), Get(<<"a", "{q}">>, {"{q}"}),
     Get(<<"{q}">>, {"{p}", "{q}"}),
     [Get(<<"a">>, {}) EXCEPT !.method = "POST", !.guards = <<own>>],
     [Get(<<"{q}">>, {"{q}"}) EXCEPT !.method = "POST", !.security = {{"basic", "cookie"}}]}

\* Declarations that make sense on few trees only.
OddEndpoints ==
    {Get(<<"{q}">>, {"{q}"}), Get(<<"b">>, {}), [Get(<< >>, {}) EXCEPT !.id = <<"GET", "A">>],
     [Get(<< >>, {}) EXCEPT !.guards = <<zero>>],
     [Get(<< >>, {}) EXCEPT !.security = {{"unknown"}}]}

AllEndpoints == MCEndpoints \union OddEndpoints

MCInfra == {[method |-> "GET", path |-> <<"a">>], [method |-> "GET", path |-> <<"{p}">>]}

----------------------------------------------------------------------------

OwnGuard == (r :> gr) @@ (c1 :> g1) @@ (c2 :> g2)

Total(part) == Len(tree[r][part]) + Len(tree[c1][part]) + Len(tree[c2][part])

Below == LET linked(g) == {tree[g].children[i].node : i \in DOMAIN tree[g].children} \ {nil}
             one == {r} \union linked(r)
         IN  one \union UNION {linked(g) : g \in one}

Guarded == \A g \in Groups : Len(tree[g].guards) = 1

\* Appends to different slices commute, so guards are declared first and
\* routes last; groups that no link reaches stay empty; c1 is linked before c2.
Small ==
    /\ \A g \in Groups : tree[g].guards \in {<< >>, <<OwnGuard[g]>>, <<zero>>}
    /\ tree[c2].guards # <<zero>> /\ tree[r].guards # <<zero>>
    /\ Total("children") + Total("endpoints") + Total("infra") > 0 => Guarded
    /\ tree[c1].guards = <<zero>> => Total("endpoints") + Total("infra") = 0
    /\ Total("children") <= 2
    /\ Total("endpoints") + Total("infra") <= 2
    /\ Total("infra") <= 1
    /\ \A g \in Groups \ Below :
           tree[g].children = << >> /\ tree[g].endpoints = << >> /\ tree[g].infra = << >>
    /\ c2 \in attached => c1 \in attached
    /\ (\E g \in Groups : Range(tree[g].endpoints) \intersect OddEndpoints # {}) =>
           Total("children") = 0

\* Addresses: two clients and two proxies, some in more than one form.
MCSpellings ==
    {[host |-> h, form |-> "plain"] : h \in Hosts}
    \union {[host |-> "u1", form |-> "port"], [host |-> "t1", form |-> "mapped"],
            [host |-> "u1", form |-> "none"]}

\* What a client may claim: nothing, no address, an address it does not have,
\* alone or passed on by a proxy, on one line or on two.
MCForwarded ==
    LET u == [host |-> "u1", form |-> "port"]
        t == [host |-> "t1", form |-> "mapped"]
        none == [host |-> "u1", form |-> "none"]
    IN  {<< >>, <<<<none>>>>, <<<<u>>>>, <<<<u, t>>>>, <<<<u>>, <<t>>>>}

\* Nothing is declared before the guards are.
Untouched == phase = "declaring" /\ \A g \in Groups : tree[g].guards = << >>

MCInit == Init /\ AddressInit

MCNext ==
    \/ hops = << >> /\ Next /\ Small' /\ UNCHANGED addressVars
    \/ Untouched /\ AddressNext /\ UNCHANGED routeVars

MCSpec == MCInit /\ [][MCNext]_<<routeVars, addressVars>>

=============================================================================
