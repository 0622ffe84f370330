------------------------------- MODULE Routes -------------------------------
(***************************************************************************)
(* The declaration tree of groups (internal/httpx/declaration.go), its     *)
(* compilation by Build (compile.go) and the routing of requests over the  *)
(* chi routers Build materialises.  A patterned group becomes a subrouter, *)
(* whose guards are middleware of everything below its prefix; a group     *)
(* without a pattern shares its parent's router, and its guards are a      *)
(* chain around each of its routes.  The document describes every          *)
(* operation by the path and the guards of the tree, the router finds it   *)
(* by longest static match: Build must refuse the trees for which the two  *)
(* differ.                                                                 *)
(*                                                                         *)
(* A path is the sequence of its segments ("/" is empty).  A segment is a  *)
(* literal or a placeholder.  Guards let requests pass here; what they     *)
(* answer when they do not is in Pipeline.                                 *)
(***************************************************************************)
EXTENDS Credentials, FiniteSets, SequencesExt

CONSTANTS
    Groups,         \* the groups of the program
    Root,           \* the one Build is called on
    Nil,            \* a nil *Group
    Guards,         \* the guards, and
    ZeroGuard,      \* a Guard that did not come from NewGuard
    Requirement,    \* guard -> its requirement set
    Placeholders,   \* the segments that stand for a parameter
    Segments,       \* the segments a request may carry
    Words,          \* segment -> its words in an operation id, "By" first for a placeholder
    Patterns,       \* the patterns a child is attached under; Inline is ""
    Endpoints,      \* operations: [method, path, guards, fields, id, security]
    Infra,          \* infrastructure routes: [method, path]
    MaxPath,        \* the longest path requested
    MaxDeclared     \* guards, children, endpoints and infra routes per group

\* A child without a pattern: the one pattern that is no path.
Inline == <<"">>

ASSUME RoutesAssumption ==
    /\ Root \in Groups /\ Nil \notin Groups
    /\ ZeroGuard \notin Guards
    /\ \A g \in Guards : Requirement[g] \in RequirementSets
    /\ Placeholders \intersect Segments = {}
    /\ "" \notin DOMAIN Words
    /\ Patterns \subseteq Seq(DOMAIN Words)
    /\ \A e \in Endpoints :
           e.path \in Seq(DOMAIN Words) /\ e.guards \in Seq(Guards \union {ZeroGuard})
    /\ \A i \in Infra : i.path \in Seq(DOMAIN Words)
    /\ MaxPath \in Nat

VARIABLES
    tree,        \* group -> [guards, children, endpoints, infra]
    attached,    \* the groups that are a child of another
    phase,       \* "declaring", "compiling", "built", "refused", or "panicked" in pass 2
    work,        \* the places of groups that pass 1 has still to enter
    nodes,       \* the compiled tree: one node per place a group has in it
    ops,         \* the operation catalogue, which is also the document
    request      \* the request under way: [method, path, router, rest, ran, bound, outcome]

routeVars == <<tree, attached, phase, work, nodes, ops, request>>

NoRequest == [outcome |-> "none"]

----------------------------------------------------------------------------
(* Declaring: nothing is validated before Build.                           *)

Declare ==
    /\ phase = "declaring"
    /\ UNCHANGED <<phase, work, nodes, ops, request>>

Guard(g, guard) ==
    /\ Declare
    /\ Len(tree[g].guards) < MaxDeclared
    /\ tree' = [tree EXCEPT ![g].guards = Append(@, guard)]
    /\ UNCHANGED attached

Register(g, endpoint) ==
    /\ Declare
    /\ Len(tree[g].endpoints) < MaxDeclared
    /\ tree' = [tree EXCEPT ![g].endpoints = Append(@, endpoint)]
    /\ UNCHANGED attached

HandleInfra(g, infra) ==
    /\ Declare
    /\ Len(tree[g].infra) < MaxDeclared
    /\ tree' = [tree EXCEPT ![g].infra = Append(@, infra)]
    /\ UNCHANGED attached

\* Mount, and Sub for a group that is new.
Mount(g, pattern, child) ==
    /\ Declare
    /\ Len(tree[g].children) < MaxDeclared
    /\ tree' = [tree EXCEPT ![g].children = Append(@, [pattern |-> pattern, node |-> child])]
    /\ attached' = attached \union ({child} \ {Nil})

----------------------------------------------------------------------------
(* Paths.                                                                  *)

Dynamic(segment) == segment \in Placeholders

\* Mutant: placeholder names are kept.
NormalizePathNamed(path) == path

\* normalizePath: placeholder names are erased.
NormalizePath(path) == [i \in DOMAIN path |-> IF Dynamic(path[i]) THEN "{}" ELSE path[i]]

PathPlaceholders(path) == {s \in Placeholders : \E i \in DOMAIN path : path[i] = s}

JoinPattern(base, pattern) == IF pattern = Inline THEN base ELSE base \o pattern

\* Mutant: the cumulative path is not checked.
RepeatsUnchecked(path) == FALSE

\* chi refuses a pattern that names a parameter twice.
RepeatsParameter(path) ==
    \E i \in DOMAIN path : \E j \in DOMAIN path : i # j /\ Dynamic(path[i]) /\ path[i] = path[j]

\* Mutant: a placeholder of the mount only contains itself.
MountContainsLiteral(mount, route) ==
    /\ Len(mount) <= Len(route)
    /\ \A i \in DOMAIN mount : mount[i] = route[i] \/ Dynamic(route[i])

\* Whether route can match at or beneath mount; dynamic segments overlap.
MountContainsRoutePattern(mount, route) ==
    /\ Len(mount) <= Len(route)
    /\ \A i \in DOMAIN mount : mount[i] = route[i] \/ Dynamic(mount[i]) \/ Dynamic(route[i])

\* Mutant: a mount below another counts, a second one at the same place not.
MountPatternsNested(left, right) ==
    /\ Len(left) # Len(right)
    /\ MountContainsRoutePattern(left, right) \/ MountContainsRoutePattern(right, left)

MountPatternsOverlap(left, right) ==
    MountContainsRoutePattern(left, right) \/ MountContainsRoutePattern(right, left)

----------------------------------------------------------------------------
(* Pass 1: compiling the tree.                                             *)

\* A zero Guard is a violation and left out; since nothing of such a tree gets
\* past Build, neither do the guards beside it here.
Valid(guards) == IF \A i \in DOMAIN guards : guards[i] # ZeroGuard THEN guards ELSE << >>

GuardsOf(g) == IF g = Nil THEN << >> ELSE Valid(tree[g].guards)

\* A child takes its prefix and guard chain from its parent; a patterned one
\* starts a router of its own.
Child(n, i) ==
    LET link == tree[n.group].children[i]
        at == Append(n.at, i)
    IN  [at |-> at,
         group |-> link.node,
         above |-> n.above \union {n.group},
         link |-> link.pattern,
         prefix |-> JoinPattern(n.prefix, link.pattern),
         chain |-> n.chain \o GuardsOf(link.node),
         router |-> IF link.pattern = Inline THEN n.router ELSE at,
         inline |-> IF link.pattern = Inline THEN n.inline \o GuardsOf(link.node) ELSE << >>,
         outer |-> IF link.pattern = Inline THEN n.outer ELSE [router |-> n.router, guards |-> n.inline]]

RootNode ==
    [at |-> << >>, group |-> Root, above |-> {}, link |-> << >>, prefix |-> << >>,
     chain |-> GuardsOf(Root), router |-> << >>, inline |-> << >>,
     outer |-> [router |-> << >>, guards |-> << >>]]

\* A nil group, and a group inside its own subtree, are not entered.
Entered(n) == n.group # Nil /\ n.group \notin n.above

Children(n) ==
    IF Entered(n) THEN {Child(n, i) : i \in DOMAIN tree[n.group].children} ELSE {}

\* One place comes before another when the tree is walked depth first.
Before(a, b) ==
    \E k \in DOMAIN b :
        /\ k = Len(a) + 1 \/ (k \in DOMAIN a /\ a[k] < b[k])
        /\ \A j \in 1 .. k - 1 : a[j] = b[j]

\* compiler.node: the next place, and the children it leads to.
Node(n) ==
    /\ phase = "compiling"
    /\ \A m \in work \ {n} : Before(n.at, m.at)
    /\ nodes' = nodes \union {n}
    /\ work' = (work \ {n}) \union Children(n)
    /\ UNCHANGED <<tree, attached, phase, ops, request>>

\* generateOperationID: the method and the words of the segments run together,
\* so different paths can have one id.
GenerateOperationID(method, path) ==
    <<method>> \o (IF path = << >> THEN <<"Root">>
                   ELSE FlattenSeq([i \in DOMAIN path |-> Words[path[i]]]))

OperationID(e, path) ==
    IF e.id = << >> THEN GenerateOperationID(e.method, path) ELSE e.id

\* compiler.endpoint: endpoint k of the group at a place in the tree.
Operation(n, k) ==
    LET e == tree[n.group].endpoints[k]
        path == n.prefix \o e.path
        guards == n.chain \o Valid(e.guards)
    IN  [at |-> n.at, nth |-> k, method |-> e.method, path |-> path,
         guards |-> guards,
         fields |-> e.fields,
         id |-> OperationID(e, path),
         security |-> OperationSecurity(
             [i \in DOMAIN guards |-> Requirement[guards[i]]], e.security)]

Operations ==
    UNION {{Operation(n, k) : k \in DOMAIN tree[n.group].endpoints} :
           n \in {m \in nodes : Entered(m)}}

\* compiler.infrastructure: claims its route, documents nothing.
InfraRoute(n, k) ==
    [at |-> n.at, nth |-> k, method |-> tree[n.group].infra[k].method,
     path |-> n.prefix \o tree[n.group].infra[k].path, guards |-> n.chain]

InfraRoutes ==
    UNION {{InfraRoute(n, k) : k \in DOMAIN tree[n.group].infra} :
           n \in {m \in nodes : Entered(m)}}

\* claimRoute: two routes of a method that differ at most in placeholder
\* names, infrastructure included.
DuplicateRoute(operations, infra) ==
    LET claims == {<<"op", o.at, o.nth, o.method, NormalizePath(o.path)>> : o \in operations}
                  \union {<<"infra", i.at, i.nth, i.method, NormalizePath(i.path)>> : i \in infra}
    IN  \E a \in claims : \E b \in claims : a # b /\ a[4] = b[4] /\ a[5] = b[5]

DuplicateID(operations) ==
    \E a \in operations : \E b \in operations : a # b /\ a.id = b.id

\* crossCheckPlaceholders, in both directions, on the cumulative path.
UnboundParameter(operations) == \E o \in operations : PathPlaceholders(o.path) # o.fields

\* validateAmbiguousPaths: one template spelled in two ways in the document.
AmbiguousPaths(operations) ==
    \E a \in operations : \E b \in operations :
        a.path # b.path /\ NormalizePath(a.path) = NormalizePath(b.path)

\* Invalid groups, guards, patterns and requirements.
InvalidDeclaration(operations, infra) ==
    \/ \E n \in nodes : ~Entered(n)
    \/ \E n \in {m \in nodes : Entered(m)} :
           \/ \E i \in DOMAIN tree[n.group].guards : tree[n.group].guards[i] = ZeroGuard
           \/ \E k \in DOMAIN tree[n.group].endpoints :
                  LET e == tree[n.group].endpoints[k]
                  IN  ~ValidRequirement(e.security)
                      \/ \E i \in DOMAIN e.guards : e.guards[i] = ZeroGuard
           \/ n.link # Inline /\ RepeatsParameter(n.link)
    \/ \E o \in operations \union infra : RepeatsParameter(o.path)

----------------------------------------------------------------------------
(* validateChildTopology: per node, what shares its chi router.            *)

\* A sequence that begins with another: a place at or below it, a path under
\* a prefix.
Extends(long, short) ==
    Len(short) <= Len(long) /\ \A i \in 1 .. Len(short) : long[i] = short[i]

\* collectTopologyClaims: the node itself and the groups inline below it.
Flattened(n) ==
    {f \in nodes : Entered(f) /\ f.router = n.router /\ Extends(f.at, n.at)}

\* The child of the node that owns a claim; 0 is the node itself.
Owner(n, at) == IF Len(at) = Len(n.at) THEN 0 ELSE at[Len(n.at) + 1]

PeerMounts(n) ==
    {m \in nodes :
        /\ m.link # Inline /\ m.group # Nil /\ ~RepeatsParameter(m.link)
        /\ m.outer.router = n.router /\ Extends(m.at, n.at) /\ m.at # n.at}

PeerRoutes(n) ==
    UNION {{[owner |-> Owner(n, f.at), path |-> tree[f.group].endpoints[k].path] :
            k \in DOMAIN tree[f.group].endpoints}
           \union
           {[owner |-> Owner(n, f.at), path |-> tree[f.group].infra[k].path] :
            k \in DOMAIN tree[f.group].infra} : f \in Flattened(n)}

ChildTopologyConflict(n) ==
    \E m \in PeerMounts(n) :
        \/ \E other \in PeerMounts(n) \ {m} : MountPatternsOverlap(other.link, m.link)
        \/ \E r \in PeerRoutes(n) :
               r.owner # Owner(n, m.at) /\ MountContainsRoutePattern(m.link, r.path)

----------------------------------------------------------------------------
(* Pass 2: the chi routers (an external library, as materialize uses it).  *)

NodeAt(router) == CHOOSE n \in nodes : n.at = router

\* What a router's tree holds: the routes of its own group and of the groups
\* inline in it, and the mounts, each behind the inline guards around it.
OpEntry(n, k) ==
    LET e == tree[n.group].endpoints[k]
    IN  [kind |-> "op", method |-> e.method, pattern |-> e.path,
         guards |-> n.inline \o e.guards, to |-> <<n.at, k>>]

InfraEntry(n, k) ==
    LET i == tree[n.group].infra[k]
    IN  [kind |-> "infra", method |-> i.method, pattern |-> i.path,
         guards |-> n.inline, to |-> <<n.at, k>>]

RouteEntries(router) ==
    UNION {{OpEntry(n, k) : k \in DOMAIN tree[n.group].endpoints}
           \union {InfraEntry(n, k) : k \in DOMAIN tree[n.group].infra} :
           n \in {m \in nodes : m.router = router}}

\* The nodes Route is called for.
Mounted == {n \in nodes : n.link # Inline /\ n.at # << >>}

MountEntry(n) ==
    [kind |-> "mount", method |-> "ANY", pattern |-> n.link, guards |-> n.outer.guards,
     to |-> n.at]

MountEntries(router) == {MountEntry(n) : n \in {m \in Mounted : m.outer.router = router}}

Entries(router) == RouteEntries(router) \union MountEntries(router)

\* Route panics when its pattern is mounted already.
MaterializePanics ==
    \E m \in Mounted : \E n \in Mounted :
        /\ m # n
        /\ m.outer.router = n.outer.router
        /\ NormalizePath(m.link) = NormalizePath(n.link)

\* BuildWith and buildWithStableRegistries, up to the first node.
Build ==
    /\ phase = "declaring"
    /\ phase' = "compiling"
    /\ work' = {RootNode}
    /\ UNCHANGED <<tree, attached, nodes, ops, request>>

Violations ==
    LET operations == Operations
        infra == InfraRoutes
    IN  \/ Root \in attached
        \/ InvalidDeclaration(operations, infra)
        \/ \E n \in {m \in nodes : Entered(m)} : ChildTopologyConflict(n)
        \/ DuplicateRoute(operations, infra)
        \/ DuplicateID(operations)
        \/ UnboundParameter(operations)
        \/ AmbiguousPaths(operations)

\* The rest of them: an application is returned, or nothing of the tree.
Materialize ==
    /\ phase = "compiling"
    /\ work = {}
    /\ phase' = IF Violations THEN "refused" ELSE IF MaterializePanics THEN "panicked" ELSE "built"
    /\ nodes' = IF phase' = "built" THEN nodes ELSE {}
    /\ ops' = IF phase' = "built" THEN Operations ELSE {}
    /\ UNCHANGED <<tree, attached, work, request>>

----------------------------------------------------------------------------
(* Requests.                                                               *)

Matches(entry, method, path) ==
    /\ IF entry.kind = "mount" THEN Len(entry.pattern) <= Len(path)
       ELSE Len(entry.pattern) = Len(path) /\ entry.method = method
    /\ \A i \in DOMAIN entry.pattern : Dynamic(entry.pattern[i]) \/ entry.pattern[i] = path[i]

\* How chi's tree ranks the edge an entry takes at segment i: static, then
\* parameter, then the catch-all below a mount.
Rank(entry, i) ==
    IF i > Len(entry.pattern) THEN 2 ELSE IF Dynamic(entry.pattern[i]) THEN 1 ELSE 0

Precedes(a, b, path) ==
    \E i \in DOMAIN path :
        /\ Rank(a, i) < Rank(b, i)
        /\ \A j \in 1 .. i - 1 : Rank(a, j) = Rank(b, j)

\* The entry the search with backtracking meets first.
Found(router, method, path) ==
    LET matching == {e \in Entries(router) : Matches(e, method, path)}
    IN  {e \in matching : \A other \in matching : ~Precedes(other, e, path)}

\* chiParams: what the segments of an entry capture, the latest value of a
\* name winning.
Captured(entry, path, bound) ==
    LET here == {s \in Placeholders : \E i \in DOMAIN entry.pattern : entry.pattern[i] = s}
    IN  [s \in here \union DOMAIN bound |->
            IF s \in here THEN path[CHOOSE i \in DOMAIN entry.pattern : entry.pattern[i] = s]
            ELSE bound[s]]

\* A router without a route or an inline group has no handler: it answers
\* 404 before its guards.
Installed(router) ==
    \/ Entries(router) # {}
    \/ \E n \in nodes : n.link = Inline /\ n.router = router

\* Mutant: a subrouter installs the whole chain, not only its own guards.
RouterGuardsInherited(router) == NodeAt(router).chain

RouterGuards(router) == IF Installed(router) THEN GuardsOf(NodeAt(router).group) ELSE << >>

Paths == UNION {[1 .. n -> Segments] : n \in 0 .. MaxPath}

Methods == {"GET", "POST"}

Arrive(method, path) ==
    /\ phase = "built"
    /\ request.outcome = "none"
    /\ request' = [method |-> method, path |-> path, router |-> << >>, rest |-> path,
                   ran |-> << >>, bound |-> << >>, outcome |-> "routing", to |-> << >>]
    /\ UNCHANGED <<tree, attached, phase, work, nodes, ops>>

\* A router runs its guards and hands over to a subrouter or a route; a
\* subrouter never gives a request back.
Route ==
    /\ request.outcome = "routing"
    /\ LET guarded == request.ran \o RouterGuards(request.router)
           found == Found(request.router, request.method, request.rest)
       IN  \/ /\ found = {}
              /\ request' = [request EXCEPT !.ran = guarded, !.outcome = "unmatched"]
           \/ \E e \in found :
                  request' = [request EXCEPT
                      !.ran = guarded \o e.guards,
                      !.bound = Captured(e, request.rest, @),
                      !.rest = SubSeq(@, Len(e.pattern) + 1, Len(@)),
                      !.router = IF e.kind = "mount" THEN e.to ELSE @,
                      !.outcome = IF e.kind = "mount" THEN "routing" ELSE e.kind,
                      !.to = e.to]
    /\ UNCHANGED <<tree, attached, phase, work, nodes, ops>>

Init ==
    /\ tree = [g \in Groups |->
                  [guards |-> << >>, children |-> << >>, endpoints |-> << >>, infra |-> << >>]]
    /\ attached = {}
    /\ phase = "declaring"
    /\ work = {}
    /\ nodes = {}
    /\ ops = {}
    /\ request = NoRequest

Declaration ==
    \E g \in Groups :
        \/ \E guard \in Guards \union {ZeroGuard} : Guard(g, guard)
        \/ \E endpoint \in Endpoints : Register(g, endpoint)
        \/ \E infra \in Infra : HandleInfra(g, infra)
        \/ \E pattern \in Patterns \union {Inline} : \E child \in Groups \union {Nil} :
               Mount(g, pattern, child)

Serving == (\E method \in Methods : \E path \in Paths : Arrive(method, path)) \/ Route

Compiling == Build \/ (\E n \in work : Node(n)) \/ Materialize

Next == Declaration \/ Compiling \/ Serving

Spec == Init /\ [][Next]_routeVars

----------------------------------------------------------------------------
(* Properties.                                                             *)

\* Pass 1 is complete: a tree chi cannot represent is refused with its
\* reasons, never found out by a panic of the router in pass 2.
CompileIsComplete == phase # "panicked"

Answered == CHOOSE o \in ops : <<o.at, o.nth>> = request.to

\* The guards that run before an operation are those its document lists, each
\* once, parents first and its own last, through every mix of mounted and
\* inline groups; infrastructure runs exactly its groups' guards.
GuardedAsDocumented ==
    /\ request.outcome = "op" => request.ran = Answered.guards
    /\ request.outcome = "infra" =>
           \E i \in InfraRoutes :
               <<i.at, i.nth>> = request.to /\ request.ran = i.guards

\* A path that begins as a prefix says.
Under(prefix, path) ==
    /\ Len(prefix) <= Len(path)
    /\ \A i \in DOMAIN prefix : Dynamic(prefix[i]) \/ prefix[i] = path[i]

PathMatches(template, path) == Len(template) = Len(path) /\ Under(template, path)

\* No request under the prefix of a patterned group gets past its guards,
\* whatever other route of the tree could match it, and although the path may
\* not exist below the prefix.
NoBypass ==
    request.outcome \in {"op", "infra", "unmatched"} =>
        \A n \in nodes :
            /\ n.link # Inline
            /\ Under(n.prefix, request.path)
            /\ Installed(n.at)
            => \A i \in DOMAIN n.chain :
                   \E j \in DOMAIN request.ran : request.ran[j] = n.chain[i]

Literal(segment) ==
    \E o \in ops \union InfraRoutes : \E i \in DOMAIN o.path : o.path[i] = segment

\* The catalogue is what is served: an operation that answers matches the
\* request by method and documented path, a request that some documented
\* operation matches is answered, and the path that is only its own (every
\* parameter a value that is no literal of the tree) is answered by it.
ServedAsDocumented ==
    /\ request.outcome = "op" =>
           Answered.method = request.method /\ PathMatches(Answered.path, request.path)
    /\ request.outcome = "unmatched" =>
           \A o \in ops : ~(o.method = request.method /\ PathMatches(o.path, request.path))
    /\ request.outcome \in {"op", "infra"} =>
           \A o \in ops :
               /\ o.method = request.method
               /\ PathMatches(o.path, request.path)
               /\ \A i \in DOMAIN o.path : Dynamic(o.path[i]) => ~Literal(request.path[i])
               => request.outcome = "op" /\ request.to = <<o.at, o.nth>>

\* Every path field of the request struct is filled with the segment at its
\* place in the documented path, however many routers matched parts of it.
ParametersBound ==
    request.outcome = "op" =>
        \A f \in Answered.fields :
            /\ f \in DOMAIN request.bound
            /\ f \in PathPlaceholders(Answered.path)
            /\ \A i \in DOMAIN Answered.path :
                   Answered.path[i] = f => request.bound[f] = request.path[i]

\* The documented security says exactly what the guards that ran, and the
\* operation itself, ask for: credentials satisfy it if and only if they
\* satisfy each of them.
SecurityHonest ==
    request.outcome = "op" =>
        \A presented \in CredentialSets :
            Satisfied(Answered.security, presented) <=>
                /\ \A i \in DOMAIN request.ran : Satisfied(Requirement[request.ran[i]], presented)
                /\ Satisfied(tree[NodeAt(Answered.at).group].endpoints[Answered.nth].security,
                             presented)

----------------------------------------------------------------------------
(* Inductive: the geometry of the compiled tree.                           *)

\* Which child a group is of its parent.
Place == Nat \ {0}

Spelled == Seq(DOMAIN Words)
Chains == Seq(Guards)

NodeType ==
    [at : Seq(Place), group : Groups \union {Nil}, above : SUBSET Groups,
     link : Patterns \union {Inline, << >>}, prefix : Spelled, chain : Chains,
     router : Seq(Place), inline : Chains,
     outer : [router : Seq(Place), guards : Chains]]

\* A node that starts a router.
IsRouter(x) == x.router = x.at /\ x.link # Inline

\* Where n comes from.
Descends(n, entered) ==
    \/ n = RootNode
    \/ \E p \in entered : n \in Children(p)

\* x is the router that serves n.
Serves(x, n) ==
    /\ x.at = n.router /\ IsRouter(x) /\ Extends(n.at, x.at)
    /\ n.chain = x.chain \o n.inline
    /\ n.prefix = x.prefix

\* x is the router that n is mounted on.
Holds(x, n) ==
    /\ x.at = n.outer.router /\ IsRouter(x)
    /\ Extends(n.at, x.at) /\ n.at # x.at
    /\ n.chain = (x.chain \o n.outer.guards) \o GuardsOf(n.group)
    /\ n.prefix = x.prefix \o n.link

\* y is at or above n.
Inherits(n, y, set) ==
    /\ Extends(n.chain, y.chain)
    /\ Extends(n.prefix, y.prefix)
    /\ Len(n.router) <= Len(y.at) => y.router = n.router
    /\ y.router = y.at =>
           /\ Extends(n.router, y.at)
           /\ n.router # y.at =>
                  \E m \in set : /\ m.link # Inline /\ m.at # << >>
                                 /\ m.outer.router = y.at /\ Extends(n.at, m.at)

\* The place where the ways to m and n part.
Parts(y, m, n) ==
    /\ Extends(m.at, y.at) /\ Extends(n.at, y.at)
    /\ \/ m.at = y.at \/ n.at = y.at
       \/ m.at[Len(y.at) + 1] # n.at[Len(y.at) + 1]

\* The places in set, of which those in leaves are not entered yet.
Shape(set, leaves, entered) ==
    /\ set \subseteq NodeType
    /\ RootNode \in set
    /\ \A n \in set : Descends(n, entered)
    /\ \A m \in set : \A n \in set : m.at = n.at => m = n
    /\ \A w \in leaves : \A n \in set : Extends(n.at, w.at) => n = w
    /\ \A n \in set : \E x \in set : Serves(x, n)
    /\ \A n \in set : n.link # Inline /\ n.at # << >> =>
           n.router = n.at /\ \E x \in set : Holds(x, n)
    /\ \A n \in set : \A y \in set : Extends(n.at, y.at) => Inherits(n, y, set)
    /\ \A m \in set : \A n \in set : \E y \in set : Parts(y, m, n)

Compiled ==
    /\ phase = "declaring" => nodes = {} /\ work = {}
    /\ phase \in {"compiling", "built"} => Shape(nodes \union work, work, nodes)
    /\ phase = "built" => work = {} /\ ops = Operations /\ ~Violations

----------------------------------------------------------------------------
(* Inductive: a request on its way.                                        *)

\* What is left of a path behind a prefix.
Behind(prefix, path, rest) ==
    /\ Len(rest) = Len(path) - Len(prefix)
    /\ \A i \in DOMAIN rest : rest[i] = path[Len(prefix) + i]

\* The placeholders of a prefix are bound to segments of the path.
Binds(prefix, path, bound) ==
    \A s \in PathPlaceholders(prefix) :
        /\ s \in DOMAIN bound
        /\ \E i \in DOMAIN prefix : prefix[i] = s /\ bound[s] = path[i]

\* The routes of node n.
RoutesOf(n) ==
    {tree[n.group].endpoints[k] : k \in DOMAIN tree[n.group].endpoints}
    \union {tree[n.group].infra[k] : k \in DOMAIN tree[n.group].infra}

\* Whatever serves the request, or guards it, is not left aside.
OnTheWay(x, q) ==
    /\ \A n \in nodes : n.link # Inline /\ Under(n.prefix, q.path) =>
           Extends(n.at, x.at) \/ Extends(x.at, n.at)
    /\ \A n \in nodes : \A r \in RoutesOf(n) :
           r.method = q.method /\ PathMatches(n.prefix \o r.path, q.path) => Extends(n.at, x.at)
    /\ \A n \in nodes : n.link # Inline /\ Extends(x.at, n.at) /\ n.at # x.at =>
           Extends(q.ran, n.chain)

\* Request q has come to the router x.
RoutedTo(x, q) ==
    /\ x.at = q.router /\ IsRouter(x)
    /\ x.chain = q.ran \o GuardsOf(x.group)
    /\ Under(x.prefix, q.path) /\ Behind(x.prefix, q.path, q.rest)
    /\ Binds(x.prefix, q.path, q.bound)
    /\ OnTheWay(x, q)

Routed ==
    /\ phase # "built" => request = NoRequest
    /\ request.outcome = "routing" =>
           /\ DOMAIN request = {"method", "path", "router", "rest", "ran", "bound", "outcome", "to"}
           /\ request.path \in Seq(Segments) /\ request.rest \in Seq(Segments)
           /\ request.ran \in Chains
           /\ \E x \in nodes : RoutedTo(x, request)

=============================================================================
