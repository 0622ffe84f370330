----------------------------- MODULE Components -----------------------------
(***************************************************************************)
(* The components of the OpenAPI document (internal/httpx/schema.go and    *)
(* openapi.go).  Every named Go type is documented in two directions: as a *)
(* response, whose objects stay open, and as a request body, whose objects *)
(* are closed because the decoder refuses unknown members.  The generator  *)
(* derives the response components of every operation, then the request    *)
(* variants of the JSON bodies, and merges the two sets back to the        *)
(* smallest one: a variant whose response twin the document no longer uses *)
(* takes its name, twins that say the same collapse, the others keep the   *)
(* suffix ".Request".  Last, components get their public names and every   *)
(* reference is rewritten.                                                 *)
(*                                                                         *)
(* A component id is <<type, context>>; a schema is what reconciliation    *)
(* reads of it: its shape, whether it is closed, and the reference behind  *)
(* each named type it mentions.                                            *)
(***************************************************************************)
EXTENDS Integers, FiniteSets, Sequences

CONSTANTS
    Types,       \* the named Go types
    Graphs,      \* the type graphs: type -> [kind, refs]
    Documents,   \* the operations: [json, raw, reply], sets of body types
    Words,       \* what public names are made of
    Namings      \* the naming strategies: type -> public name, a sequence of words

Contexts == {"plain", "Request"}
Ids == Types \X Contexts

\* list stands for every defined slice, array or map; embed for a struct that
\* embeds another without a json name; known for a registered type, which is
\* inlined; marshaler for a type with custom JSON and no registration.
TypeKinds == {"struct", "embed", "list", "enum", "alias", "known", "marshaler"}

ASSUME ComponentsAssumption ==
    /\ IsFiniteSet(Types)
    /\ \A g \in Graphs : \A t \in Types :
           /\ g[t].kind \in TypeKinds /\ g[t].refs \subseteq Types
           /\ g[t].kind = "known" => g[t].refs = {}
    /\ \A n \in Namings : \A t \in Types : n[t] \in Seq(Words)
    /\ \A d \in Documents :
           d.json \subseteq Types /\ d.raw \subseteq Types /\ d.reply \subseteq Types

VARIABLES
    graph,       \* the types of this program
    document,    \* its operations
    naming,      \* its model name function
    phase,       \* where buildSpecSkeletonAndOperations is
    pending,     \* the roots this phase has still to derive
    stack,       \* the derivations under way, innermost last: [id, left]
    owned,       \* schemaOwner: the ids reserved
    derived,     \* the ids whose schema is stored
    rename,      \* pass 1: types whose request variant takes the plain name
    shared,      \* types documented in both directions
    collapse,    \* pass 2: shared types whose twins still look the same
    published,   \* public name -> schema, once finalised
    violated     \* "yes" when the build will fail

componentVars == <<graph, document, naming, phase, pending, stack, owned, derived,
                   rename, shared, collapse, published, violated>>

Phases == {"operations", "requests", "reachable", "reconcile", "apply", "built", "failed"}

----------------------------------------------------------------------------
(* Schemas.                                                                *)

\* Registered types and rejected marshalers never become a reference.
Inline(t) == graph[t].kind \in {"known", "marshaler"}

\* The named types a schema of t refers to.
Referenced(t) == {c \in graph[t].refs : ~Inline(c)}

\* closeObject: a plain object is closed in request context; an allOf never is.
Closed(t, ctx) == IF ctx = "Request" /\ graph[t].kind = "struct" THEN "closed" ELSE "open"

\* The schema deriveNamedType builds for t in context ctx.
Schema(id) ==
    [shape |-> graph[id[1]].kind,
     object |-> Closed(id[1], id[2]),
     refs |-> [c \in Referenced(id[1]) |-> <<c, id[2]>>]]

\* The references of the operations: a JSON body points at its request
\* variant once applyRequestSchemaContexts has been there.
JsonRoots(ctx) == {<<t, ctx>> : t \in {u \in document.json : ~Inline(u)}}
OpenRoots == {<<t, "plain">> : t \in {u \in document.raw \union document.reply : ~Inline(u)}}

----------------------------------------------------------------------------
(* Deriving components.                                                    *)

Top == stack[Len(stack)]

\* The frame on top has dealt with child c.
Visited(c) ==
    [stack EXCEPT ![Len(stack)] = [id |-> Top.id, left |-> Top.left \ {c}]]

ComponentsInit ==
    /\ graph \in Graphs
    /\ document \in Documents
    /\ naming \in Namings
    /\ phase = "operations"
    /\ pending = document.json \union document.raw \union document.reply
    /\ stack = << >>
    /\ owned = {}
    /\ derived = {}
    /\ rename = {}
    /\ shared = {}
    /\ collapse = {}
    /\ published = << >>
    /\ violated = "no"

\* deriveNamedType for a type reached as a body or as a member: a registered
\* type stores its entry under the plain key whatever the context, a marshaler
\* is a violation, an owned key is a plain $ref (a cycle, or reuse), and a new
\* one is reserved before its members are derived.
Derive(t, ctx, rest) ==
    \/ /\ graph[t].kind = "known"
       /\ owned' = owned \union {<<t, "plain">>}
       /\ derived' = derived \union {<<t, "plain">>}
       /\ stack' = rest
       /\ UNCHANGED violated
    \/ /\ graph[t].kind = "marshaler"
       /\ violated' = "yes"
       /\ stack' = rest
       /\ UNCHANGED <<owned, derived>>
    \/ /\ ~Inline(t)
       /\ <<t, ctx>> \in owned
       /\ stack' = rest
       /\ UNCHANGED <<owned, derived, violated>>
    \/ /\ ~Inline(t)
       /\ <<t, ctx>> \notin owned
       /\ owned' = owned \union {<<t, ctx>>}
       /\ stack' = Append(rest, [id |-> <<t, ctx>>, left |-> graph[t].refs])
       \* A request object that embeds another cannot be documented as closed.
       /\ violated' = IF graph[t].kind = "embed" /\ ctx = "Request" THEN "yes" ELSE violated
       /\ UNCHANGED derived

\* buildOperation derives a body or a reply; requestVariant derives the owner
\* of a JSON body again in request context.  Raw bodies are not touched.
DeriveRoot(t) ==
    /\ phase \in {"operations", "requests"}
    /\ stack = << >>
    /\ t \in pending
    /\ pending' = pending \ {t}
    /\ Derive(t, IF phase = "requests" THEN "Request" ELSE "plain", stack)
    /\ UNCHANGED <<graph, document, naming, phase, rename, shared, collapse, published>>

\* The next member of the type being derived.
DeriveMember(c) ==
    /\ stack # << >>
    /\ c \in Top.left
    /\ Derive(c, Top.id[2], Visited(c))
    /\ UNCHANGED <<graph, document, naming, phase, pending, rename, shared, collapse, published>>

\* The schema replaces its reservation.
StoreSchema ==
    /\ stack # << >>
    /\ Top.left = {}
    /\ derived' = derived \union {Top.id}
    /\ stack' = SubSeq(stack, 1, Len(stack) - 1)
    /\ UNCHANGED <<graph, document, naming, phase, pending, owned, rename, shared,
                   collapse, published, violated>>

\* Every operation is built; then every JSON body is re-pointed.
NextPhase ==
    /\ stack = << >>
    /\ pending = {}
    /\ \/ phase = "operations" /\ phase' = "requests" /\ pending' = document.json
       \/ phase = "requests" /\ phase' = "reachable" /\ UNCHANGED pending
    /\ UNCHANGED <<graph, document, naming, stack, owned, derived, rename, shared,
                   collapse, published, violated>>

----------------------------------------------------------------------------
(* Reconciling the two component sets.                                     *)

\* A set is closed when the schemas stored for its members refer into it.
Follows(set, stored) ==
    \A id \in set \intersect stored : \A c \in Referenced(id[1]) : <<c, id[2]>> \in set

\* Where references lead from roots, through stored schemas: the smallest
\* closed set that holds the roots.
ReachedFrom(roots, stored) ==
    LET closed == {more \in SUBSET (Ids \ roots) : Follows(roots \union more, stored)}
    IN  roots \union {id \in Ids : \A more \in closed : id \in more}

Roots == JsonRoots("Request") \union OpenRoots

\* reachableComponents: what the operations still refer to.
Reachable == ReachedFrom(Roots, derived)

Variants == {t \in Types : <<t, "Request">> \in derived}

\* Pass 1: a variant whose response twin is not stored, or not reachable any
\* more, is the only documentation of its type.
Pass1 ==
    /\ phase = "reachable"
    /\ LET reachable == Reachable
       IN  rename' = {t \in Variants : <<t, "plain">> \notin derived \intersect reachable}
    /\ shared' = Variants \ rename'
    /\ collapse' = shared'
    /\ phase' = "reconcile"
    /\ UNCHANGED <<graph, document, naming, pending, stack, owned, derived, published, violated>>

\* canonical reads a renamed or collapsing variant as its base.
Canonical(set, id) ==
    IF id[2] = "Request" /\ id[1] \in rename \union set THEN <<id[1], "plain">> ELSE id

CanonicalSchema(set, id) ==
    [Schema(id) EXCEPT !.refs =
        [c \in Referenced(id[1]) |-> Canonical(set, Schema(id).refs[c])]]

\* schemasEquivalent: the twins of t read the same when those in set do.
Equivalent(set, t) ==
    CanonicalSchema(set, <<t, "Request">>) = CanonicalSchema(set, <<t, "plain">>)

\* Mutants: the first difference ends the search; or it starts it again.
SeparateAll(t) ==
    /\ phase = "reconcile"
    /\ t \in collapse
    /\ ~Equivalent(collapse, t)
    /\ collapse' = {}
    /\ UNCHANGED <<graph, document, naming, phase, pending, stack, owned, derived,
                   rename, shared, published, violated>>
SeparateAgain(t) ==
    /\ phase = "reconcile"
    /\ t \in collapse
    /\ ~Equivalent(collapse, t)
    /\ collapse' = shared \ {t}
    /\ UNCHANGED <<graph, document, naming, phase, pending, stack, owned, derived,
                   rename, shared, published, violated>>

\* Pass 2: a twin that turns out to differ leaves the set, and the others are
\* compared again.  The code goes through shared in id order, round after
\* round; here any differing twin may be next.
Separate(t) ==
    /\ phase = "reconcile"
    /\ t \in collapse
    /\ ~Equivalent(collapse, t)
    /\ collapse' = collapse \ {t}
    /\ UNCHANGED <<graph, document, naming, phase, pending, stack, owned, derived,
                   rename, shared, published, violated>>

\* A whole round changed nothing: renamed variants move onto the plain key,
\* collapsed ones are dropped.
Moved == rename \union collapse

Reconciled ==
    /\ phase = "reconcile"
    /\ \A t \in collapse : Equivalent(collapse, t)
    /\ owned' = (owned \ {<<t, "Request">> : t \in Moved})
                \union {<<t, "plain">> : t \in rename}
    /\ derived' = (derived \ {<<t, "Request">> : t \in Moved})
                  \union {<<t, "plain">> : t \in rename}
    /\ phase' = "apply"
    /\ UNCHANGED <<graph, document, naming, pending, stack, rename, shared, collapse,
                   published, violated>>

----------------------------------------------------------------------------
(* Public names.                                                           *)

\* Mutant: renamed variants are forgotten.
RemappedCollapsed(id) ==
    IF id[2] = "Request" /\ id[1] \in collapse THEN <<id[1], "plain">> ELSE id

\* The id a reference points at after updateRefs has applied the mapping.
Remapped(id) == IF id[2] = "Request" /\ id[1] \in Moved THEN <<id[1], "plain">> ELSE id

\* Mutant: the response derivation stays under the plain key.
SourceKept(id) == id

\* The schema stored under an id: a renamed variant is a request derivation.
Source(id) == IF id[2] = "plain" /\ id[1] \in rename THEN <<id[1], "Request">> ELSE id

\* finalizeSchemas: the strategy names the type, a surviving variant gets the
\* suffix back.
PublicName(id) ==
    IF id[2] = "Request" THEN Append(naming[id[1]], "Request") ELSE naming[id[1]]

\* Two components that map to one name.
Collision ==
    \E a \in derived : \E b \in derived : a # b /\ PublicName(a) = PublicName(b)

\* A reference to an id that was never stored keeps its internal spelling,
\* which is no component's name.
Unresolved == << >>

\* The stored schema, its references renamed twice: by reconciliation's
\* mapping, then to public names.
Renamed(id) ==
    [Schema(id) EXCEPT !.refs =
        [c \in Referenced(id[1]) |->
            LET r == Remapped(Schema(id).refs[c])
            IN  IF r \in derived THEN PublicName(r) ELSE Unresolved]]

\* validateRefs: a $ref of an operation or of a component without a component.
DanglingRef(doc) ==
    \/ \E id \in Roots : Remapped(id) \notin derived
    \/ \E n \in DOMAIN doc :
           \E c \in DOMAIN doc[n].refs : doc[n].refs[c] \notin DOMAIN doc

\* The document with its public names.  A collision is a violation, and which
\* of the two schemas the map keeps depends on its iteration order.
Finalize ==
    /\ phase = "apply"
    /\ \E kept \in SUBSET derived :
           /\ \A id \in derived :
                  Cardinality({k \in kept : PublicName(k) = PublicName(id)}) = 1
           /\ published' = [n \in {PublicName(id) : id \in kept} |->
                  Renamed(Source(CHOOSE id \in kept : PublicName(id) = n))]
    /\ violated' = IF Collision \/ DanglingRef(published') THEN "yes" ELSE violated
    /\ phase' = IF violated' = "yes" THEN "failed" ELSE "built"
    /\ UNCHANGED <<graph, document, naming, pending, stack, owned, derived, rename,
                   shared, collapse>>

ComponentsNext ==
    \/ \E t \in Types : DeriveRoot(t) \/ DeriveMember(t) \/ Separate(t)
    \/ StoreSchema \/ NextPhase \/ Pass1 \/ Reconciled \/ Finalize

ComponentsSpec == ComponentsInit /\ [][ComponentsNext]_componentVars

----------------------------------------------------------------------------
(* Properties.                                                             *)

\* Types of the variables.
ComponentsTypeOK ==
    /\ graph \in Graphs
    /\ document \in Documents
    /\ naming \in Namings
    /\ phase \in Phases
    /\ pending \subseteq Types
    /\ stack \in Seq([id : Ids, left : SUBSET Types])
    /\ owned \subseteq Ids
    /\ derived \subseteq owned
    /\ rename \subseteq Types
    /\ shared \subseteq Types
    /\ collapse \subseteq shared
    /\ violated \in {"yes", "no"}

\* The public name that documents a type in a direction.
NameOf(id) == PublicName(Remapped(id))

\* In a document that Build accepts every reference resolves, and it leads,
\* however deep and however recursive the types are, to the derivation of the
\* right type in the right direction: below a JSON request body every object
\* is closed, below a reply or a raw body every object is open, no name of
\* another type, no merged twin and no renamed variant in between.  Frontends
\* type against response components, so these keep their own type's name.
DirectionsKept ==
    phase = "built" =>
        \A id \in ReachedFrom(Roots, Ids) :
            /\ NameOf(id) \in DOMAIN published
            /\ published[NameOf(id)] =
                   [shape |-> graph[id[1]].kind,
                    object |-> Closed(id[1], id[2]),
                    refs |-> [c \in Referenced(id[1]) |-> NameOf(<<c, id[2]>>)]]
            /\ id[2] = "plain" => NameOf(id) = naming[id[1]]

\* Merging and renaming never break a reference by themselves: a document of
\* these graphs is refused for a marshaler without a registration, a request
\* body that embeds, or two components of one name.  What else the code
\* refuses, an enum without a registration or a name that is no component
\* name, it refuses by looking at one type alone, and no graph here has it.
FailuresExplained ==
    phase = "failed" =>
        \/ \E t \in Types : graph[t].kind \in {"marshaler", "embed"}
        \/ \E t \in Types : \E u \in Types :
               t # u /\ naming[t] \in {naming[u], Append(naming[u], "Request")}

\* Twins assumed equal are equal under that assumption.
Consistent(set) == \A t \in set : Equivalent(set, t)

\* The collapse loop ends in the greatest set of twins that can be read as one
\* consistently, so the outcome does not depend on the order of comparison:
\* nothing that differs is merged and no needless ".Request" survives.
CollapseIsGreatest ==
    /\ phase \in {"reconcile", "apply", "built", "failed"} =>
           \A set \in SUBSET shared : Consistent(set) => set \subseteq collapse
    /\ phase \in {"apply", "built", "failed"} => Consistent(collapse)

\* Inductive.  While components are derived, every id that is reserved is
\* stored or on the stack, and what a type refers to is reserved, except the
\* members its frame has still to visit.
Derivation ==
    phase \in {"operations", "requests", "reachable", "reconcile"} =>
        /\ \A id \in owned \ derived : \E i \in 1 .. Len(stack) : stack[i].id = id
        /\ \A id \in derived : \A c \in Referenced(id[1]) : <<c, id[2]>> \in owned
        /\ \A i \in 1 .. Len(stack) :
               \A c \in Referenced(stack[i].id[1]) \ stack[i].left :
                   <<c, stack[i].id[2]>> \in owned
        /\ \A t \in document.raw \union document.reply :
               ~Inline(t) /\ (phase = "operations" => t \notin pending)
                   => <<t, "plain">> \in owned
        /\ \A t \in document.json :
               /\ ~Inline(t) /\ phase # "operations"
               /\ phase = "requests" => t \notin pending
               => <<t, "Request">> \in owned

\* What the operations refer to in plain direction keeps its own schema, and
\* a reference, once mapped, leads to a stored component.
Reconciliation ==
    /\ phase = "reconcile" =>
           /\ rename \subseteq Variants
           /\ \A t \in shared : <<t, "plain">> \in derived
    /\ phase \in {"reconcile", "apply"} =>
           \A t \in rename : <<t, "plain">> \notin ReachedFrom(Roots, Ids)
    /\ phase = "apply" =>
           /\ \A id \in ReachedFrom(Roots, Ids) : Remapped(id) \in derived
           /\ \A id \in derived : \A c \in Referenced(id[1]) :
                  Remapped(<<c, Source(id)[2]>>) \in derived

\* A violation before names are given is a rejected or an embedding type.
Rejected ==
    violated = "yes" /\ phase # "failed" =>
        \E t \in Types : graph[t].kind \in {"marshaler", "embed"}

ComponentsInv ==
    Derivation /\ Reconciliation /\ Rejected /\ DirectionsKept /\ FailuresExplained

=============================================================================
