----------------------------- MODULE MCDocument -----------------------------
(***************************************************************************)
(* Small instances of Document: every tag of up to three tokens, every     *)
(* type graph over three types (structs of up to two members, slices,      *)
(* aliases, enums, and one registered, rejected or embedding type) under   *)
(* every pair of bodies, and three runs of the generator over two names.   *)
(***************************************************************************)
EXTENDS Document

CONSTANTS none, original, t1, t2, t3, n1, n2

\* ------------------------------------------------------------------- tags
Field(a, b, c, nullable) == [kinds |-> <<a, b, c>>, nullable |-> nullable]

\* Scalars and references, lists and maps of them, lists of lists and of maps,
\* and a reference to a named list.
MCFields ==
    {Field(k, "none", "none", n) :
         k \in {"number", "string", "int64", "ref"}, n \in {"yes", "no"}}
    \union {Field("list", i, "none", "no") : i \in {"number", "string", "int64"}}
    \union {Field("map", i, "none", "no") : i \in {"string", "int64"}}
    \union {Field("list", "list", "string", "no"), Field("list", "map", "string", "no"),
            Field("ref", "string", "none", "no")}

Tok(rule, arg) == [rule |-> rule, arg |-> arg]

MCTokens ==
    {Tok(rule, n) : rule \in {"gte", "lte"}, n \in {1, 2}}
    \union {Tok("gt", 1), Tok("lt", 2), Tok("len", 2), Tok("ne", 1),
            Tok("oneof", {1, 3}), Tok("oneof", {}),
            Tok("format", "email"), Tok("pattern", "alpha"), Tok("pattern", "upper"),
            Tok("digits", "digits"), Tok("digits", "boolean"),
            Tok("code", [class |-> "country", length |-> 2]),
            Tok("range", [low |-> 0, high |-> 2])}
    \union {Tok(rule, "none") :
                rule \in {"required", "omitempty", "unique", "note", "dive", "unmapped"}}

\* Only an int64 has a text of its own and only a collection repeats elements;
\* neither has string classes.
MCValues ==
    {v \in [size : 0..3, wire : 0..3, word : 0..3,
            classes : {{}, {"email"}, {"alpha", "upper", "country"}, {"digits"}},
            distinct : {"yes", "no"}] :
        /\ v.wire \in {v.size, 1} /\ (v.word = v.size \/ v.size \in {0, 2})
        /\ v.classes # {} => v.wire = v.size /\ v.distinct = "yes"}

\* ------------------------------------------------------------- components
MCTypes == 1 .. 3

Node(kind, refs) == [kind |-> kind, refs |-> refs]

Nodes ==
    {Node("struct", r) : r \in {s \in SUBSET Types : Cardinality(s) <= 2}}
    \union {Node(k, {t}) : k \in {"list", "alias", "embed"}, t \in Types}
    \union {Node(k, {}) : k \in {"enum", "known", "marshaler"}}

Branching(g) == {t \in Types : Cardinality(g[t].refs) = 2}
Plain(g, types) == \A t \in types : g[t].kind \in {"struct", "enum"}

\* An alias of itself is read structurally, only structs are embedded, and the
\* kinds that never become a component are tried on one type.  The rest keeps
\* the number of graphs down: some type is no slice or alias, and the types
\* around two branching ones or around an unusual one are structs and enums.
MCGraphs ==
    {g \in [Types -> Nodes] :
        /\ \A t \in Types : g[t].kind = "alias" => t \notin g[t].refs
        /\ \A t \in Types : g[t].kind \in {"embed", "known", "marshaler"} => t = 2
        /\ \A t \in Types : g[t].kind = "embed" =>
               \A u \in g[t].refs : g[u].kind \in {"struct", "embed"}
        /\ g[2].kind \in {"embed", "known", "marshaler"} => Plain(g, {1, 3})
        /\ \E t \in Types : g[t].kind \notin {"list", "alias"}
        /\ Cardinality(Branching(g)) <= 2
        /\ Cardinality(Branching(g)) = 2 => Plain(g, Types)}

\* Type 1 is a JSON body, and one more body of type 1 or 2 may join it.
MCDocuments ==
    {d \in [json : SUBSET {1, 2}, raw : SUBSET {1, 2}, reply : SUBSET {1, 2}] :
        1 \in d.json /\ Cardinality(d.json) + Cardinality(d.raw) + Cardinality(d.reply) <= 2}

MCWords == {"A", "B", "C", "Request"}

OwnNames == [t \in Types |-> << <<"A", "B", "C">>[t] >>]

\* Every type its own name, or type 2 named like type 1 or like its variant.
MCNamings ==
    {OwnNames} \union {[OwnNames EXCEPT ![2] = n] : n \in {<<"A">>, <<"A", "Request">>}}

BelowBodies ==
    LET within[n \in 0 .. 3] ==
            IF n = 0 THEN document.json \union document.raw \union document.reply
            ELSE within[n - 1] \union UNION {graph[t].refs : t \in within[n - 1]}
    IN  within[3]

\* Types no body reaches do not matter: one of them is as good as another.
Relevant == \A t \in Types \ BelowBodies : graph[t] = Node("enum", {})

\* Clashing names are tried on the small graphs.
SmallWhenClashing ==
    naming = OwnNames
    \/ \A t \in Types : graph[t].kind \in {"struct", "enum"} /\ Cardinality(graph[t].refs) <= 1

\* ------------------------------------------------------------------ files
MCRuns == {t1, t2, t3}
MCNames == {n1, n2}

\* One refused run is as good as several.
OneRefused == \A r \in Runs \ {t1} : refused[r] = "no"

MCInit ==
    /\ Init
    /\ part = "components" => Relevant /\ SmallWhenClashing
    /\ part = "files" => OneRefused

MCSpec == MCInit /\ [][Next]_documentVars /\ WF_documentVars(Next)

=============================================================================
