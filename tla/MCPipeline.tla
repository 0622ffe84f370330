----------------------------- MODULE MCPipeline -----------------------------
(***************************************************************************)
(* Small instances of Pipeline.  Declarations varies one part of an        *)
(* operation at a time: its guards, its request plan, its success mode.    *)
(* Some of them are declarations that Build refuses.  Beside them, and     *)
(* sharing nothing with them, a client turns the pages of a list.          *)
(***************************************************************************)
EXTENDS Pipeline, CursorPages

CONSTANTS r1, r2

OneRequest  == {r1}
TwoRequests == {r1, r2}

authenticated == [problems |-> {"Unauthorized"}, challenge |-> FALSE]
permitted     == [problems |-> {"Forbidden", "TooManyRequests"}, challenge |-> FALSE]
basicAuth     == [problems |-> {}, challenge |-> TRUE]
ownsServerErrors == [problems |-> {"Internal"}, challenge |-> FALSE]
twoUnauthorized  == [problems |-> {"Unauthorized"}, challenge |-> TRUE]

Chains == {<<>>, <<authenticated>>, <<authenticated, permitted>>, <<basicAuth>>,
           <<basicAuth, authenticated>>, <<ownsServerErrors>>, <<twoUnauthorized>>}

ProblemSets == {{}, {"NotFound"}, {"BadRequest", "Conflict"}}

Parameters ==
    {[source |-> "query",  wrap |-> <<>>,                   base |-> "string"],
     [source |-> "query",  wrap |-> <<"slice">>,            base |-> "string"],
     [source |-> "query",  wrap |-> <<"pointer", "slice">>, base |-> "string"],
     [source |-> "query",  wrap |-> <<"slice", "pointer">>, base |-> "text"],
     [source |-> "header", wrap |-> <<"pointer">>,          base |-> "string"],
     [source |-> "cookie", wrap |-> <<"slice">>,            base |-> "string"],
     [source |-> "path",   wrap |-> <<>>,                   base |-> "int"]}

Bodies == {"none", "required", "optional", "rawRequired", "rawOptional"}

Modes == {<<"enveloped", 200>>, <<"page", 200>>, <<"message", 202>>,
          <<"message", 204>>, <<"redirect", 302>>, <<"redirect", 304>>,
          <<"enveloped", 204>>}

Ping == [raw |-> FALSE, guards |-> <<>>, problems |-> {}, params |-> {},
         body |-> "none", validated |-> FALSE, enum |-> FALSE,
         mode |-> "enveloped", status |-> 200, cookies |-> {}]

(* Two operations that answer with the same package-level problem.          *)
Found == [Ping EXCEPT !.problems = {"NotFound"}]

TwoOperations ==
    {Found,
     [Ping EXCEPT !.guards = <<[problems |-> {"NotFound"}, challenge |-> FALSE]>>]}

Declarations ==
    TwoOperations
    \cup
    {[Ping EXCEPT !.raw = raw, !.guards = chain, !.problems = ps] :
        raw \in BOOLEAN, chain \in Chains, ps \in ProblemSets}
    \cup
    {[Ping EXCEPT !.params = ps, !.body = b, !.validated = v, !.enum = e] :
        ps \in {{}} \cup {{p} : p \in Parameters}, b \in Bodies,
        v \in BOOLEAN, e \in BOOLEAN}
    \cup
    {[Ping EXCEPT !.mode = m[1], !.status = m[2], !.cookies = cs, !.problems = ps] :
        m \in Modes, cs \in {{}, {"session"}}, ps \in ProblemSets}

AllErrors ==
    {Problem(k) : k \in Kinds}
    \cup {[type |-> "shared", kind |-> "NotFound"]}
    \cup {Err(t) : t \in ErrorTypes \ {"problem", "shared"}}

AllSent ==
    [body : {[present |-> FALSE, json |-> FALSE, content |-> "empty"]}
            \cup [present : {TRUE}, json : BOOLEAN,
                  content : {"valid", "malformed", "null", "empty", "tooLarge", "broken"}],
     values : {<<>>, <<"">>, <<"good">>, <<"bad">>, <<"good", "good">>, <<"good", "bad">>},
     invalid : BOOLEAN, outsideEnum : BOOLEAN]

AllCookies == {{}, {"session"}, {"other"}, {"session", "other"}}

FewErrors  == {[type |-> "shared", kind |-> "NotFound"], Err("unique")}
FewSent    == {[body |-> [present |-> FALSE, json |-> FALSE, content |-> "empty"],
                values |-> <<>>, invalid |-> FALSE, outsideEnum |-> FALSE]}
FewCookies == {{}}

(* r1 is served alone by any declaration, r2 not having arrived; or the two *)
(* operations race, failing with the shared problem or another.             *)
Racing == op[r2] \in TwoOperations

(* Pages are turned while the plainest of requests has not begun.           *)
Paging == op[r1] = Ping /\ op[r2] = Ping /\ \A r \in Requests : pc[r] = "guard"

MCInit ==
    /\ Init /\ PageInit
    /\ IF Racing THEN op[r1] \in TwoOperations ELSE op[r2] = Ping
    /\ stored # {} => Paging

MCStep(r) ==
    /\ Step(r)
    /\ Racing => fault'[r].err \in FewErrors \cup {Problem("Internal"), Err("untyped")}
    /\ ~Racing => r = r1

MCNext ==
    \/ stored = {} /\ page = NoPage /\ UNCHANGED pageVars /\ \E r \in Requests : MCStep(r)
    \/ Paging /\ PageNext /\ UNCHANGED vars

(* One request alone, no list.                                              *)
LoneSpec == Init /\ PageInit /\ [][Next /\ UNCHANGED pageVars]_<<vars, pageVars>>

MCSpec == MCInit /\ [][MCNext]_<<vars, pageVars>>
=============================================================================
