------------------------------ MODULE Contract ------------------------------
(***************************************************************************)
(* What an operation declares and what is derived from it: the problem     *)
(* kinds (internal/httpx/problem.go), the failures its request plan can    *)
(* produce (request.go, raw.go), the problems its guards and its handler   *)
(* may return (guard.go, compile.go) and the responses its OpenAPI entry   *)
(* lists (openapi.go).  Pipeline serves requests under these declarations. *)
(***************************************************************************)
EXTENDS Integers, Sequences

KindStatus ==
    [BadRequest |-> 400, Unauthorized |-> 401, Forbidden |-> 403,
     NotFound |-> 404, Conflict |-> 409, PayloadTooLarge |-> 413,
     UnsupportedMediaType |-> 415, UnprocessableEntity |-> 422,
     TooManyRequests |-> 429, Internal |-> 500]

Kinds == DOMAIN KindStatus

-----------------------------------------------------------------------------
(* Errors.  A problem built by a ProblemKind carries it; a ProblemDetails   *)
(* literal has a status but no kind, or is malformed; a shared problem is a *)
(* package-level value that many requests return.                           *)

ErrorTypes == {"problem", "shared", "literal", "malformed", "challenge",
               "validation", "noRows", "unique", "constraint", "driver",
               "untyped"}

LiteralStatus == 404

Problem(k) == [type |-> "problem", kind |-> k]
Err(type)  == [type |-> type, kind |-> "none"]

(* classifyDatabaseError.                                                   *)
DatabaseKind == [noRows |-> "NotFound", unique |-> "Conflict",
                 constraint |-> "BadRequest", driver |-> "Internal"]

(* errorToProblemDetails: the kind and status an error is given, and        *)
(* whether the caller chose it (typed) or the framework did.                *)
ErrorToProblemDetails(err, classifyValidation) ==
    LET Kind(k, typed) == [kind |-> k, status |-> KindStatus[k], typed |-> typed]
    IN  CASE err.type \in {"problem", "shared"} -> Kind(err.kind, TRUE)
          [] err.type = "literal" ->
                 [kind |-> "none", status |-> LiteralStatus, typed |-> TRUE]
          [] err.type = "malformed" -> Kind("Internal", TRUE)
          [] err.type = "validation" /\ classifyValidation ->
                 Kind("UnprocessableEntity", FALSE)
          [] err.type \in DOMAIN DatabaseKind -> Kind(DatabaseKind[err.type], TRUE)
          [] OTHER -> Kind("Internal", FALSE)

-----------------------------------------------------------------------------
(* Binding a request.  A value is "", or one its base type parses, "good",  *)
(* or one it does not, "bad".                                               *)

(* compileSetter: a parameter is a base type under pointers and slices.  A  *)
(* pointer at any layer takes "" for nil, the base judges what is left.     *)
Converts(base, token) ==
    CASE base = "string" -> TRUE
      [] base = "text"   -> token = "good"      \* UnmarshalText judges ""
      [] OTHER           -> token # "bad"       \* "" is the zero value

Layers(param, kind) == {i \in 1..Len(param.wrap) : param.wrap[i] = kind}

Accepts(param, above, token) ==
    \/ Converts(param.base, token)
    \/ token = "" /\ \E i \in Layers(param, "pointer") : i > above

(* A list, which only a repeated query parameter is, goes through pointers  *)
(* to a slice, and its elements through the layers below that.              *)
Assigns(param, values) ==
    \A i \in 1..Len(values) :
        IF Len(values) = 1 THEN Accepts(param, 0, values[i])
        ELSE \E s \in Layers(param, "slice") : Accepts(param, s, values[i])

(* compileLookup: sources other than the query hold one value, and an empty *)
(* one counts as absent.                                                    *)
Lookup(source, values) ==
    IF source = "query" THEN values
    ELSE IF values = <<>> \/ values[1] = "" THEN <<>>
    ELSE <<values[1]>>

(* An absent parameter keeps its zero value.                                *)
ParameterBinds(param, values) ==
    LET raw == Lookup(param.source, values)
    IN  raw = <<>> \/ Assigns(param, raw)

(* Mutant: a repeated scalar query parameter is overlooked.                 *)
ScalarQueryOverlooked(param) == param.base # "string"

ParameterTypeCanFailBinding(param) ==
    \/ param.source = "query" /\ (param.wrap = <<>> \/ param.wrap[1] # "slice")
    \/ param.base # "string"

(* bindBody, decodeJSONBody and bindRawBody: the kind of the failure, or    *)
(* "none".  RawJSON leaves malformed and null bodies to the handler.        *)
BodyProblem(body, sent) ==
    LET required == body \in {"required", "rawRequired"}
        raw      == body \in {"rawRequired", "rawOptional"}
        absent   == ~sent.present \/ (raw /\ sent.content = "empty")
    IN  IF body = "none" THEN "none"
        ELSE IF sent.present /\ ~sent.json THEN "UnsupportedMediaType"
        ELSE IF absent THEN IF required THEN "BadRequest" ELSE "none"
        ELSE IF sent.content = "tooLarge" THEN "PayloadTooLarge"
        ELSE IF sent.content = "broken" \/ (~raw /\ sent.content # "valid")
             THEN "BadRequest"
        ELSE "none"

NoInput(op) == op.params = {} /\ op.body = "none"

(* requestPlan.bind: body, then parameters, then the validator, then the    *)
(* registered enums.  The first failure is the error, or "none".            *)
BindError(op, sent) ==
    IF NoInput(op) THEN Err("none")
    ELSE IF BodyProblem(op.body, sent.body) # "none"
         THEN Problem(BodyProblem(op.body, sent.body))
    ELSE IF \E p \in op.params : ~ParameterBinds(p, sent.values) THEN Problem("BadRequest")
    ELSE IF op.validated /\ sent.invalid THEN Err("validation")
    ELSE IF op.enum /\ sent.outsideEnum THEN Problem("UnprocessableEntity")
    ELSE Err("none")

-----------------------------------------------------------------------------
(* What Build accepts.                                                      *)

(* NewGuard.                                                                *)
GuardWellFormed(g) ==
    /\ \A k \in g.problems : KindStatus[k] \in 400..499
    /\ g.challenge => "Unauthorized" \notin g.problems

(* validateSuccessMode.                                                     *)
SuccessWellFormed(op) ==
    /\ IF op.mode = "redirect" THEN op.status \in {300, 301, 302, 303, 307, 308}
                               ELSE op.status \in 200..299
    /\ op.status \in {204, 205, 304} => op.mode = "message"

(* validateRawDoc.                                                          *)
RawWellFormed(op) == op.status \in 200..399

WellFormed(op) ==
    /\ \A i \in 1..Len(op.guards) : GuardWellFormed(op.guards[i])
    /\ IF op.raw THEN RawWellFormed(op) ELSE SuccessWellFormed(op)

Bodiless(op) == op.mode = "redirect" \/ (op.mode = "message" /\ op.status \in {204, 205})

-----------------------------------------------------------------------------
(* Problem plans.  "any" is the nil plan of Error and dispatchAdapterError. *)

AnyPlan == [allowed |-> Kinds \cup {"none"}, challenge |-> TRUE]

GuardPlan(g) == [allowed |-> g.problems, challenge |-> g.challenge]

(* compileProblemPlan.                                                      *)
HandlerPlan(op) == [allowed |-> op.problems \cup {"Internal"}, challenge |-> FALSE]

-----------------------------------------------------------------------------
(* buildResponses and applyDerivedErrorResponses: the statuses listed for   *)
(* an operation, each with the body it documents and whether it documents   *)
(* the WWW-Authenticate header.                                             *)

Guards(op) == {op.guards[i] : i \in 1..Len(op.guards)}

CanFailBind(op) ==
    op.body # "none" \/ \E p \in op.params : ParameterTypeCanFailBinding(p)

DerivedStatuses(op) ==
    {500}
    \cup (IF CanFailBind(op) THEN {400} ELSE {})
    \cup (IF op.body # "none" THEN {413, 415} ELSE {})
    \cup (IF ~NoInput(op) /\ (op.validated \/ op.enum) THEN {422} ELSE {})

ProblemStatuses(op) ==
    {KindStatus[k] : k \in op.problems}
    \cup DerivedStatuses(op)
    \cup {KindStatus[k] : k \in UNION {g.problems : g \in Guards(op)}}

ChallengeDocumented(op) == \E g \in Guards(op) : g.challenge

Documented(op) ==
    [s \in {op.status} \cup ProblemStatuses(op)
           \cup (IF ChallengeDocumented(op) THEN {401} ELSE {}) |->
        [body |-> IF s = op.status THEN IF Bodiless(op) THEN "none" ELSE "json"
                  ELSE IF s \in ProblemStatuses(op) THEN "problem"
                  ELSE "none",
         challenge |-> s = 401 /\ ChallengeDocumented(op)]]
=============================================================================
