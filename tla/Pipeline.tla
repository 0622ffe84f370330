------------------------------ MODULE Pipeline ------------------------------
(***************************************************************************)
(* One request through a compiled operation: the Recovery middleware, the  *)
(* guard chain, the request adapter, the handler, and the two writers that *)
(* answer it, dispatchResolvedError for failures and Reply.commit for      *)
(* successes (internal/httpx guard.go, declaration.go, problem.go,         *)
(* response.go and internal/middleware/recover.go).                        *)
(*                                                                         *)
(* Guard checks and handlers are application code: every outcome their Go  *)
(* types allow is offered, panics included.  Requests share nothing but    *)
(* problem values that live in package variables, and these are read and   *)
(* written at different instants, so dispatching an error is two steps.    *)
(***************************************************************************)
EXTENDS Contract, FiniteSets

CONSTANTS
    Requests,     \* concurrent requests
    Operations,   \* the declarations in the route tree
    Errors,       \* the errors guards and handlers return
    SharedKind,   \* the kind of the problem kept in a package variable
    Sent,         \* what clients send: body, parameter values, validity
    CookieSets    \* the sets of cookies replies carry

ASSUME PipelineAssumption ==
    /\ SharedKind \in Kinds
    /\ \A e \in Errors : e.type \in ErrorTypes /\ e.kind \in Kinds \cup {"none"}
    /\ \A e \in Errors : e.type = "problem" => e.kind \in Kinds
    /\ \A e \in Errors : e.type = "shared" => e.kind = SharedKind
    /\ \A o \in Operations :
           /\ o.guards \in Seq([problems : SUBSET Kinds, challenge : BOOLEAN])
           /\ o.problems \subseteq Kinds
           /\ \A p \in o.params : p.wrap \in Seq({"pointer", "slice"})
    /\ {"shared", "blank"} \cap Requests = {}

Shared == "shared"        \* the object of the package variable
Blank  == "blank"         \* a problem without an instance
Nobody == "nobody"        \* no fault is being dispatched

VARIABLES
    pc,        \* request -> its place in the chain
    op,        \* request -> the operation that serves it
    passed,    \* request -> how many guards have let it through
    ran,       \* the requests whose handler has been called
    aborted,   \* the requests http.ErrAbortHandler has unwound
    fault,     \* request -> the error being dispatched and its plan
    object,    \* object -> kind, status and instance of a ProblemDetails
    target,    \* request -> the ProblemDetails that will be written
    cookies,   \* request -> the Set-Cookie headers staged on its writer
    wire       \* request -> the responses it wrote, a single one if all is well

vars == <<pc, op, passed, ran, aborted, fault, object, target, cookies, wire>>

Places == {"guard", "bind", "handle", "dispatch", "write", "panic", "abort", "done"}

(* One type invariant for the requests in flight.                           *)
TypeOK ==
    /\ pc \in [Requests -> Places]
    /\ \A r \in Requests : op[r] \in Operations /\ passed[r] \in 0..Len(op[r].guards)
    /\ ran \subseteq Requests /\ aborted \subseteq Requests
    /\ \A r \in Requests : target[r] \in Requests \cup {Shared}
    /\ \A o \in DOMAIN object : object[o].status \in 400..599
    /\ \A r \in Requests : \A i \in 1..Len(wire[r]) : wire[r][i].status \in 200..599

Typed(r) == ~op[r].raw

-----------------------------------------------------------------------------
(* The writers.  A response carries the Set-Cookie headers staged so far.   *)

Success(status, body, staged) ==
    [status |-> status, body |-> body, kind |-> "none", instance |-> Blank,
     challenge |-> FALSE, cookies |-> staged, by |-> "handler"]

Challenge(staged, by) ==
    [status |-> 401, body |-> "none", kind |-> "none", instance |-> Blank,
     challenge |-> TRUE, cookies |-> staged, by |-> by]

Failure(kind, status, instance, staged, by) ==
    [status |-> status, body |-> "problem", kind |-> kind, instance |-> instance,
     challenge |-> FALSE, cookies |-> staged, by |-> by]

Sends(r, response) ==
    /\ wire' = [wire EXCEPT ![r] = Append(@, response)]
    /\ pc' = [pc EXCEPT ![r] = "done"]

(* Hand an error to dispatchResolvedError.  dispatchError enforces a plan;  *)
(* Error and dispatchAdapterError do not, and classify validation errors.   *)
Fault(err, plan, enforce, by) ==
    [err |-> err, plan |-> plan, enforce |-> enforce, by |-> by, stamp |-> "path"]

(* dispatchError without the request: the problem gets no instance.         *)
UnstampedFault(err, plan, enforce, by) ==
    [err |-> err, plan |-> plan, enforce |-> enforce, by |-> by, stamp |-> "none"]

Raise(r, f) ==
    /\ pc' = [pc EXCEPT ![r] = "dispatch"]
    /\ fault' = [fault EXCEPT ![r] = f]

(* problemPlan.permits: by kind, never by status.                           *)
Permits(plan, problem) == problem.kind \in plan.allowed

(* What dispatchResolvedError will answer with, after enforcement.          *)
Answer(f) ==
    LET err     == IF f.err.type = "challenge" THEN Problem("Internal") ELSE f.err
        problem == ErrorToProblemDetails(err, ~f.enforce)
        allowed == ~f.enforce \/ ~problem.typed \/ Permits(f.plan, problem)
    IN  IF allowed THEN [kind |-> problem.kind, status |-> problem.status]
                   ELSE [kind |-> "Internal", status |-> KindStatus["Internal"]]

(* Mutant of Clone: the problem of the package variable itself is used.      *)
Uncloned(r, source) == source

(* cloneProblemDetails: what is stamped and written belongs to the request,  *)
(* even when the problem the caller returned does not.                       *)
Clone(r, source) == r

(* A permitted challenge is written at once, without a body.                *)
DispatchChallenge(r) ==
    /\ pc[r] = "dispatch"
    /\ fault[r].err.type = "challenge"
    /\ fault[r].plan.challenge
    /\ Sends(r, Challenge(cookies[r], fault[r].by))
    /\ UNCHANGED <<op, passed, ran, aborted, fault, object, target, cookies>>

(* Every other error becomes a problem, stamped with this request's path.   *)
DispatchError(r) ==
    /\ pc[r] = "dispatch"
    /\ ~(fault[r].err.type = "challenge" /\ fault[r].plan.challenge)
    /\ LET a == Answer(fault[r])
           o == IF fault[r].err.type = "shared" /\ a.kind = SharedKind
                THEN Clone(r, Shared) ELSE r
       IN  /\ object' = [object EXCEPT ![o] =
                           [kind |-> a.kind, status |-> a.status,
                            instance |-> IF fault[r].stamp = "path" THEN r ELSE Blank]]
           /\ target' = [target EXCEPT ![r] = o]
    /\ pc' = [pc EXCEPT ![r] = "write"]
    /\ UNCHANGED <<op, passed, ran, aborted, fault, cookies, wire>>

(* Problems built by the application may carry extensions of any Go type.   *)
Extensible(err) == err.type \in {"problem", "shared", "literal"}

(* writeProblemDetails: an error whose extensions do not encode falls back  *)
(* to the 500, keeping the instance.                                        *)
WriteProblem(r, encodes) ==
    /\ pc[r] = "write"
    /\ encodes \/ Extensible(fault[r].err)
    /\ LET p == object[target[r]]
           k == IF encodes THEN p.kind ELSE "Internal"
           s == IF encodes THEN p.status ELSE KindStatus["Internal"]
       IN  Sends(r, Failure(k, s, p.instance, cookies[r], fault[r].by))
    /\ UNCHANGED <<op, passed, ran, aborted, fault, object, target, cookies>>

-----------------------------------------------------------------------------
(* guardMiddleware: group guards, then route guards, each wrapped around    *)
(* the rest of the chain.                                                   *)

Guarding(r) == pc[r] = "guard" /\ passed[r] < Len(op[r].guards)
Guard(r)    == op[r].guards[passed[r] + 1]

GuardPasses(r) ==
    /\ Guarding(r)
    /\ passed' = [passed EXCEPT ![r] = @ + 1]
    /\ UNCHANGED <<pc, op, ran, aborted, fault, object, target, cookies, wire>>

GuardRejects(r, err) ==
    /\ Guarding(r)
    /\ Raise(r, Fault(err, GuardPlan(Guard(r)), TRUE, "guard"))
    /\ UNCHANGED <<op, passed, ran, aborted, object, target, cookies, wire>>

(* Mutant of GuardReturnsNil: a nil request is taken for a pass.            *)
GuardNilPasses(r) ==
    /\ Guarding(r)
    /\ pc' = [pc EXCEPT ![r] = "bind"]
    /\ UNCHANGED <<op, passed, ran, aborted, fault, object, target, cookies, wire>>

(* (nil, nil) is a bug in the check and fails closed.                       *)
GuardReturnsNil(r) ==
    /\ Guarding(r)
    /\ Raise(r, Fault(Problem("Internal"), GuardPlan(Guard(r)), TRUE, "guard"))
    /\ UNCHANGED <<op, passed, ran, aborted, object, target, cookies, wire>>

GuardsDone(r) ==
    /\ pc[r] = "guard"
    /\ passed[r] = Len(op[r].guards)
    /\ pc' = [pc EXCEPT ![r] = IF Typed(r) THEN "bind" ELSE "handle"]
    /\ UNCHANGED <<op, passed, ran, aborted, fault, object, target, cookies, wire>>

-----------------------------------------------------------------------------
(* The bound handler of a typed operation.                                  *)

(* plan.bind; its failures are the adapter's, not the handler's.            *)
Bind(r, sent) ==
    /\ pc[r] = "bind"
    /\ LET err == BindError(op[r], sent)
       IN  IF err.type = "none"
           THEN pc' = [pc EXCEPT ![r] = "handle"] /\ UNCHANGED fault
           ELSE Raise(r, Fault(err, AnyPlan, FALSE, "adapter"))
    /\ UNCHANGED <<op, passed, ran, aborted, object, target, cookies, wire>>

Handling(r) ==
    /\ pc[r] = "handle"
    /\ Typed(r)
    /\ ran' = ran \cup {r}

HandlerFails(r, err) ==
    /\ Handling(r)
    /\ Raise(r, Fault(err, HandlerPlan(op[r]), TRUE, "handler"))
    /\ UNCHANGED <<op, passed, aborted, object, target, cookies, wire>>

(* nilReply dispatches without the request, so the problem is not stamped.  *)
HandlerReturnsNil(r) ==
    /\ Handling(r)
    /\ Raise(r, UnstampedFault(Problem("Internal"), AnyPlan, FALSE, "framework"))
    /\ UNCHANGED <<op, passed, aborted, object, target, cookies, wire>>

(* commit: the reply's constructor, its cookies and its location are        *)
(* checked before anything is staged.                                       *)
Acceptable(r, reply) ==
    /\ reply.mode = op[r].mode
    /\ reply.cookies \subseteq op[r].cookies
    /\ op[r].mode = "redirect" => reply.located

CommitRefused(r, reply) ==
    /\ Handling(r)
    /\ ~Acceptable(r, reply)
    /\ Raise(r, Fault(Problem("Internal"), AnyPlan, FALSE, "framework"))
    /\ UNCHANGED <<op, passed, aborted, object, target, cookies, wire>>

(* A payload that does not marshal, or violates the response contract, is a *)
(* bare 500; messages are not validated.                                    *)
Unwritable(r, reply) ==
    /\ ~Bodiless(op[r])
    /\ \/ ~reply.marshals
       \/ op[r].mode \in {"enveloped", "page"} /\ ~reply.valid

(* Mutant of CommitFails: the cookies are emitted before the payload is     *)
(* known to marshal.                                                        *)
CommitFailsAfterCookies(r, reply) ==
    /\ Handling(r)
    /\ Acceptable(r, reply)
    /\ Unwritable(r, reply)
    /\ cookies' = [cookies EXCEPT ![r] = reply.cookies]
    /\ Sends(r, Failure("Internal", 500, Blank, reply.cookies, "framework"))
    /\ UNCHANGED <<op, passed, aborted, fault, object, target>>

(* Mutant of CommitFails: the return after the 500 is missing.              *)
CommitFailsAndGoesOn(r, reply) ==
    /\ Handling(r)
    /\ Acceptable(r, reply)
    /\ Unwritable(r, reply)
    /\ cookies' = [cookies EXCEPT ![r] = reply.cookies]
    /\ wire' = [wire EXCEPT ![r] =
                  @ \o <<Failure("Internal", 500, Blank, {}, "framework"),
                         Success(op[r].status, "json", reply.cookies)>>]
    /\ pc' = [pc EXCEPT ![r] = "done"]
    /\ UNCHANGED <<op, passed, aborted, fault, object, target>>

CommitFails(r, reply) ==
    /\ Handling(r)
    /\ Acceptable(r, reply)
    /\ Unwritable(r, reply)
    /\ Sends(r, Failure("Internal", 500, Blank, cookies[r], "framework"))
    /\ UNCHANGED <<op, passed, aborted, fault, object, target, cookies>>

Commit(r, reply) ==
    /\ Handling(r)
    /\ Acceptable(r, reply)
    /\ ~Unwritable(r, reply)
    /\ cookies' = [cookies EXCEPT ![r] = reply.cookies]
    /\ Sends(r, Success(op[r].status, IF Bodiless(op[r]) THEN "none" ELSE "json",
                        reply.cookies))
    /\ UNCHANGED <<op, passed, aborted, fault, object, target>>

-----------------------------------------------------------------------------
(* A raw handler owns its wire: it writes, reports errors and returns.      *)

RawHandling(r) ==
    /\ pc[r] = "handle"
    /\ ~Typed(r)
    /\ ran' = ran \cup {r}

RawWrites(r) ==
    /\ RawHandling(r)
    /\ wire[r] = <<>>
    /\ wire' = [wire EXCEPT ![r] = Append(@, Success(op[r].status, "json", cookies[r]))]
    /\ UNCHANGED <<pc, op, passed, aborted, fault, object, target, cookies>>

RawFails(r, err) ==
    /\ RawHandling(r)
    /\ Raise(r, Fault(err, AnyPlan, FALSE, "handler"))
    /\ UNCHANGED <<op, passed, aborted, object, target, cookies, wire>>

RawReturns(r) ==
    /\ RawHandling(r)
    /\ pc' = [pc EXCEPT ![r] = "done"]
    /\ UNCHANGED <<op, passed, aborted, fault, object, target, cookies, wire>>

-----------------------------------------------------------------------------
(* Panics.  A guard check, a validator or setter, a handler and a custom    *)
(* marshaler are application code; an operation's own writes do not panic.  *)

Panics(r, place) ==
    /\ \/ Guarding(r) /\ UNCHANGED ran
       \/ pc[r] = "bind" /\ UNCHANGED ran
       \/ pc[r] = "handle" /\ ran' = ran \cup {r}
       \/ pc[r] = "write" /\ Extensible(fault[r].err) /\ UNCHANGED ran
    /\ pc' = [pc EXCEPT ![r] = place]
    /\ UNCHANGED <<op, passed, aborted, fault, object, target, cookies, wire>>

(* Recovery answers a panic like a raw handler's unexpected error.          *)
Recovered(r) ==
    /\ pc[r] = "panic"
    /\ Raise(r, Fault(Err("untyped"), AnyPlan, FALSE, "framework"))
    /\ UNCHANGED <<op, passed, ran, aborted, object, target, cookies, wire>>

(* ... and swallows http.ErrAbortHandler without answering.                 *)
AbortSwallowed(r) ==
    /\ pc[r] = "abort"
    /\ pc' = [pc EXCEPT ![r] = "done"]
    /\ aborted' = aborted \cup {r}
    /\ UNCHANGED <<op, passed, ran, fault, object, target, cookies, wire>>

-----------------------------------------------------------------------------
Served == {o \in Operations : WellFormed(o)}

Replies == [mode : {"enveloped", "page", "message", "redirect"},
            cookies : CookieSets, located : BOOLEAN, marshals : BOOLEAN,
            valid : BOOLEAN]

Init ==
    /\ pc = [r \in Requests |-> "guard"]
    /\ op \in [Requests -> Served]
    /\ passed = [r \in Requests |-> 0]
    /\ ran = {}
    /\ aborted = {}
    /\ fault = [r \in Requests |-> Fault(Err("untyped"), AnyPlan, FALSE, Nobody)]
    /\ object = [o \in Requests \cup {Shared} |->
                   [kind |-> SharedKind, status |-> KindStatus[SharedKind],
                    instance |-> Blank]]
    /\ target = [r \in Requests |-> r]
    /\ cookies = [r \in Requests |-> {}]
    /\ wire = [r \in Requests |-> <<>>]

Step(r) ==
    \/ GuardPasses(r) \/ GuardReturnsNil(r) \/ GuardsDone(r)
    \/ \E err \in Errors : GuardRejects(r, err)
    \/ \E sent \in Sent : Bind(r, sent)
    \/ \E err \in Errors : HandlerFails(r, err)
    \/ HandlerReturnsNil(r)
    \/ \E reply \in Replies :
          CommitRefused(r, reply) \/ CommitFails(r, reply) \/ Commit(r, reply)
    \/ RawWrites(r) \/ RawReturns(r)
    \/ \E err \in Errors : RawFails(r, err)
    \/ \E place \in {"panic", "abort"} : Panics(r, place)
    \/ Recovered(r) \/ AbortSwallowed(r)
    \/ DispatchChallenge(r) \/ DispatchError(r)
    \/ \E encodes \in BOOLEAN : WriteProblem(r, encodes)

Next == \E r \in Requests : Step(r)

Spec == Init /\ [][Next]_vars

-----------------------------------------------------------------------------
Responses(r) == {wire[r][i] : i \in 1..Len(wire[r])}

(* The document is true of the wire: every response of a typed operation    *)
(* has a status its OpenAPI entry lists, with the body and the challenge    *)
(* header listed there, whatever its guards, adapter and handler do.        *)
ServedIsDocumented ==
    \A r \in Requests : Typed(r) =>
        \A w \in Responses(r) :
            LET doc == Documented(op[r])
            IN  /\ w.status \in DOMAIN doc
                /\ w.body # "none" => w.body = doc[w.status].body
                /\ w.status = op[r].status => w.body = doc[w.status].body
                /\ w.challenge => doc[w.status].challenge

(* A typed operation answers exactly once, unless http.ErrAbortHandler ends *)
(* it: no failure after a commit writes a second status line.               *)
AnsweredOnce ==
    \A r \in Requests : Typed(r) =>
        /\ Len(wire[r]) <= 1
        /\ pc[r] = "done" /\ r \notin aborted => Len(wire[r]) = 1

(* Guards fail closed: a handler runs only after every guard of its chain   *)
(* returned a request, and nothing is written before that but a failure.    *)
HandlerRunsGuarded ==
    \A r \in Requests :
        \/ passed[r] = Len(op[r].guards)
        \/ r \notin ran /\ \A w \in Responses(r) : w.status >= 400

(* A handler widens its contract through nobody: a problem of its own on    *)
(* the wire is of a kind it declares, or the framework's 500.  A declared   *)
(* status or a kind only the binder or a guard may produce is not enough.   *)
HandlerProblemsDeclared ==
    \A r \in Requests : Typed(r) =>
        \A w \in Responses(r) :
            w.body = "problem" /\ w.by = "handler"
                => w.kind \in op[r].problems \cup {"Internal"}

(* No credential rides on a failure: "no Set-Cookie has been emitted for a  *)
(* response that failed to materialize", and none that is not declared.     *)
CookiesOnlyOnSuccess ==
    \A r \in Requests : Typed(r) =>
        \A w \in Responses(r) :
            w.cookies # {} => w.status = op[r].status /\ w.cookies \subseteq op[r].cookies

(* A problem names the request it answers, also when two requests fail with *)
(* the same package-level problem at the same time.                         *)
OwnInstance ==
    \A r \in Requests :
        /\ \A w \in Responses(r) : w.instance \in {Blank, r}
        /\ pc[r] = "write" => object[target[r]].instance \in {Blank, r}

(* The three ways to be documented: the declared success, a problem, and a  *)
(* challenge, which has no body.                                            *)
ResponseDocumented(o, w) ==
    \/ /\ w.status = o.status
       /\ w.body = IF Bodiless(o) THEN "none" ELSE "json"
       /\ w.challenge = FALSE
    \/ w.status \in ProblemStatuses(o) /\ w.body = "problem" /\ w.challenge = FALSE
    \/ w.status = 401 /\ w.body = "none" /\ ChallengeDocumented(o)

FaultDocumented(o, f) ==
    /\ Answer(f).status \in ProblemStatuses(o)
    /\ f.err.type = "challenge" /\ f.plan.challenge => ChallengeDocumented(o)

(* What a response says about the request it answers.                       *)
SoundResponse(r, w) ==
    /\ w.status \in 200..599
    /\ w.instance \in {Blank, r}
    /\ passed[r] = Len(op[r].guards) \/ w.status >= 400
    /\ Typed(r) /\ w.body = "problem" /\ w.by = "handler"
           => w.kind \in op[r].problems \cup {"Internal"}
    /\ Typed(r) /\ w.cookies # {}
           => w.status = op[r].status /\ w.cookies \subseteq op[r].cookies
    /\ Typed(r) => ResponseDocumented(op[r], w)

OwnProblem(r) ==
    /\ target[r] = r
    /\ object[r].instance \in {Blank, r}
    /\ object[r].status \in 400..599
    /\ pc[r] = "write" /\ Typed(r) /\ fault[r].by = "handler"
           => object[r].kind \in op[r].problems \cup {"Internal"}
    /\ pc[r] = "write" /\ Typed(r) => object[r].status \in ProblemStatuses(op[r])

OwnPlan(r) ==
    pc[r] = "dispatch" =>
        /\ fault[r].err.type \in {"problem", "shared"} => fault[r].err.kind \in Kinds
        /\ Typed(r) /\ fault[r].by = "handler" =>
               fault[r].enforce = TRUE /\ fault[r].plan = HandlerPlan(op[r])
        /\ Typed(r) => FaultDocumented(op[r], fault[r])

WireSound(r) ==
    /\ wire[r] \in Seq(Responses(r))
    /\ \A i \in 1..Len(wire[r]) : SoundResponse(r, wire[r][i])

WrittenLast(r) ==
    /\ Typed(r) /\ pc[r] # "done" => wire[r] = <<>> /\ cookies[r] = {}
    /\ Typed(r) /\ pc[r] = "done" => Len(wire[r]) <= 1 /\ (r \in aborted \/ Len(wire[r]) = 1)

Progress(r) ==
    /\ passed[r] \in 0..Len(op[r].guards)
    /\ pc[r] \in {"bind", "handle"} \/ r \in ran => passed[r] = Len(op[r].guards)
    /\ OwnProblem(r) /\ OwnPlan(r)
    /\ WireSound(r) /\ WrittenLast(r)

(* What keeps these together, request by request: responses are sound when  *)
(* they are sent, a problem belongs to its request, what the handler raises *)
(* is judged by its own plan, what anyone raises will be answered with a    *)
(* documented status, and a typed operation stages and writes nothing       *)
(* before its last step.                                                    *)
PipelineInv ==
    /\ \A r \in Requests : Progress(r)
    /\ object[Shared].status \in 400..599

(* "Recovery converts panics to a sanitized problem response": a typed      *)
(* operation is not over before it has answered, panics included.           *)
PanicsAnswered ==
    \A r \in Requests : Typed(r) /\ pc[r] = "done" => wire[r] # <<>>
=============================================================================
