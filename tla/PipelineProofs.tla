--------------------------- MODULE PipelineProofs ---------------------------
(***************************************************************************)
(* Proofs about Pipeline, for any declarations, errors, inputs and any     *)
(* number of concurrent requests.  PipelineInv is inductive: a step of a   *)
(* request keeps Progress of that request, one lemma per action, and       *)
(* leaves Progress of the others alone, because nothing is shared but the  *)
(* problem of a package variable, which is cloned before it is stamped.    *)
(* Then about CursorPages, for tables and pages of any size: a page is a   *)
(* window of the rows in order, and PagesInv says which.                   *)
(***************************************************************************)
EXTENDS Pipeline, CursorPages, SequenceTheorems, FiniteSetTheorems, TLAPS

-----------------------------------------------------------------------------
(* Problem kinds and dispatched errors.                                     *)

LEMMA KindStatuses == \A k \in Kinds : KindStatus[k] \in 400..599
  BY DEF Kinds, KindStatus

LEMMA InternalKind == "Internal" \in Kinds /\ KindStatus["Internal"] = 500
  BY DEF Kinds, KindStatus

LEMMA DatabaseKinds == \A t \in DOMAIN DatabaseKind : DatabaseKind[t] \in Kinds
  BY DEF Kinds, KindStatus, DatabaseKind

LEMMA ClassifiedStatus ==
  ASSUME NEW err, NEW v,
         err.type \in {"problem", "shared"} => err.kind \in Kinds
  PROVE  ErrorToProblemDetails(err, v).status \in 400..599
  <1>1. "UnprocessableEntity" \in Kinds BY DEF Kinds, KindStatus
  <1>2. LiteralStatus \in 400..599 BY DEF LiteralStatus
  <1>3. CASE err.type \in {"problem", "shared"}
    BY <1>3, KindStatuses DEF ErrorToProblemDetails, DatabaseKind
  <1>4. CASE err.type = "literal"
    BY <1>4, <1>2 DEF ErrorToProblemDetails, DatabaseKind
  <1>5. CASE err.type = "malformed"
    BY <1>5, KindStatuses, InternalKind DEF ErrorToProblemDetails, DatabaseKind
  <1>6. CASE err.type \notin {"problem", "shared", "literal", "malformed"}
    BY <1>6, KindStatuses, InternalKind, DatabaseKinds, <1>1 DEF ErrorToProblemDetails
  <1> QED BY <1>3, <1>4, <1>5, <1>6

LEMMA AnswerStatus ==
  ASSUME NEW f, f.err.type \in {"problem", "shared"} => f.err.kind \in Kinds
  PROVE  Answer(f).status \in 400..599
  <1> DEFINE err == IF f.err.type = "challenge" THEN Problem("Internal") ELSE f.err
  <1>1. err.type \in {"problem", "shared"} => err.kind \in Kinds
    BY InternalKind DEF Problem
  <1>2. ErrorToProblemDetails(err, ~f.enforce).status \in 400..599
    BY <1>1, ClassifiedStatus
  <1> QED BY <1>2, InternalKind DEF Answer

(* Enforcement: an enforced plan lets its own kinds through, or the 500.    *)
LEMMA UntypedIsInternal ==
  ASSUME NEW err, ErrorToProblemDetails(err, FALSE).typed # TRUE
  PROVE  ErrorToProblemDetails(err, FALSE).kind = "Internal"
  <1>1. CASE err.type \in {"problem", "shared"}
    BY <1>1 DEF ErrorToProblemDetails, DatabaseKind
  <1>2. CASE err.type = "literal"
    BY <1>2 DEF ErrorToProblemDetails, DatabaseKind
  <1>3. CASE err.type = "malformed"
    BY <1>3 DEF ErrorToProblemDetails, DatabaseKind
  <1>4. CASE err.type \notin {"problem", "shared", "literal", "malformed"}
    BY <1>4 DEF ErrorToProblemDetails, DatabaseKind
  <1> QED BY <1>1, <1>2, <1>3, <1>4

LEMMA AnswerDeclared ==
  ASSUME NEW f, f.enforce = TRUE
  PROVE  Answer(f).kind \in f.plan.allowed \cup {"Internal"}
  <1> DEFINE err == IF f.err.type = "challenge" THEN Problem("Internal") ELSE f.err
             problem == ErrorToProblemDetails(err, FALSE)
  <1>1. problem.typed = TRUE \/ problem.kind = "Internal"
    BY UntypedIsInternal
  <1>2. (~f.enforce) = FALSE OBVIOUS
  <1>3. Answer(f).kind = "Internal" \/ Answer(f).kind = problem.kind
    BY <1>2 DEF Answer
  <1>4. ASSUME problem.kind \notin f.plan.allowed, problem.typed = TRUE
        PROVE  Answer(f).kind = "Internal"
    BY <1>2, <1>4 DEF Answer, Permits
  <1> QED BY <1>1, <1>3, <1>4

-----------------------------------------------------------------------------
(* What the document lists is enough: whatever a guard, the handler, the    *)
(* adapter or the framework raises is answered with a listed status.        *)

LEMMA InternalListed == ASSUME NEW o PROVE 500 \in ProblemStatuses(o)
  BY DEF ProblemStatuses, DerivedStatuses

LEMMA ClassifiedKind ==
  ASSUME NEW err, NEW v,
         err.type \in {"problem", "shared"} => err.kind \in Kinds,
         ErrorToProblemDetails(err, v).kind \in Kinds
  PROVE  ErrorToProblemDetails(err, v).status = KindStatus[ErrorToProblemDetails(err, v).kind]
  <1>1. "none" \notin Kinds BY DEF Kinds, KindStatus
  <1>2. CASE err.type \in {"problem", "shared"}
    BY <1>2 DEF ErrorToProblemDetails, DatabaseKind
  <1>3. CASE err.type = "literal"
    BY <1>3, <1>1 DEF ErrorToProblemDetails, DatabaseKind
  <1>4. CASE err.type = "malformed"
    BY <1>4 DEF ErrorToProblemDetails, DatabaseKind
  <1>5. CASE err.type \notin {"problem", "shared", "literal", "malformed"}
    BY <1>5 DEF ErrorToProblemDetails
  <1> QED BY <1>2, <1>3, <1>4, <1>5

LEMMA AnswerKindStatus ==
  ASSUME NEW f, f.err.type \in {"problem", "shared"} => f.err.kind \in Kinds,
         Answer(f).kind \in Kinds
  PROVE  Answer(f).status = KindStatus[Answer(f).kind]
  <1> DEFINE err == IF f.err.type = "challenge" THEN Problem("Internal") ELSE f.err
             problem == ErrorToProblemDetails(err, ~f.enforce)
  <1>1. err.type \in {"problem", "shared"} => err.kind \in Kinds
    BY InternalKind DEF Problem
  <1>2. problem.kind \in Kinds => problem.status = KindStatus[problem.kind]
    BY <1>1, ClassifiedKind
  <1>3. \/ Answer(f).kind = problem.kind /\ Answer(f).status = problem.status
        \/ Answer(f).kind = "Internal" /\ Answer(f).status = KindStatus["Internal"]
    BY DEF Answer
  <1> HIDE DEF problem
  <1> QED BY <1>2, <1>3

(* An enforced plan whose kinds are listed.                                 *)
LEMMA EnforcedListed ==
  ASSUME NEW o, NEW f, f.enforce = TRUE,
         f.err.type \in {"problem", "shared"} => f.err.kind \in Kinds,
         f.plan.allowed \subseteq Kinds,
         \A k \in f.plan.allowed : KindStatus[k] \in ProblemStatuses(o)
  PROVE  Answer(f).status \in ProblemStatuses(o)
  <1>1. Answer(f).kind \in f.plan.allowed \cup {"Internal"} BY AnswerDeclared
  <1>2. Answer(f).status = KindStatus[Answer(f).kind]
    BY <1>1, InternalKind, AnswerKindStatus
  <1> QED BY <1>1, <1>2, InternalKind, InternalListed

LEMMA GuardFaultListed ==
  ASSUME NEW o, NEW g \in Guards(o), g.problems \subseteq Kinds, NEW err, NEW by,
         err.type \in {"problem", "shared"} => err.kind \in Kinds
  PROVE  FaultDocumented(o, Fault(err, GuardPlan(g), TRUE, by))
  <1> DEFINE f == Fault(err, GuardPlan(g), TRUE, by)
  <1>1. /\ f.err = err /\ f.enforce = TRUE /\ f.plan.allowed = g.problems
        /\ f.plan.challenge = g.challenge
    BY DEF Fault, GuardPlan
  <1>2. \A k \in g.problems : KindStatus[k] \in ProblemStatuses(o)
    BY DEF ProblemStatuses
  <1> HIDE DEF f
  <1>3. Answer(f).status \in ProblemStatuses(o) BY <1>1, <1>2, EnforcedListed
  <1>4. f.plan.challenge => ChallengeDocumented(o) BY <1>1 DEF ChallengeDocumented
  <1> QED BY <1>3, <1>4 DEF FaultDocumented, f

LEMMA HandlerFaultListed ==
  ASSUME NEW o, o.problems \subseteq Kinds, NEW err, NEW by,
         err.type \in {"problem", "shared"} => err.kind \in Kinds
  PROVE  FaultDocumented(o, Fault(err, HandlerPlan(o), TRUE, by))
  <1> DEFINE f == Fault(err, HandlerPlan(o), TRUE, by)
  <1>1. /\ f.err = err /\ f.enforce = TRUE /\ f.plan.challenge = FALSE
        /\ f.plan.allowed = o.problems \cup {"Internal"}
    BY DEF Fault, HandlerPlan
  <1>2. \A k \in o.problems : KindStatus[k] \in ProblemStatuses(o)
    BY DEF ProblemStatuses
  <1> HIDE DEF f
  <1>4. \A k \in f.plan.allowed : KindStatus[k] \in ProblemStatuses(o)
    BY <1>1, <1>2, InternalKind, InternalListed
  <1>5. f.plan.allowed \subseteq Kinds BY <1>1, InternalKind
  <1>3. Answer(f).status \in ProblemStatuses(o)
    BY <1>1, <1>4, <1>5, EnforcedListed
  <1> QED BY <1>1, <1>3 DEF FaultDocumented, f

(* Without enforcement an error is answered with what it is classified as.  *)
LEMMA UnenforcedListed ==
  ASSUME NEW o, NEW f, f.enforce = FALSE, f.err.type # "challenge",
         \/ f.err.type = "problem" /\ KindStatus[f.err.kind] \in ProblemStatuses(o)
         \/ f.err.type = "validation" /\ 422 \in ProblemStatuses(o)
         \/ f.err.type = "untyped"
  PROVE  FaultDocumented(o, f)
  <1>1. (~f.enforce) = TRUE OBVIOUS
  <1>2. Answer(f).status = ErrorToProblemDetails(f.err, TRUE).status
    BY <1>1 DEF Answer
  <1>3. CASE f.err.type = "problem" /\ KindStatus[f.err.kind] \in ProblemStatuses(o)
    BY <1>2, <1>3 DEF FaultDocumented, ErrorToProblemDetails, DatabaseKind
  <1>4. CASE f.err.type = "validation" /\ 422 \in ProblemStatuses(o)
    BY <1>2, <1>4 DEF FaultDocumented, ErrorToProblemDetails, DatabaseKind, KindStatus
  <1>5. CASE f.err.type = "untyped"
    BY <1>2, <1>5, InternalKind, InternalListed
       DEF FaultDocumented, ErrorToProblemDetails, DatabaseKind
  <1> QED BY <1>3, <1>4, <1>5

(* A parameter whose type cannot fail binding binds whatever is sent.       *)
LEMMA SafeParameterBinds ==
  ASSUME NEW p, p.wrap \in Seq({"pointer", "slice"}), NEW values,
         ~ParameterTypeCanFailBinding(p)
  PROVE  ParameterBinds(p, values)
  <1> DEFINE raw == Lookup(p.source, values)
  <1> SUFFICES ASSUME raw # <<>> PROVE Assigns(p, raw) BY DEF ParameterBinds
  <1>1. p.base = "string" BY DEF ParameterTypeCanFailBinding
  <1>2. \A above, t : Accepts(p, above, t)
    <2>1. \A t : Converts(p.base, t) BY <1>1 DEF Converts
    <2> QED BY <2>1 DEF Accepts
  <1>3. Len(raw) # 1 => 1 \in Layers(p, "slice")
    <2> SUFFICES ASSUME Len(raw) # 1 PROVE 1 \in Layers(p, "slice") OBVIOUS
    <2>1. p.source = "query"
      <3> SUFFICES ASSUME p.source # "query" PROVE FALSE OBVIOUS
      <3>1. raw = <<values[1]>> BY DEF Lookup
      <3> QED BY <3>1
    <2>2. p.wrap # <<>> /\ p.wrap[1] = "slice"
      BY <2>1 DEF ParameterTypeCanFailBinding
    <2>3. 1 \in 1..Len(p.wrap) BY <2>2
    <2> QED BY <2>2, <2>3 DEF Layers
  <1> HIDE DEF raw
  <1> QED BY <1>2, <1>3 DEF Assigns

(* The adapter: what bind reports, its plan said it could.                  *)
LEMMA BindListed ==
  ASSUME NEW o \in Operations, NEW sent \in Sent, BindError(o, sent).type # "none"
  PROVE  FaultDocumented(o, Fault(BindError(o, sent), AnyPlan, FALSE, "adapter"))
  <1> DEFINE err == BindError(o, sent)
             f == Fault(err, AnyPlan, FALSE, "adapter")
             b == BodyProblem(o.body, sent.body)
  <1>0. f.err = err /\ f.enforce = FALSE BY DEF Fault
  <1>1. ~NoInput(o) BY DEF BindError, Err
  <1>2. CASE b # "none"
    <2>1. o.body # "none" /\ b \in {"BadRequest", "PayloadTooLarge", "UnsupportedMediaType"}
      BY <1>2 DEF BodyProblem
    <2>2. {400, 413, 415} \subseteq ProblemStatuses(o)
      BY <2>1 DEF ProblemStatuses, DerivedStatuses, CanFailBind
    <2>3. KindStatus[b] \in {400, 413, 415} BY <2>1 DEF KindStatus
    <2>4. err = Problem(b) BY <1>1, <1>2 DEF BindError
    <2>5. err.type = "problem" /\ err.kind = b BY <2>4 DEF Problem
    <2> HIDE DEF f, err, b
    <2>6. f.err.type = "problem" /\ KindStatus[f.err.kind] \in ProblemStatuses(o)
      BY <1>0, <2>2, <2>3, <2>5
    <2>7. FaultDocumented(o, f) BY <1>0, <2>6, UnenforcedListed
    <2> QED BY <2>7 DEF f, err
  <1>3. CASE b = "none" /\ \E p \in o.params : ~ParameterBinds(p, sent.values)
    <2>1. PICK p \in o.params : ~ParameterBinds(p, sent.values) BY <1>3
    <2>2. ParameterTypeCanFailBinding(p)
      BY <2>1, SafeParameterBinds, PipelineAssumption
    <2>3. 400 \in ProblemStatuses(o)
      BY <2>2 DEF ProblemStatuses, DerivedStatuses, CanFailBind
    <2>4. err = Problem("BadRequest") BY <1>1, <1>3 DEF BindError
    <2>5. err.type = "problem" /\ KindStatus[err.kind] = 400
      BY <2>4 DEF Problem, KindStatus
    <2> HIDE DEF f, err, b
    <2>6. f.err.type = "problem" /\ KindStatus[f.err.kind] \in ProblemStatuses(o)
      BY <1>0, <2>3, <2>5
    <2>7. FaultDocumented(o, f) BY <1>0, <2>6, UnenforcedListed
    <2> QED BY <2>7 DEF f, err
  <1>4. CASE b = "none" /\ \A p \in o.params : ParameterBinds(p, sent.values)
    <2>1. \/ err = Err("validation") /\ o.validated
          \/ err = Problem("UnprocessableEntity") /\ o.enum
      BY <1>1, <1>4 DEF BindError, Err
    <2>2. 422 \in ProblemStatuses(o)
      BY <1>1, <2>1 DEF ProblemStatuses, DerivedStatuses
    <2>3. \/ err.type = "validation"
          \/ err.type = "problem" /\ KindStatus[err.kind] = 422
      BY <2>1 DEF Err, Problem, KindStatus
    <2> HIDE DEF f, err, b
    <2>6. \/ f.err.type = "problem" /\ KindStatus[f.err.kind] \in ProblemStatuses(o)
          \/ f.err.type = "validation" /\ 422 \in ProblemStatuses(o)
      BY <1>0, <2>2, <2>3
    <2>7. FaultDocumented(o, f) BY <1>0, <2>6, UnenforcedListed
    <2> QED BY <2>7 DEF f, err
  <1> QED BY <1>2, <1>3, <1>4

LEMMA FrameworkListed ==
  ASSUME NEW o, NEW f, f.enforce = FALSE,
         f.err = Problem("Internal") \/ f.err = Err("untyped")
  PROVE  FaultDocumented(o, f)
  <1>1. \/ f.err.type = "problem" /\ KindStatus[f.err.kind] \in ProblemStatuses(o)
        \/ f.err.type = "untyped"
    BY InternalKind, InternalListed DEF Problem, Err
  <1> QED BY <1>1, UnenforcedListed

-----------------------------------------------------------------------------
(* The shape of the state, which EXCEPT needs.                              *)

Shape ==
    /\ pc \in [Requests -> Places]
    /\ op \in [Requests -> Served]
    /\ passed \in [Requests -> Nat]
    /\ ran \subseteq Requests /\ aborted \subseteq Requests
    /\ DOMAIN fault = Requests
    /\ DOMAIN object = Requests \cup {Shared}
    /\ target \in [Requests -> Requests]
    /\ DOMAIN cookies = Requests
    /\ DOMAIN wire = Requests

(* What a step of another request leaves alone.                             *)
Unmoved(q) ==
    /\ op' = op
    /\ pc'[q] = pc[q] /\ passed'[q] = passed[q] /\ fault'[q] = fault[q]
    /\ object'[q] = object[q] /\ target'[q] = target[q]
    /\ cookies'[q] = cookies[q] /\ wire'[q] = wire[q]
    /\ (q \in ran') = (q \in ran)
    /\ (q \in aborted') = (q \in aborted)

LEMMA Distinct == Shared \notin Requests /\ Blank \notin Requests
  BY PipelineAssumption DEF Shared, Blank

LEMMA GuardCount == \A o \in Operations : Len(o.guards) \in Nat
  BY PipelineAssumption

LEMMA TypedKept == ASSUME op' = op PROVE \A q : Typed(q)' = Typed(q)
  BY DEF Typed

LEMMA SoundKept ==
  ASSUME NEW q, NEW w, SoundResponse(q, w), op' = op, passed'[q] = passed[q]
  PROVE  SoundResponse(q, w)'
  BY TypedKept DEF SoundResponse

LEMMA WireKept ==
  ASSUME NEW q, WireSound(q), op' = op, passed'[q] = passed[q], wire'[q] = wire[q]
  PROVE  WireSound(q)'
  <1>1. Responses(q)' = Responses(q) BY DEF Responses
  <1> QED BY <1>1, SoundKept DEF WireSound

LEMMA UnmovedProgress ==
  ASSUME NEW q \in Requests, Progress(q), Unmoved(q)
  PROVE  Progress(q)'
  <1>1. WireSound(q)' BY WireKept DEF Progress, Unmoved
  <1>2. OwnProblem(q)' BY TypedKept DEF Progress, Unmoved, OwnProblem
  <1>3. OwnPlan(q)' BY TypedKept DEF Progress, Unmoved, OwnPlan
  <1>4. WrittenLast(q)' BY TypedKept DEF Progress, Unmoved, WrittenLast
  <1> QED BY <1>1, <1>2, <1>3, <1>4 DEF Progress, Unmoved

(* Appending a sound response.                                              *)
LEMMA Appended ==
  ASSUME NEW s, NEW T, s \in Seq(T), NEW e
  PROVE  /\ Len(Append(s, e)) = Len(s) + 1
         /\ Append(s, e) \in Seq({Append(s, e)[i] : i \in 1..Len(Append(s, e))})
         /\ \A i \in 1..Len(Append(s, e)) :
               Append(s, e)[i] = e \/ (i \in 1..Len(s) /\ Append(s, e)[i] = s[i])
  <1> DEFINE t == Append(s, e)
  <1>1. /\ Len(t) = Len(s) + 1 /\ Len(s) \in Nat
        /\ t \in Seq(T \cup {e}) OBVIOUS
  <1>2. \A i \in 1..Len(t) : t[i] = IF i <= Len(s) THEN s[i] ELSE e
    BY <1>1
  <1>3. \A i \in 1..Len(t) : t[i] \in {t[j] : j \in 1..Len(t)} OBVIOUS
  <1> HIDE DEF t
  <1>4. t \in Seq({t[i] : i \in 1..Len(t)})
    <2> DEFINE R == {t[i] : i \in 1..Len(t)}
    <2>1. DOMAIN t = 1..Len(t) /\ Len(t) \in Nat BY <1>1
    <2>2. t = [i \in 1..Len(t) |-> t[i]] BY <1>1
    <2>3. t \in [1..Len(t) -> R] BY <1>3, <2>1, <2>2
    <2> HIDE DEF R
    <2> QED BY <2>1, <2>3, SeqDef DEF R
  <1>5. \A i \in 1..Len(t) : t[i] = e \/ (i \in 1..Len(s) /\ t[i] = s[i])
    BY <1>1, <1>2
  <1> QED BY <1>1, <1>4, <1>5 DEF t

LEMMA WireSent ==
  ASSUME NEW r \in Requests, NEW w, WireSound(r), SoundResponse(r, w),
         wire'[r] = Append(wire[r], w), op' = op, passed'[r] = passed[r]
  PROVE  WireSound(r)' /\ Len(wire'[r]) = Len(wire[r]) + 1
  <1> DEFINE t == Append(wire[r], w)
  <1>1. /\ Len(t) = Len(wire[r]) + 1
        /\ t \in Seq({t[i] : i \in 1..Len(t)})
        /\ \A i \in 1..Len(t) : t[i] = w \/ (i \in 1..Len(wire[r]) /\ t[i] = wire[r][i])
    BY Appended DEF WireSound
  <1>2. Responses(r)' = {t[i] : i \in 1..Len(t)} BY DEF Responses
  <1>3. \A i \in 1..Len(t) : SoundResponse(r, t[i])
    BY <1>1 DEF WireSound
  <1>4. \A x : SoundResponse(r, x) => SoundResponse(r, x)'
    BY SoundKept
  <1> QED BY <1>1, <1>2, <1>3, <1>4 DEF WireSound

-----------------------------------------------------------------------------
(* Steps of one request.                                                    *)

Keeps(r) ==
    /\ Shape'
    /\ Progress(r)'
    /\ object'[Shared] = object[Shared]
    /\ \A q \in Requests \ {r} : Unmoved(q)

(* The handler's call is recorded only behind the last guard.               *)
Called(r) == ran' = ran \/ (pc[r] = "handle" /\ ran' = ran \cup {r})

(* A step that only moves on.                                               *)
LEMMA Moves ==
  ASSUME Shape, NEW r \in Requests, Progress(r), Called(r),
         NEW place \in {"handle", "bind", "panic", "abort"},
         pc' = [pc EXCEPT ![r] = place], pc[r] # "done",
         place \in {"handle", "bind"} => passed[r] = Len(op[r].guards),
         UNCHANGED <<op, passed, aborted, object, target, cookies, wire>>,
         fault' = fault
  PROVE  Keeps(r)
  <1>1. Shape' BY DEF Shape, Places, Called
  <1>2. pc'[r] = place BY DEF Shape
  <1>3. WireSound(r)' BY WireKept DEF Progress
  <1>4. OwnProblem(r)' BY <1>2 DEF Progress, OwnProblem
  <1>5. OwnPlan(r)' BY <1>2 DEF OwnPlan
  <1>6. WrittenLast(r)' BY <1>2, TypedKept DEF Progress, WrittenLast
  <1>7. Progress(r)' BY <1>2, <1>3, <1>4, <1>5, <1>6 DEF Progress, Called
  <1>8. \A q \in Requests \ {r} : Unmoved(q) BY DEF Unmoved, Shape, Called
  <1> QED BY <1>1, <1>7, <1>8 DEF Keeps

(* A step that hands an error to dispatchResolvedError.                     *)
LEMMA Raises ==
  ASSUME Shape, NEW r \in Requests, Progress(r), Called(r), NEW f, Raise(r, f),
         pc[r] # "done",
         f.err.type \in {"problem", "shared"} => f.err.kind \in Kinds,
         Typed(r) /\ f.by = "handler" => f.enforce = TRUE /\ f.plan = HandlerPlan(op[r]),
         Typed(r) => FaultDocumented(op[r], f),
         UNCHANGED <<op, passed, aborted, object, target, cookies, wire>>
  PROVE  Keeps(r)
  <1>1. Shape' BY DEF Shape, Places, Called, Raise
  <1>2. pc'[r] = "dispatch" /\ fault'[r] = f BY DEF Shape, Raise
  <1>3. WireSound(r)' BY WireKept DEF Progress
  <1>4. OwnProblem(r)' BY <1>2 DEF Progress, OwnProblem
  <1>5. OwnPlan(r)'
    <2>1. FaultDocumented(op[r], f) => FaultDocumented(op[r], fault[r])'
      BY <1>2 DEF FaultDocumented
    <2> QED BY <1>2, <2>1, TypedKept DEF OwnPlan
  <1>6. WrittenLast(r)' BY <1>2, TypedKept DEF Progress, WrittenLast
  <1>7. Progress(r)' BY <1>2, <1>3, <1>4, <1>5, <1>6 DEF Progress, Called
  <1>8. \A q \in Requests \ {r} : Unmoved(q) BY DEF Unmoved, Shape, Called, Raise
  <1> QED BY <1>1, <1>7, <1>8 DEF Keeps

(* A step that writes the last response.                                    *)
LEMMA Writes ==
  ASSUME Shape, NEW r \in Requests, Progress(r), Called(r), NEW w, Sends(r, w),
         SoundResponse(r, w), pc[r] # "done",
         UNCHANGED <<op, passed, aborted, object, target, fault>>,
         DOMAIN cookies' = Requests,
         \A q \in Requests \ {r} : cookies'[q] = cookies[q]
  PROVE  Keeps(r)
  <1>1. Shape' BY DEF Shape, Places, Called, Sends
  <1>2. pc'[r] = "done" /\ wire'[r] = Append(wire[r], w) BY DEF Shape, Sends
  <1>3. WireSound(r)' /\ Len(wire'[r]) = Len(wire[r]) + 1
    BY <1>2, WireSent DEF Progress
  <1>4. OwnProblem(r)' BY <1>2 DEF Progress, OwnProblem
  <1>5. OwnPlan(r)' BY <1>2 DEF OwnPlan
  <1>6. WrittenLast(r)' BY <1>2, <1>3, TypedKept DEF Progress, WrittenLast
  <1>7. Progress(r)' BY <1>2, <1>3, <1>4, <1>5, <1>6 DEF Progress, Called
  <1>8. \A q \in Requests \ {r} : Unmoved(q) BY DEF Unmoved, Shape, Called, Sends
  <1> QED BY <1>1, <1>7, <1>8 DEF Keeps

LEMMA ErrorFields ==
  ASSUME NEW k, NEW t
  PROVE  /\ Problem(k).type = "problem" /\ Problem(k).kind = k /\ Err(t).type = t
  BY DEF Problem, Err

LEMMA DeclaredErrors ==
  \A e \in Errors : e.type \in {"problem", "shared"} => e.kind \in Kinds
  BY PipelineAssumption

LEMMA OpDeclared ==
  ASSUME Shape, NEW r \in Requests
  PROVE  op[r] \in Operations /\ op[r].problems \subseteq Kinds
  BY PipelineAssumption DEF Shape, Served

LEMMA GuardsDeclared ==
  ASSUME NEW o \in Operations, NEW i \in 1..Len(o.guards)
  PROVE  o.guards[i].problems \subseteq Kinds
  <1> DEFINE G == [problems : SUBSET Kinds, challenge : BOOLEAN]
  <1>1. o.guards \in Seq(G) BY PipelineAssumption
  <1> HIDE DEF G
  <1>2. o.guards[i] \in G BY <1>1
  <1> QED BY <1>2 DEF G

LEMMA GuardDeclared ==
  ASSUME Shape, NEW r \in Requests, Guarding(r)
  PROVE  Guard(r) \in Guards(op[r]) /\ Guard(r).problems \subseteq Kinds
  <1>1. op[r] \in Operations /\ Len(op[r].guards) \in Nat BY OpDeclared, GuardCount
  <1>2. passed[r] \in Nat /\ passed[r] < Len(op[r].guards) BY DEF Shape, Guarding
  <1>3. passed[r] + 1 \in 1..Len(op[r].guards) BY <1>1, <1>2
  <1>4. Guard(r).problems \subseteq Kinds BY <1>1, <1>3, GuardsDeclared DEF Guard
  <1>5. Guard(r) \in Guards(op[r]) BY <1>3 DEF Guard, Guards
  <1> QED BY <1>4, <1>5

(* The guard chain.                                                         *)
LEMMA GuardPassesKeeps ==
  ASSUME Shape, NEW r \in Requests, Progress(r), GuardPasses(r)
  PROVE  Keeps(r)
  <1>0. Len(op[r].guards) \in Nat BY GuardCount DEF Shape, Served
  <1>1. Shape' BY DEF Shape, GuardPasses
  <1>2. /\ pc[r] = "guard" /\ passed[r] < Len(op[r].guards)
        /\ passed'[r] = passed[r] + 1 /\ wire' = wire /\ op' = op
    BY DEF GuardPasses, Guarding, Shape
  <1>3. \A w : SoundResponse(r, w) => SoundResponse(r, w)'
    BY <1>0, <1>2, TypedKept DEF SoundResponse, Progress, Shape
  <1>4. Responses(r)' = Responses(r) BY <1>2 DEF Responses
  <1>5. WireSound(r)' BY <1>2, <1>3, <1>4 DEF Progress, WireSound
  <1>6. OwnProblem(r)' BY <1>2 DEF Progress, OwnProblem, GuardPasses
  <1>7. OwnPlan(r)' BY <1>2 DEF OwnPlan, GuardPasses
  <1>8. WrittenLast(r)' BY <1>2, TypedKept DEF Progress, WrittenLast, GuardPasses
  <1>9. Progress(r)'
    BY <1>0, <1>2, <1>5, <1>6, <1>7, <1>8 DEF Progress, GuardPasses, Shape
  <1>10. \A q \in Requests \ {r} : Unmoved(q) BY DEF Unmoved, Shape, GuardPasses
  <1> QED BY <1>1, <1>9, <1>10 DEF Keeps, GuardPasses

LEMMA GuardRejectsKeeps ==
  ASSUME Shape, NEW r \in Requests, Progress(r), NEW err \in Errors, GuardRejects(r, err)
  PROVE  Keeps(r)
  <1> DEFINE f == Fault(err, GuardPlan(Guard(r)), TRUE, "guard")
  <1>1. Called(r) /\ Raise(r, f) /\ pc[r] # "done"
    BY DEF GuardRejects, Guarding, Called
  <1>2. f.err.type \in {"problem", "shared"} => f.err.kind \in Kinds
    BY DeclaredErrors DEF Fault, UnstampedFault
  <1>3. Typed(r) /\ f.by = "handler" => f.enforce = TRUE /\ f.plan = HandlerPlan(op[r])
    BY DEF Fault, UnstampedFault
  <1>4. UNCHANGED <<op, passed, aborted, object, target, cookies, wire>>
    BY DEF GuardRejects
  <1>9. FaultDocumented(op[r], f)
    BY GuardDeclared, DeclaredErrors, GuardFaultListed DEF GuardRejects
  <1> HIDE DEF f
  <1> QED BY <1>1, <1>2, <1>3, <1>4, <1>9, Raises

LEMMA GuardReturnsNilKeeps ==
  ASSUME Shape, NEW r \in Requests, Progress(r), GuardReturnsNil(r)
  PROVE  Keeps(r)
  <1> DEFINE f == Fault(Problem("Internal"), GuardPlan(Guard(r)), TRUE, "guard")
  <1>1. Called(r) /\ Raise(r, f) /\ pc[r] # "done"
    BY DEF GuardReturnsNil, Guarding, Called
  <1>2. f.err.type \in {"problem", "shared"} => f.err.kind \in Kinds
    BY ErrorFields, InternalKind DEF Fault, UnstampedFault
  <1>3. Typed(r) /\ f.by = "handler" => f.enforce = TRUE /\ f.plan = HandlerPlan(op[r])
    BY DEF Fault, UnstampedFault
  <1>4. UNCHANGED <<op, passed, aborted, object, target, cookies, wire>>
    BY DEF GuardReturnsNil
  <1>9. FaultDocumented(op[r], f)
    <2>1. Guard(r) \in Guards(op[r]) /\ Guard(r).problems \subseteq Kinds
      BY GuardDeclared DEF GuardReturnsNil
    <2>2. Problem("Internal").kind \in Kinds BY ErrorFields, InternalKind
    <2> QED BY <2>1, <2>2, GuardFaultListed
  <1> HIDE DEF f
  <1> QED BY <1>1, <1>2, <1>3, <1>4, <1>9, Raises

LEMMA GuardsDoneKeeps ==
  ASSUME Shape, NEW r \in Requests, Progress(r), GuardsDone(r)
  PROVE  Keeps(r)
  BY Moves DEF GuardsDone, Called

(* The bound handler.                                                       *)
LEMMA BodyKinds == ASSUME NEW b, NEW sent PROVE BodyProblem(b, sent) \in Kinds \cup {"none"}
  BY DEF BodyProblem, Kinds, KindStatus

LEMMA BindErrors ==
  ASSUME NEW o, NEW sent
  PROVE  BindError(o, sent).type \in {"problem", "shared"} => BindError(o, sent).kind \in Kinds
  <1>1. "BadRequest" \in Kinds /\ "UnprocessableEntity" \in Kinds BY DEF Kinds, KindStatus
  <1>2. BodyProblem(o.body, sent.body) # "none" => BodyProblem(o.body, sent.body) \in Kinds
    BY BodyKinds
  <1> QED BY <1>1, <1>2 DEF BindError, Problem, Err

LEMMA BindKeeps ==
  ASSUME Shape, NEW r \in Requests, Progress(r), NEW sent \in Sent, Bind(r, sent)
  PROVE  Keeps(r)
  <1>1. CASE BindError(op[r], sent).type = "none"
    BY <1>1, Moves DEF Bind, Called, Progress
  <1>2. CASE BindError(op[r], sent).type # "none"
    <2> DEFINE f == Fault(BindError(op[r], sent), AnyPlan, FALSE, "adapter")
    <2>1. Called(r) /\ Raise(r, f) /\ pc[r] # "done"
      BY <1>2 DEF Bind, Called
    <2>2. f.err.type \in {"problem", "shared"} => f.err.kind \in Kinds
      BY BindErrors DEF Fault, UnstampedFault
    <2>3. Typed(r) /\ f.by = "handler" => f.enforce = TRUE /\ f.plan = HandlerPlan(op[r])
      BY DEF Fault, UnstampedFault
    <2>4. UNCHANGED <<op, passed, aborted, object, target, cookies, wire>>
      BY DEF Bind
    <2>9. FaultDocumented(op[r], f)
      BY <1>2, OpDeclared, BindListed
    <2> HIDE DEF f
    <2> QED BY <2>1, <2>2, <2>3, <2>4, <2>9, Raises
  <1> QED BY <1>1, <1>2

LEMMA HandlerFailsKeeps ==
  ASSUME Shape, NEW r \in Requests, Progress(r), NEW err \in Errors, HandlerFails(r, err)
  PROVE  Keeps(r)
  <1> DEFINE f == Fault(err, HandlerPlan(op[r]), TRUE, "handler")
  <1>1. Called(r) /\ Raise(r, f) /\ pc[r] # "done"
    BY DEF HandlerFails, Handling, Called
  <1>2. f.err.type \in {"problem", "shared"} => f.err.kind \in Kinds
    BY DeclaredErrors DEF Fault, UnstampedFault
  <1>3. Typed(r) /\ f.by = "handler" => f.enforce = TRUE /\ f.plan = HandlerPlan(op[r])
    BY DEF Fault, UnstampedFault
  <1>4. UNCHANGED <<op, passed, aborted, object, target, cookies, wire>>
    BY DEF HandlerFails
  <1>9. FaultDocumented(op[r], f)
    BY OpDeclared, DeclaredErrors, HandlerFaultListed
  <1> HIDE DEF f
  <1> QED BY <1>1, <1>2, <1>3, <1>4, <1>9, Raises

LEMMA HandlerReturnsNilKeeps ==
  ASSUME Shape, NEW r \in Requests, Progress(r), HandlerReturnsNil(r)
  PROVE  Keeps(r)
  <1> DEFINE f == UnstampedFault(Problem("Internal"), AnyPlan, FALSE, "framework")
  <1>1. Called(r) /\ Raise(r, f) /\ pc[r] # "done"
    BY DEF HandlerReturnsNil, Handling, Called
  <1>2. f.err.type \in {"problem", "shared"} => f.err.kind \in Kinds
    BY ErrorFields, InternalKind DEF Fault, UnstampedFault
  <1>3. Typed(r) /\ f.by = "handler" => f.enforce = TRUE /\ f.plan = HandlerPlan(op[r])
    BY DEF Fault, UnstampedFault
  <1>4. UNCHANGED <<op, passed, aborted, object, target, cookies, wire>>
    BY DEF HandlerReturnsNil
  <1>9. FaultDocumented(op[r], f)
    <2>1. f.enforce = FALSE /\ (f.err = Problem("Internal") \/ f.err = Err("untyped"))
      BY DEF Fault, UnstampedFault
    <2> QED BY <2>1, FrameworkListed
  <1> HIDE DEF f
  <1> QED BY <1>1, <1>2, <1>3, <1>4, <1>9, Raises

LEMMA CommitRefusedKeeps ==
  ASSUME Shape, NEW r \in Requests, Progress(r), NEW reply, CommitRefused(r, reply)
  PROVE  Keeps(r)
  <1> DEFINE f == Fault(Problem("Internal"), AnyPlan, FALSE, "framework")
  <1>1. Called(r) /\ Raise(r, f) /\ pc[r] # "done"
    BY DEF CommitRefused, Handling, Called
  <1>2. f.err.type \in {"problem", "shared"} => f.err.kind \in Kinds
    BY ErrorFields, InternalKind DEF Fault, UnstampedFault
  <1>3. Typed(r) /\ f.by = "handler" => f.enforce = TRUE /\ f.plan = HandlerPlan(op[r])
    BY DEF Fault, UnstampedFault
  <1>4. UNCHANGED <<op, passed, aborted, object, target, cookies, wire>>
    BY DEF CommitRefused
  <1>9. FaultDocumented(op[r], f)
    <2>1. f.enforce = FALSE /\ (f.err = Problem("Internal") \/ f.err = Err("untyped"))
      BY DEF Fault, UnstampedFault
    <2> QED BY <2>1, FrameworkListed
  <1> HIDE DEF f
  <1> QED BY <1>1, <1>2, <1>3, <1>4, <1>9, Raises

LEMMA StatusRange ==
  ASSUME NEW o \in Served PROVE o.status \in 200..399
  BY DEF Served, WellFormed, RawWellFormed, SuccessWellFormed

LEMMA CommitFailsKeeps ==
  ASSUME Shape, NEW r \in Requests, Progress(r), NEW reply, CommitFails(r, reply)
  PROVE  Keeps(r)
  <1> DEFINE w == Failure("Internal", 500, Blank, cookies[r], "framework")
  <1>1. pc[r] = "handle" /\ Typed(r) /\ cookies[r] = {}
    BY DEF CommitFails, Handling, Progress, WrittenLast
  <1>3. ResponseDocumented(op[r], w) BY InternalListed DEF ResponseDocumented, Failure
  <1>2. SoundResponse(r, w) BY <1>1, <1>3 DEF SoundResponse, Failure
  <1> HIDE DEF w
  <1> QED BY <1>1, <1>2, Writes DEF CommitFails, Handling, Called, Shape, w

LEMMA CommitKeeps ==
  ASSUME Shape, NEW r \in Requests, Progress(r), NEW reply, Commit(r, reply)
  PROVE  Keeps(r)
  <1> DEFINE w == Success(op[r].status, IF Bodiless(op[r]) THEN "none" ELSE "json",
                          reply.cookies)
  <1>1. pc[r] = "handle" /\ passed[r] = Len(op[r].guards)
    BY DEF Commit, Handling, Progress
  <1>2. op[r].status \in 200..399 BY StatusRange DEF Shape
  <1>3. reply.cookies \subseteq op[r].cookies BY DEF Commit, Acceptable
  <1>6. ResponseDocumented(op[r], w) BY DEF ResponseDocumented, Success
  <1>4. SoundResponse(r, w) BY <1>1, <1>2, <1>3, <1>6 DEF SoundResponse, Success
  <1>5. DOMAIN cookies' = Requests /\ \A q \in Requests \ {r} : cookies'[q] = cookies[q]
    BY DEF Commit, Shape
  <1> HIDE DEF w
  <1> QED BY <1>1, <1>4, <1>5, Writes DEF Commit, Handling, Called, w

(* Raw handlers, and panics.                                                *)
LEMMA RawWritesKeeps ==
  ASSUME Shape, NEW r \in Requests, Progress(r), RawWrites(r)
  PROVE  Keeps(r)
  <1> DEFINE w == Success(op[r].status, "json", cookies[r])
  <1>1. /\ pc[r] = "handle" /\ passed[r] = Len(op[r].guards) /\ ~Typed(r)
        /\ wire'[r] = Append(wire[r], w) /\ op' = op /\ passed' = passed /\ pc' = pc
    BY DEF RawWrites, RawHandling, Progress, Shape
  <1>2. op[r].status \in 200..399 BY StatusRange DEF Shape
  <1>3. SoundResponse(r, w) BY <1>1, <1>2 DEF SoundResponse, Success
  <1> HIDE DEF w
  <1>4. WireSound(r)' BY <1>1, <1>3, WireSent DEF Progress
  <1>5. Shape' BY DEF Shape, RawWrites, RawHandling
  <1>6. OwnProblem(r)' BY <1>1 DEF Progress, OwnProblem, RawWrites
  <1>7. OwnPlan(r)' BY <1>1 DEF OwnPlan
  <1>8. WrittenLast(r)' BY <1>1, TypedKept DEF WrittenLast
  <1>9. Progress(r)' BY <1>1, <1>4, <1>6, <1>7, <1>8 DEF Progress
  <1>10. \A q \in Requests \ {r} : Unmoved(q)
    BY DEF Unmoved, Shape, RawWrites, RawHandling
  <1> QED BY <1>5, <1>9, <1>10 DEF Keeps, RawWrites

LEMMA RawFailsKeeps ==
  ASSUME Shape, NEW r \in Requests, Progress(r), NEW err \in Errors, RawFails(r, err)
  PROVE  Keeps(r)
  <1> DEFINE f == Fault(err, AnyPlan, FALSE, "handler")
  <1>1. Called(r) /\ Raise(r, f) /\ pc[r] # "done" /\ ~Typed(r)
    BY DEF RawFails, RawHandling, Called
  <1>2. f.err.type \in {"problem", "shared"} => f.err.kind \in Kinds
    BY DeclaredErrors DEF Fault
  <1>3. UNCHANGED <<op, passed, aborted, object, target, cookies, wire>>
    BY DEF RawFails
  <1> HIDE DEF f
  <1> QED BY <1>1, <1>2, <1>3, Raises

(* A request that ends without a response: a raw handler, or an abort.      *)
LEMMA Ends ==
  ASSUME Shape, NEW r \in Requests, Progress(r), Called(r),
         pc' = [pc EXCEPT ![r] = "done"], pc[r] # "done",
         ~Typed(r) \/ r \in aborted', aborted' \in {aborted, aborted \cup {r}},
         UNCHANGED <<op, passed, fault, object, target, cookies, wire>>
  PROVE  Keeps(r)
  <1>1. Shape' BY DEF Shape, Places, Called
  <1>2. pc'[r] = "done" BY DEF Shape
  <1>3. WireSound(r)' BY WireKept DEF Progress
  <1>4. OwnProblem(r)' BY <1>2 DEF Progress, OwnProblem
  <1>5. OwnPlan(r)' BY <1>2 DEF OwnPlan
  <1>6. Typed(r) => wire'[r] = <<>> /\ Len(wire'[r]) = 0
    BY DEF Progress, WrittenLast
  <1>7. WrittenLast(r)' BY <1>2, <1>6, TypedKept DEF WrittenLast
  <1>8. Progress(r)' BY <1>2, <1>3, <1>4, <1>5, <1>7 DEF Progress, Called
  <1>9. \A q \in Requests \ {r} : Unmoved(q) BY DEF Unmoved, Shape, Called
  <1> QED BY <1>1, <1>8, <1>9 DEF Keeps

LEMMA RawReturnsKeeps ==
  ASSUME Shape, NEW r \in Requests, Progress(r), RawReturns(r)
  PROVE  Keeps(r)
  BY Ends DEF RawReturns, RawHandling, Called

LEMMA AbortSwallowedKeeps ==
  ASSUME Shape, NEW r \in Requests, Progress(r), AbortSwallowed(r)
  PROVE  Keeps(r)
  BY Ends DEF AbortSwallowed, Called

LEMMA PanicsKeeps ==
  ASSUME Shape, NEW r \in Requests, Progress(r), NEW place \in {"panic", "abort"},
         Panics(r, place)
  PROVE  Keeps(r)
  <1>1. Called(r) /\ pc[r] # "done" BY DEF Panics, Called, Guarding
  <1> QED BY <1>1, Moves DEF Panics

LEMMA RecoveredKeeps ==
  ASSUME Shape, NEW r \in Requests, Progress(r), Recovered(r)
  PROVE  Keeps(r)
  <1> DEFINE f == Fault(Err("untyped"), AnyPlan, FALSE, "framework")
  <1>1. Called(r) /\ Raise(r, f) /\ pc[r] # "done" BY DEF Recovered, Called
  <1>2. f.err.type = "untyped" /\ f.by # "handler" BY ErrorFields DEF Fault
  <1>3. UNCHANGED <<op, passed, aborted, object, target, cookies, wire>>
    BY DEF Recovered
  <1>9. FaultDocumented(op[r], f)
    <2>1. f.enforce = FALSE /\ (f.err = Problem("Internal") \/ f.err = Err("untyped"))
      BY DEF Fault, UnstampedFault
    <2> QED BY <2>1, FrameworkListed
  <1> HIDE DEF f
  <1> QED BY <1>1, <1>2, <1>3, <1>9, Raises

(* The writers.                                                             *)
LEMMA DispatchChallengeKeeps ==
  ASSUME Shape, NEW r \in Requests, Progress(r), DispatchChallenge(r)
  PROVE  Keeps(r)
  <1> DEFINE w == Challenge(cookies[r], fault[r].by)
  <1>1. pc[r] = "dispatch" /\ (Typed(r) => cookies[r] = {})
    BY DEF DispatchChallenge, Progress, WrittenLast
  <1>3. Typed(r) => ResponseDocumented(op[r], w)
    <2>1. Typed(r) => FaultDocumented(op[r], fault[r])
      BY <1>1 DEF Progress, OwnPlan
    <2> QED BY <2>1 DEF DispatchChallenge, FaultDocumented, ResponseDocumented, Challenge
  <1>2. SoundResponse(r, w) BY <1>1, <1>3 DEF SoundResponse, Challenge
  <1> HIDE DEF w
  <1> QED BY <1>1, <1>2, Writes DEF DispatchChallenge, Called, Shape, w

LEMMA DispatchErrorKeeps ==
  ASSUME Shape, NEW r \in Requests, Progress(r), DispatchError(r)
  PROVE  Keeps(r)
  <1> DEFINE a == Answer(fault[r])
             stamp == IF fault[r].stamp = "path" THEN r ELSE Blank
             p == [kind |-> a.kind, status |-> a.status, instance |-> stamp]
  <1>1. pc[r] = "dispatch" BY DEF DispatchError
  <1>2. object' = [object EXCEPT ![r] = p] /\ target' = [target EXCEPT ![r] = r]
    BY DEF DispatchError, Clone
  <1>3. a.status \in 400..599 BY <1>1, AnswerStatus DEF Progress, OwnPlan
  <1>4. Typed(r) /\ fault[r].by = "handler" => a.kind \in op[r].problems \cup {"Internal"}
    <2> SUFFICES ASSUME Typed(r), fault[r].by = "handler"
                 PROVE  a.kind \in op[r].problems \cup {"Internal"}
      OBVIOUS
    <2>1. fault[r].enforce = TRUE /\ fault[r].plan = HandlerPlan(op[r])
      BY <1>1 DEF Progress, OwnPlan
    <2>2. fault[r].plan.allowed = op[r].problems \cup {"Internal"}
      BY <2>1 DEF HandlerPlan
    <2> QED BY <2>1, <2>2, AnswerDeclared
  <1>15. Typed(r) => a.status \in ProblemStatuses(op[r])
    BY <1>1 DEF Progress, OwnPlan, FaultDocumented
  <1>5. p.kind = a.kind /\ p.status = a.status /\ p.instance \in {Blank, r} OBVIOUS
  <1> HIDE DEF a, p
  <1>6. /\ object'[r] = p /\ target'[r] = r /\ object'[Shared] = object[Shared]
        /\ DOMAIN object' = DOMAIN object
    BY <1>2, Distinct DEF Shape
  <1>7. Shape' BY <1>2, <1>6 DEF Shape, Places, DispatchError
  <1>8. pc'[r] = "write" BY DEF DispatchError, Shape
  <1>9. OwnProblem(r)'
    BY <1>3, <1>4, <1>5, <1>15, <1>6, <1>8, TypedKept DEF OwnProblem, DispatchError
  <1>10. OwnPlan(r)' BY <1>8 DEF OwnPlan
  <1>11. WireSound(r)' BY WireKept DEF Progress, DispatchError
  <1>12. WrittenLast(r)'
    BY <1>1, <1>8, TypedKept DEF Progress, WrittenLast, DispatchError
  <1>13. Progress(r)' BY <1>8, <1>9, <1>10, <1>11, <1>12 DEF Progress, DispatchError
  <1>14. \A q \in Requests \ {r} : Unmoved(q)
    BY <1>2 DEF Unmoved, Shape, DispatchError
  <1> QED BY <1>6, <1>7, <1>13, <1>14 DEF Keeps

LEMMA WriteProblemKeeps ==
  ASSUME Shape, NEW r \in Requests, Progress(r), NEW encodes \in BOOLEAN,
         WriteProblem(r, encodes)
  PROVE  Keeps(r)
  <1> DEFINE k == IF encodes THEN object[r].kind ELSE "Internal"
             s == IF encodes THEN object[r].status ELSE KindStatus["Internal"]
             w == Failure(k, s, object[r].instance, cookies[r], fault[r].by)
  <1>1. pc[r] = "write" /\ target[r] = r BY DEF WriteProblem, Progress, OwnProblem
  <1>2. Sends(r, w) BY <1>1 DEF WriteProblem
  <1>3. s \in 400..599 BY InternalKind DEF Progress, OwnProblem
  <1>4. Typed(r) /\ fault[r].by = "handler" => k \in op[r].problems \cup {"Internal"}
    BY <1>1 DEF Progress, OwnProblem
  <1>5. Typed(r) => cookies[r] = {} BY <1>1 DEF Progress, WrittenLast
  <1>6. object[r].instance \in {Blank, r} BY DEF Progress, OwnProblem
  <1>9. Typed(r) => s \in ProblemStatuses(op[r])
    BY <1>1, InternalKind, InternalListed DEF Progress, OwnProblem
  <1> HIDE DEF k, s
  <1>10. Typed(r) => ResponseDocumented(op[r], w) BY <1>9 DEF ResponseDocumented, Failure
  <1>11. /\ w.status = s /\ w.instance = object[r].instance /\ w.kind = k
         /\ w.by = fault[r].by /\ w.cookies = cookies[r]
    BY DEF Failure
  <1> HIDE DEF w
  <1>12. w.status \in 200..599 /\ w.status >= 400 BY <1>3, <1>11
  <1>13. Typed(r) => w.cookies = {} BY <1>5, <1>11
  <1>14. Typed(r) /\ w.by = "handler" => w.kind \in op[r].problems \cup {"Internal"}
    BY <1>4, <1>11
  <1>7. SoundResponse(r, w)
    BY <1>6, <1>10, <1>11, <1>12, <1>13, <1>14 DEF SoundResponse
  <1>8. Called(r) /\ UNCHANGED <<op, passed, aborted, object, target, fault, cookies>>
    BY DEF WriteProblem, Called
  <1> QED BY <1>1, <1>2, <1>7, <1>8, Writes DEF Shape

-----------------------------------------------------------------------------
(* The inductive invariant.                                                 *)

IInv == Shape /\ PipelineInv

LEMMA InitInv == Init => IInv
  <1> SUFFICES ASSUME Init PROVE IInv OBVIOUS
  <1>1. Shape
    BY DEF Init, Shape, Places
  <1>2. KindStatus[SharedKind] \in 400..599 BY KindStatuses, PipelineAssumption
  <1>3. ASSUME NEW r \in Requests PROVE Progress(r)
    <2>1. Len(op[r].guards) \in Nat BY <1>1, GuardCount DEF Shape, Served
    <2>2. /\ pc[r] = "guard" /\ passed[r] = 0 /\ ran = {} /\ target[r] = r
          /\ cookies[r] = {} /\ wire[r] = <<>>
      BY DEF Init
    <2>3. object[r].instance = Blank /\ object[r].status = KindStatus[SharedKind]
      BY DEF Init
    <2>4. OwnProblem(r) BY <1>2, <2>2, <2>3 DEF OwnProblem
    <2>5. OwnPlan(r) BY <2>2 DEF OwnPlan
    <2>6. WireSound(r) BY <2>2 DEF WireSound
    <2>7. WrittenLast(r) BY <2>2 DEF WrittenLast
    <2> QED BY <2>1, <2>2, <2>4, <2>5, <2>6, <2>7 DEF Progress
  <1>4. object[Shared].status \in 400..599
    BY <1>2 DEF Init
  <1> QED BY <1>1, <1>3, <1>4 DEF IInv, PipelineInv

LEMMA StepKeeps ==
  ASSUME Shape, NEW r \in Requests, Progress(r), Step(r)
  PROVE  Keeps(r)
  <1>1. CASE GuardPasses(r) BY <1>1, GuardPassesKeeps
  <1>2. CASE GuardReturnsNil(r) BY <1>2, GuardReturnsNilKeeps
  <1>3. CASE GuardsDone(r) BY <1>3, GuardsDoneKeeps
  <1>4. CASE \E err \in Errors : GuardRejects(r, err) BY <1>4, GuardRejectsKeeps
  <1>5. CASE \E sent \in Sent : Bind(r, sent) BY <1>5, BindKeeps
  <1>6. CASE \E err \in Errors : HandlerFails(r, err) BY <1>6, HandlerFailsKeeps
  <1>7. CASE HandlerReturnsNil(r) BY <1>7, HandlerReturnsNilKeeps
  <1>8. CASE \E reply \in Replies : CommitRefused(r, reply) BY <1>8, CommitRefusedKeeps
  <1>9. CASE \E reply \in Replies : CommitFails(r, reply) BY <1>9, CommitFailsKeeps
  <1>10. CASE \E reply \in Replies : Commit(r, reply) BY <1>10, CommitKeeps
  <1>11. CASE RawWrites(r) BY <1>11, RawWritesKeeps
  <1>12. CASE RawReturns(r) BY <1>12, RawReturnsKeeps
  <1>13. CASE \E err \in Errors : RawFails(r, err) BY <1>13, RawFailsKeeps
  <1>14. CASE \E place \in {"panic", "abort"} : Panics(r, place) BY <1>14, PanicsKeeps
  <1>15. CASE Recovered(r) BY <1>15, RecoveredKeeps
  <1>16. CASE AbortSwallowed(r) BY <1>16, AbortSwallowedKeeps
  <1>17. CASE DispatchChallenge(r) BY <1>17, DispatchChallengeKeeps
  <1>18. CASE DispatchError(r) BY <1>18, DispatchErrorKeeps
  <1>19. CASE \E encodes \in BOOLEAN : WriteProblem(r, encodes) BY <1>19, WriteProblemKeeps
  <1> QED
    BY <1>1, <1>2, <1>3, <1>4, <1>5, <1>6, <1>7, <1>8, <1>9, <1>10, <1>11, <1>12,
       <1>13, <1>14, <1>15, <1>16, <1>17, <1>18, <1>19 DEF Step

LEMMA StutterInv == ASSUME IInv, UNCHANGED vars PROVE IInv'
  <1>1. Shape' BY DEF IInv, Shape, vars
  <1>2. ASSUME NEW q \in Requests PROVE Progress(q)'
    BY UnmovedProgress DEF IInv, PipelineInv, Unmoved, vars
  <1> QED BY <1>1, <1>2 DEF IInv, PipelineInv, vars

LEMMA NextInv == IInv /\ [Next]_vars => IInv'
  <1> SUFFICES ASSUME IInv, [Next]_vars PROVE IInv' OBVIOUS
  <1>1. CASE Next
    <2> PICK r \in Requests : Step(r) BY <1>1 DEF Next
    <2>1. Keeps(r) BY StepKeeps DEF IInv, PipelineInv
    <2>2. ASSUME NEW q \in Requests \ {r} PROVE Progress(q)'
      BY <2>1, UnmovedProgress DEF Keeps, IInv, PipelineInv
    <2> QED BY <2>1, <2>2 DEF Keeps, IInv, PipelineInv
  <1>2. CASE UNCHANGED vars BY <1>2, StutterInv
  <1> QED BY <1>1, <1>2

LEMMA Inductive == Spec => []IInv
  BY InitInv, NextInv, PTL DEF Spec

(* The invariant of every request in flight, whatever guards, binder,       *)
(* handler and writers do in whichever order.                               *)
THEOREM PipelineInvariant == Spec => []PipelineInv
  <1>1. IInv => PipelineInv BY DEF IInv
  <1> QED BY <1>1, Inductive, PTL

LEMMA SentIsSound ==
  ASSUME IInv, NEW r \in Requests, NEW w \in Responses(r)
  PROVE  SoundResponse(r, w)
  BY DEF IInv, PipelineInv, Progress, WireSound, Responses

(* Requests, problems and responses stay well formed.                       *)
THEOREM TypeCorrect == Spec => []TypeOK
  <1>1. ASSUME IInv PROVE TypeOK
    <2>1. \A r \in Requests : op[r] \in Operations /\ passed[r] \in 0..Len(op[r].guards)
      BY <1>1 DEF IInv, Shape, Served, PipelineInv, Progress
    <2>2. \A o \in DOMAIN object : object[o].status \in 400..599
      BY <1>1 DEF IInv, Shape, PipelineInv, Progress, OwnProblem
    <2>3. ASSUME NEW r \in Requests, NEW i \in 1..Len(wire[r])
          PROVE  wire[r][i].status \in 200..599
      <3>1. WireSound(r) BY <1>1 DEF IInv, PipelineInv, Progress
      <3>2. SoundResponse(r, wire[r][i]) BY <3>1 DEF WireSound
      <3> QED BY <3>2 DEF SoundResponse
    <2>4. \A r \in Requests : target[r] \in Requests \cup {Shared}
      BY <1>1 DEF IInv, Shape
    <2> QED BY <1>1, <2>1, <2>2, <2>3, <2>4 DEF TypeOK, IInv, Shape
  <1> QED BY <1>1, Inductive, PTL

(* A typed operation writes one response, unless it is aborted.             *)
THEOREM OneAnswer == Spec => []AnsweredOnce
  <1>1. ASSUME IInv, NEW r \in Requests, Typed(r)
        PROVE  /\ Len(wire[r]) <= 1
               /\ pc[r] = "done" /\ r \notin aborted => Len(wire[r]) = 1
    <2>1. WrittenLast(r) BY <1>1 DEF IInv, PipelineInv, Progress
    <2>2. wire[r] = <<>> => Len(wire[r]) = 0 OBVIOUS
    <2> QED BY <1>1, <2>1, <2>2 DEF WrittenLast
  <1>2. IInv => AnsweredOnce BY <1>1 DEF AnsweredOnce
  <1> QED BY <1>2, Inductive, PTL

(* No handler runs, and no success is written, before the last guard.       *)
THEOREM GuardsFailClosed == Spec => []HandlerRunsGuarded
  <1>1. ASSUME IInv, NEW r \in Requests, passed[r] # Len(op[r].guards)
        PROVE  r \notin ran /\ \A w \in Responses(r) : w.status >= 400
    BY <1>1, SentIsSound DEF IInv, PipelineInv, Progress, SoundResponse
  <1>2. IInv => HandlerRunsGuarded BY <1>1 DEF HandlerRunsGuarded
  <1> QED BY <1>2, Inductive, PTL

(* A handler's problem on the wire is one it declares, or the 500.          *)
THEOREM ProblemsDeclared == Spec => []HandlerProblemsDeclared
  <1>1. IInv => HandlerProblemsDeclared
    BY SentIsSound DEF HandlerProblemsDeclared, SoundResponse
  <1> QED BY <1>1, Inductive, PTL

(* No cookie is set by a response that is not the declared success.         *)
THEOREM CookiesHeld == Spec => []CookiesOnlyOnSuccess
  <1>1. IInv => CookiesOnlyOnSuccess
    BY SentIsSound DEF CookiesOnlyOnSuccess, SoundResponse
  <1> QED BY <1>1, Inductive, PTL

(* A problem names its own request, for any number of concurrent ones.      *)
THEOREM InstancesOwn == Spec => []OwnInstance
  <1>1. ASSUME IInv, NEW r \in Requests
        PROVE  /\ \A w \in Responses(r) : w.instance \in {Blank, r}
               /\ object[target[r]].instance \in {Blank, r}
    <2>1. \A w \in Responses(r) : w.instance \in {Blank, r}
      BY <1>1, SentIsSound DEF SoundResponse
    <2> QED BY <1>1, <2>1 DEF IInv, PipelineInv, Progress, OwnProblem
  <1>2. IInv => OwnInstance BY <1>1 DEF OwnInstance
  <1> QED BY <1>2, Inductive, PTL

(* What the document lists of a success, of a problem and of a challenge.   *)
LEMMA ListedBodies ==
  ASSUME NEW o, o.status \in 200..399, ProblemStatuses(o) \subseteq 400..599
  PROVE  LET doc == Documented(o) IN
         /\ o.status \in DOMAIN doc
         /\ doc[o.status].body = IF Bodiless(o) THEN "none" ELSE "json"
         /\ \A s \in ProblemStatuses(o) : s \in DOMAIN doc /\ doc[s].body = "problem"
         /\ ChallengeDocumented(o) => 401 \in DOMAIN doc /\ doc[401].challenge
  <1> DEFINE D == {o.status} \cup ProblemStatuses(o)
                    \cup (IF ChallengeDocumented(o) THEN {401} ELSE {})
             entry(s) == [body |-> IF s = o.status THEN IF Bodiless(o) THEN "none" ELSE "json"
                                   ELSE IF s \in ProblemStatuses(o) THEN "problem"
                                   ELSE "none",
                          challenge |-> s = 401 /\ ChallengeDocumented(o)]
  <1>1. Documented(o) = [s \in D |-> entry(s)] BY DEF Documented
  <1>2. entry(o.status).body = IF Bodiless(o) THEN "none" ELSE "json" OBVIOUS
  <1>3. \A s \in ProblemStatuses(o) : s # o.status
    <2> SUFFICES ASSUME NEW s \in ProblemStatuses(o) PROVE s # o.status OBVIOUS
    <2>1. s \in 400..599 OBVIOUS
    <2>2. s >= 400 /\ o.status < 400 BY <2>1
    <2> QED BY <2>2
  <1>4. \A s \in ProblemStatuses(o) : entry(s).body = "problem" BY <1>3
  <1>5. ChallengeDocumented(o) => entry(401).challenge OBVIOUS
  <1>6. /\ o.status \in D /\ ProblemStatuses(o) \subseteq D
        /\ ChallengeDocumented(o) => 401 \in D
    OBVIOUS
  <1> HIDE DEF D, entry
  <1> QED BY <1>1, <1>2, <1>4, <1>5, <1>6

LEMMA ProblemRange ==
  ASSUME NEW o \in Operations
  PROVE  ProblemStatuses(o) \subseteq 400..599
  <1>1. o.problems \subseteq Kinds BY PipelineAssumption
  <1>2. \A g \in Guards(o) : g.problems \subseteq Kinds
    BY GuardsDeclared DEF Guards
  <1>3. DerivedStatuses(o) \subseteq 400..599 BY DEF DerivedStatuses
  <1> QED BY <1>1, <1>2, <1>3, KindStatuses DEF ProblemStatuses

(* The OpenAPI entry of a typed operation is true of everything it writes,  *)
(* for any declarations, guards, parameters, errors and inputs.             *)
THEOREM DocumentIsTrue == Spec => []ServedIsDocumented
  <1>1. ASSUME IInv, NEW r \in Requests, Typed(r), NEW w \in Responses(r)
        PROVE  LET doc == Documented(op[r])
               IN  /\ w.status \in DOMAIN doc
                   /\ w.body # "none" => w.body = doc[w.status].body
                   /\ w.status = op[r].status => w.body = doc[w.status].body
                   /\ w.challenge => doc[w.status].challenge
    <2>1. ResponseDocumented(op[r], w) BY <1>1, SentIsSound DEF SoundResponse
    <2>2. op[r].status \in 200..399 BY <1>1, StatusRange DEF IInv, Shape
    <2>3. ProblemStatuses(op[r]) \subseteq 400..599
      BY <1>1, OpDeclared, ProblemRange DEF IInv
    <2> DEFINE doc == Documented(op[r])
    <2>4. /\ op[r].status \in DOMAIN doc
          /\ doc[op[r].status].body = IF Bodiless(op[r]) THEN "none" ELSE "json"
          /\ \A s \in ProblemStatuses(op[r]) : s \in DOMAIN doc /\ doc[s].body = "problem"
          /\ ChallengeDocumented(op[r]) => 401 \in DOMAIN doc /\ doc[401].challenge
      BY <2>2, <2>3, ListedBodies
    <2> HIDE DEF doc
    <2>5. CASE /\ w.status = op[r].status
               /\ w.body = IF Bodiless(op[r]) THEN "none" ELSE "json"
               /\ w.challenge = FALSE
      BY <2>4, <2>5 DEF doc
    <2>6. CASE /\ w.status \in ProblemStatuses(op[r])
               /\ w.body = "problem" /\ w.challenge = FALSE
      <3>1. w.status # op[r].status
        <4>1. w.status \in 400..599 BY <2>3, <2>6
        <4>2. w.status >= 400 BY <4>1
        <4>3. op[r].status <= 399 BY <2>2
        <4>4. op[r].status \in Int BY <2>2
        <4> QED BY <4>2, <4>3, <4>4
      <3> QED BY <3>1, <2>4, <2>6 DEF doc
    <2>7. CASE w.status = 401 /\ w.body = "none" /\ ChallengeDocumented(op[r])
      <3>1. w.status # op[r].status BY <2>2, <2>7
      <3> QED BY <3>1, <2>4, <2>7 DEF doc
    <2> QED BY <2>1, <2>5, <2>6, <2>7 DEF ResponseDocumented
  <1>2. IInv => ServedIsDocumented BY <1>1 DEF ServedIsDocumented
  <1> QED BY <1>2, Inductive, PTL


-----------------------------------------------------------------------------
(* CursorPages.                                                             *)

(* Ranks.  The i-th row in order exists and is the only one of its rank,    *)
(* because rank maps a finite table one to one into 0 .. size - 1.          *)

LEMMA TableFacts ==
  ASSUME NEW T \in Tables, NEW S \in SUBSET T
  PROVE  /\ S \in Tables /\ T \subseteq Int
         /\ IsFiniteSet(S) /\ Cardinality(S) \in Nat /\ Cardinality(T) \in Nat
         /\ Cardinality(S) <= Cardinality(T)
         /\ Cardinality(S) = Cardinality(T) => S = T
  <1>1. IsFiniteSet(T) /\ T \subseteq Int BY DEF Tables
  <1>2. IsFiniteSet(S) /\ Cardinality(S) <= Cardinality(T)
        /\ (Cardinality(T) = Cardinality(S) => T = S)
    BY <1>1, FS_Subset
  <1>3. Cardinality(S) \in Nat /\ Cardinality(T) \in Nat BY <1>1, <1>2, FS_CardinalityType
  <1> QED BY <1>1, <1>2, <1>3 DEF Tables

LEMMA RankType ==
  ASSUME NEW T \in Tables, NEW x
  PROVE  Rank(T, x) \in Nat /\ Rank(T, x) <= Cardinality(T)
  BY TableFacts DEF Rank

LEMMA RankGrows ==
  ASSUME NEW T \in Tables, NEW x \in T, NEW y \in Int, x < y
  PROVE  Rank(T, x) < Rank(T, y)
  <1> DEFINE X == {z \in T : z < x}
             Y == {z \in T : z < y}
  <1>1. T \subseteq Int BY DEF Tables
  <1>2. X \subseteq Y /\ x \in Y /\ x \notin X
    <2>1. \A z \in T : z < x => z < y BY <1>1
    <2>2. ~(x < x) BY <1>1
    <2> QED BY <2>1, <2>2
  <1>3. Y \in Tables BY TableFacts
  <1>4. /\ Cardinality(X) \in Nat /\ Cardinality(Y) \in Nat
        /\ Cardinality(X) <= Cardinality(Y) /\ (Cardinality(X) = Cardinality(Y) => X = Y)
    BY <1>2, <1>3, TableFacts
  <1>5. X # Y BY <1>2
  <1> HIDE DEF X, Y
  <1>6. Cardinality(X) < Cardinality(Y) BY <1>4, <1>5
  <1> QED BY <1>6 DEF Rank, X, Y

LEMMA RankBelowSize ==
  ASSUME NEW T \in Tables, NEW x \in T
  PROVE  Rank(T, x) \in 0..(Cardinality(T) - 1)
  <1> DEFINE X == {z \in T : z < x}
  <1>1. T \subseteq Int BY DEF Tables
  <1>2. x \notin X BY <1>1
  <1>3. X # T BY <1>2
  <1>4. /\ Cardinality(X) \in Nat /\ Cardinality(T) \in Nat
        /\ Cardinality(X) <= Cardinality(T) /\ (Cardinality(X) = Cardinality(T) => X = T)
    BY TableFacts
  <1> HIDE DEF X
  <1>5. Cardinality(X) \in 0..(Cardinality(T) - 1) BY <1>3, <1>4
  <1> QED BY <1>5 DEF Rank, X

LEMMA RankIsUnique ==
  ASSUME NEW T \in Tables, NEW x \in T, NEW y \in T, Rank(T, x) = Rank(T, y)
  PROVE  x = y
  <1>1. x \in Int /\ y \in Int BY DEF Tables
  <1>2. Rank(T, x) \in Nat BY RankType
  <1>3. ~(x < y) /\ ~(y < x) BY <1>1, <1>2, RankGrows
  <1> QED BY <1>1, <1>3

LEMMA RankIsTaken ==
  ASSUME NEW T \in Tables, NEW n \in 0..(Cardinality(T) - 1)
  PROVE  \E x \in T : Rank(T, x) = n
  <1> DEFINE I == 0..(Cardinality(T) - 1)
             f == [x \in T |-> Rank(T, x)]
  <1>1. Cardinality(T) \in Nat /\ IsFiniteSet(T) BY TableFacts DEF Tables
  <1>2. IsFiniteSet(I) /\ Cardinality(I) = Cardinality(T)
    <2>0. 0 \in Int /\ Cardinality(T) - 1 \in Int BY <1>1
    <2>1. /\ IsFiniteSet(0..(Cardinality(T) - 1))
          /\ Cardinality(0..(Cardinality(T) - 1))
                = IF 0 > Cardinality(T) - 1 THEN 0 ELSE (Cardinality(T) - 1) - 0 + 1
      BY <2>0, FS_Interval
    <2> QED BY <1>1, <2>1
  <1>3. f \in [T -> I] BY RankBelowSize
  <1>4. \A x, y \in T : f[x] = f[y] => x = y BY RankIsUnique
  <1>5. f \in Injection(T, I) BY <1>3, <1>4 DEF Injection, IsInjective
  <1>6. f \in Surjection(T, I) BY <1>1, <1>2, <1>5, FS_Injection
  <1>7. \E x \in T : f[x] = n BY <1>6 DEF Surjection
  <1> QED BY <1>7

LEMMA InOrder ==
  ASSUME NEW T \in Tables
  PROVE  /\ Ascending(T) \in Seq(T) /\ Len(Ascending(T)) = Cardinality(T)
         /\ \A i \in 1..Cardinality(T) :
               Ascending(T)[i] \in T /\ Rank(T, Ascending(T)[i]) = i - 1
  <1> DEFINE n == Cardinality(T)
             A == Ascending(T)
  <1>1. n \in Nat BY TableFacts
  <1>2. ASSUME NEW i \in 1..n
        PROVE  A[i] \in T /\ Rank(T, A[i]) = i - 1
    <2>1. i - 1 \in 0..(n - 1) BY <1>1
    <2>2. \E x \in T : Rank(T, x) = i - 1 BY <2>1, RankIsTaken
    <2>3. A[i] = CHOOSE x \in T : Rank(T, x) = i - 1 BY DEF Ascending
    <2> HIDE DEF A
    <2> QED BY <2>2, <2>3
  <1>3. DOMAIN A = 1..n /\ A = [i \in 1..n |-> A[i]] BY DEF Ascending
  <1> HIDE DEF A, n
  <1>4. A \in [1..n -> T] BY <1>2, <1>3
  <1>5. A \in Seq(T) /\ Len(A) = n BY <1>1, <1>4
  <1> QED BY <1>2, <1>5 DEF A, n

LEMMA PlaceOf ==
  ASSUME NEW T \in Tables, NEW x \in T
  PROVE  /\ Rank(T, x) + 1 \in 1..Cardinality(T)
         /\ Ascending(T)[Rank(T, x) + 1] = x
  <1>1. Rank(T, x) \in 0..(Cardinality(T) - 1) /\ Cardinality(T) \in Nat
    BY RankBelowSize, TableFacts
  <1>2. Rank(T, x) + 1 \in 1..Cardinality(T) BY <1>1
  <1> DEFINE y == Ascending(T)[Rank(T, x) + 1]
  <1>3. y \in T /\ Rank(T, y) = (Rank(T, x) + 1) - 1 BY <1>2, InOrder
  <1>4. Rank(T, y) = Rank(T, x) BY <1>1, <1>3
  <1> QED BY <1>2, <1>3, <1>4, RankIsUnique

LEMMA Increasing ==
  ASSUME NEW T \in Tables, NEW i \in 1..Cardinality(T), NEW j \in 1..Cardinality(T), i < j
  PROVE  Ascending(T)[i] < Ascending(T)[j]
  <1> DEFINE x == Ascending(T)[i]
             y == Ascending(T)[j]
  <1>1. x \in T /\ y \in T /\ Rank(T, x) = i - 1 /\ Rank(T, y) = j - 1 BY InOrder
  <1>2. x \in Int /\ y \in Int BY <1>1 DEF Tables
  <1>3. Cardinality(T) \in Nat BY TableFacts
  <1> HIDE DEF x, y
  <1>4. x # y BY <1>1, <1>3
  <1>5. ~(y < x)
    <2> SUFFICES ASSUME y < x PROVE FALSE OBVIOUS
    <2>1. Rank(T, y) < Rank(T, x) BY <1>1, <1>2, RankGrows
    <2> QED BY <1>1, <1>3, <2>1
  <1>6. x < y BY <1>2, <1>4, <1>5
  <1> QED BY <1>6 DEF x, y

(* The rows on one side of a cursor are a segment of the rows in order.     *)
LEMMA Below ==
  ASSUME NEW T \in Tables, NEW c \in Int
  PROVE  LET C == {x \in T : x < c}
         IN  /\ C \in Tables /\ Cardinality(C) = Rank(T, c)
             /\ \A i \in 1..Cardinality(C) : Ascending(C)[i] = Ascending(T)[i]
  <1> DEFINE C == {x \in T : x < c}
  <1>1. C \in Tables /\ Cardinality(C) \in Nat /\ Cardinality(C) <= Cardinality(T)
        /\ Cardinality(T) \in Nat
    BY TableFacts
  <1>2. T \subseteq Int BY DEF Tables
  <1>3. ASSUME NEW i \in 1..Cardinality(C) PROVE Ascending(C)[i] = Ascending(T)[i]
    <2> DEFINE x == Ascending(C)[i]
    <2>1. x \in C /\ Rank(C, x) = i - 1 BY <1>1, InOrder
    <2>2. x \in T BY <2>1
    <2>3. {y \in C : y < x} = {y \in T : y < x}
      <3>1. x \in Int /\ x < c BY <1>2, <2>1
      <3> HIDE DEF x
      <3>2. \A y \in T : y < x => y < c BY <1>2, <3>1
      <3> QED BY <3>2
    <2> HIDE DEF x
    <2>4. Rank(T, x) = i - 1 BY <2>1, <2>3 DEF Rank
    <2>5. Ascending(T)[(i - 1) + 1] = x BY <2>2, <2>4, PlaceOf
    <2>6. (i - 1) + 1 = i BY <1>1
    <2> QED BY <2>5, <2>6 DEF x
  <1> QED BY <1>1, <1>3 DEF Rank

LEMMA Above ==
  ASSUME NEW T \in Tables, NEW c \in Int
  PROVE  LET C == {x \in T : x > c}
             r == Cardinality({x \in T : x <= c})
         IN  /\ C \in Tables /\ r \in Nat /\ Cardinality(C) + r = Cardinality(T)
             /\ \A i \in 1..Cardinality(C) : Ascending(C)[i] = Ascending(T)[r + i]
  <1> DEFINE C == {x \in T : x > c}
             B == {x \in T : x <= c}
             r == Cardinality(B)
  <1>1. /\ C \in Tables /\ B \in Tables /\ T \subseteq Int
        /\ Cardinality(C) \in Nat /\ r \in Nat /\ Cardinality(T) \in Nat
        /\ IsFiniteSet(B) /\ IsFiniteSet(C)
    BY TableFacts DEF Tables
  <1>2. B \cup C = T /\ B \cap C = {}
    <2>1. \A x \in T : (x <= c \/ x > c) /\ ~(x <= c /\ x > c) BY <1>1
    <2> QED BY <2>1
  <1>3. Cardinality(C) + r = Cardinality(T)
    <2> HIDE DEF B, C
    <2>1. Cardinality(B \cup C) = Cardinality(B) + Cardinality(C) - Cardinality(B \cap C)
      BY <1>1, FS_Union
    <2>2. Cardinality(B \cap C) = 0 BY <1>2, FS_EmptySet
    <2>3. Cardinality(T) = Cardinality(B) + Cardinality(C) - Cardinality(B \cap C)
      BY <1>2, <2>1
    <2> QED BY <1>1, <2>2, <2>3
  <1>4. ASSUME NEW i \in 1..Cardinality(C) PROVE Ascending(C)[i] = Ascending(T)[r + i]
    <2> DEFINE x == Ascending(C)[i]
               L == {y \in C : y < x}
    <2>1. x \in C /\ Rank(C, x) = i - 1 BY <1>1, InOrder
    <2>2. x \in T BY <2>1
    <2>3. B \cup L = {y \in T : y < x} /\ B \cap L = {}
      <3>1. x \in Int /\ x > c BY <1>1, <2>1
      <3> HIDE DEF x
      <3>2. \A y \in T : /\ y < x <=> y <= c \/ (y > c /\ y < x)
                         /\ ~(y <= c /\ y > c)
        BY <1>1, <3>1
      <3> QED BY <3>2
    <2>4. IsFiniteSet(L) /\ Cardinality(L) = i - 1
      BY <1>1, <2>1, TableFacts DEF Rank
    <2> HIDE DEF x, L
    <2>5. Cardinality(B \cup L) = Cardinality(B) + Cardinality(L) - Cardinality(B \cap L)
      BY <1>1, <2>4, FS_Union
    <2>6. Cardinality(B \cap L) = 0 BY <2>3, FS_EmptySet
    <2>7. Rank(T, x) = Cardinality(B \cup L) BY <2>3 DEF Rank
    <2> HIDE DEF B
    <2>8. Rank(T, x) + 1 = r + i BY <1>1, <2>4, <2>5, <2>6, <2>7
    <2>9. Ascending(T)[Rank(T, x) + 1] = x BY <2>2, PlaceOf
    <2> QED BY <2>8, <2>9 DEF x
  <1> QED BY <1>1, <1>3, <1>4
-----------------------------------------------------------------------------
(* Pages are windows.                                                       *)

Fill(n) == IF n < Limit THEN n ELSE Limit

LEMMA FillType ==
  ASSUME NEW n \in Nat
  PROVE  /\ Fill(n) \in Nat /\ Fill(n) <= n /\ Fill(n) <= Limit
         /\ n > 0 => Fill(n) > 0
         /\ Fill(n) = Limit \/ Fill(n) = n
         /\ n > Limit => Fill(n) = Limit
  BY PageAssumption DEF Fill

LEMMA WindowIs ==
  ASSUME NEW T \in Tables, NEW a \in Nat, NEW k \in Nat, a + k <= Cardinality(T)
  PROVE  /\ Window(T, a, k) \in Seq(T) /\ Len(Window(T, a, k)) = k
         /\ \A i \in 1..k : Window(T, a, k)[i] = Ascending(T)[a + i]
  <1> DEFINE A == Ascending(T)
  <1>1. A \in Seq(T) /\ Len(A) = Cardinality(T) /\ Cardinality(T) \in Nat
    BY InOrder, TableFacts
  <1> HIDE DEF A
  <1>2. a + 1 \in 1..(Len(A) + 1) /\ a + k \in (a + 1) - 1..Len(A) BY <1>1
  <1>3. /\ SubSeq(A, a + 1, a + k) \in Seq(T)
        /\ Len(SubSeq(A, a + 1, a + k)) = (a + k) - (a + 1) + 1
        /\ \A i \in 1..((a + k) - (a + 1) + 1) :
               SubSeq(A, a + 1, a + k)[i] = A[(a + 1) + i - 1]
    BY <1>1, <1>2, SubSeqProperties
  <1>4. (a + k) - (a + 1) + 1 = k OBVIOUS
  <1>5. \A i \in 1..k : (a + 1) + i - 1 = a + i OBVIOUS
  <1> QED BY <1>3, <1>4, <1>5 DEF Window, A

LEMMA IsWindow ==
  ASSUME NEW T \in Tables, NEW a \in Nat, NEW k \in Nat, a + k <= Cardinality(T),
         NEW S, NEW s \in Seq(S), Len(s) = k, \A i \in 1..k : s[i] = Ascending(T)[a + i]
  PROVE  s = Window(T, a, k)
  <1> DEFINE w == Window(T, a, k)
  <1>1. w \in Seq(T) /\ Len(w) = k /\ \A i \in 1..k : w[i] = Ascending(T)[a + i]
    BY WindowIs
  <1> HIDE DEF w
  <1>2. s \in Seq(S \cup T) /\ w \in Seq(S \cup T) BY <1>1
  <1>3. \A i \in 1..Len(s) : s[i] = w[i] BY <1>1
  <1>4. s = w BY <1>1, <1>2, <1>3, SeqEqual
  <1> QED BY <1>4 DEF w

LEMMA FirstOfIs ==
  ASSUME NEW S, NEW s \in Seq(S), NEW n \in Nat
  PROVE  /\ FirstOf(s, n) \in Seq(S)
         /\ Len(FirstOf(s, n)) = IF Len(s) < n THEN Len(s) ELSE n
         /\ \A i \in 1..Len(FirstOf(s, n)) : FirstOf(s, n)[i] = s[i]
  <1> DEFINE k == IF Len(s) < n THEN Len(s) ELSE n
  <1>1. k \in Nat /\ k <= Len(s) /\ Len(s) \in Nat OBVIOUS
  <1> HIDE DEF k
  <1>2. 1 \in 1..(Len(s) + 1) /\ k \in 1 - 1..Len(s) BY <1>1
  <1>3. /\ SubSeq(s, 1, k) \in Seq(S) /\ Len(SubSeq(s, 1, k)) = k - 1 + 1
        /\ \A i \in 1..(k - 1 + 1) : SubSeq(s, 1, k)[i] = s[1 + i - 1]
    BY <1>2, SubSeqProperties
  <1>4. k - 1 + 1 = k /\ \A i \in 1..k : 1 + i - 1 = i BY <1>1
  <1>5. FirstOf(s, n) = SubSeq(s, 1, k) BY DEF FirstOf, k
  <1>6. Len(FirstOf(s, n)) = k BY <1>3, <1>4, <1>5
  <1> QED BY <1>3, <1>4, <1>5, <1>6 DEF k

LEMMA ReverseIs ==
  ASSUME NEW S, NEW s \in Seq(S)
  PROVE  /\ Reverse(s) \in Seq(S) /\ Len(Reverse(s)) = Len(s)
         /\ \A i \in 1..Len(s) : Reverse(s)[i] = s[(Len(s) - i) + 1]
  <1>1. Len(s) \in Nat OBVIOUS
  <1>2. \A i \in 1..Len(s) : (Len(s) - i) + 1 \in 1..Len(s) BY <1>1
  <1>3. \A i \in 1..Len(s) : s[(Len(s) - i) + 1] \in S BY <1>2
  <1>4. Reverse(s) = [i \in 1..Len(s) |-> s[(Len(s) - i) + 1]] BY DEF Reverse
  <1>5. Reverse(s) \in [1..Len(s) -> S] BY <1>3, <1>4
  <1>6. Reverse(s) \in Seq(S) /\ Len(Reverse(s)) = Len(s) BY <1>1, <1>5
  <1> QED BY <1>4, <1>6

(* A page read upwards from a segment that starts after the first r rows.   *)
LEMMA ForwardPage ==
  ASSUME NEW T \in Tables, NEW C \in Tables, NEW r \in Nat,
         Cardinality(C) + r = Cardinality(T),
         \A i \in 1..Cardinality(C) : Ascending(C)[i] = Ascending(T)[r + i]
  PROVE  LET rows == FirstOf(Ascending(C), Limit + 1)
         IN  /\ Kept(rows, FALSE) = Window(T, r, Fill(Cardinality(C)))
             /\ Len(rows) > Limit <=> Cardinality(C) > Limit
             /\ rows = << >> <=> Cardinality(C) = 0
  <1> DEFINE A == Ascending(C)
             n == Cardinality(C)
             rows == FirstOf(A, Limit + 1)
             kept == FirstOf(rows, Limit)
             k == Fill(n)
  <1>0. Limit \in Nat /\ Limit > 0 BY PageAssumption
  <1>1. A \in Seq(C) /\ Len(A) = n /\ n \in Nat BY InOrder, TableFacts
  <1>2. k \in Nat /\ k <= n /\ k <= Limit /\ k = IF n < Limit THEN n ELSE Limit
    BY <1>1, FillType DEF Fill
  <1> HIDE DEF A, n, k
  <1>3. /\ rows \in Seq(C) /\ Len(rows) = IF n < Limit + 1 THEN n ELSE Limit + 1
        /\ \A i \in 1..Len(rows) : rows[i] = A[i]
    <2> DEFINE L == Limit + 1
    <2>1. L \in Nat BY <1>0
    <2> HIDE DEF L
    <2>2. /\ FirstOf(A, L) \in Seq(C)
          /\ Len(FirstOf(A, L)) = IF Len(A) < L THEN Len(A) ELSE L
          /\ \A i \in 1..Len(FirstOf(A, L)) : FirstOf(A, L)[i] = A[i]
      BY <1>1, <2>1, FirstOfIs
    <2> QED BY <1>1, <2>2 DEF L
  <1> HIDE DEF rows
  <1>4. /\ kept \in Seq(C) /\ Len(kept) = IF Len(rows) < Limit THEN Len(rows) ELSE Limit
        /\ \A i \in 1..Len(kept) : kept[i] = rows[i]
    BY <1>0, <1>3, FirstOfIs
  <1> HIDE DEF kept
  <1>5. Len(kept) = k /\ k <= Len(rows) BY <1>0, <1>1, <1>2, <1>3, <1>4
  <1>6. \A i \in 1..k : kept[i] = Ascending(T)[r + i]
    <2> SUFFICES ASSUME NEW i \in 1..k PROVE kept[i] = Ascending(T)[r + i] OBVIOUS
    <2>1. i \in 1..Len(kept) /\ i \in 1..Len(rows) /\ i \in 1..n
      BY <1>1, <1>2, <1>3, <1>5
    <2>2. kept[i] = A[i] BY <2>1, <1>3, <1>4
    <2> QED BY <2>1, <2>2 DEF A, n
  <1>7. r + k <= Cardinality(T) BY <1>1, <1>2 DEF n
  <1>8. kept = Window(T, r, k) BY <1>2, <1>4, <1>5, <1>6, <1>7, IsWindow
  <1>9. Kept(rows, FALSE) = kept BY DEF Kept, kept
  <1>10. Len(rows) > Limit <=> n > Limit BY <1>0, <1>1, <1>3
  <1>11. rows = << >> <=> n = 0
    <2>1. rows = << >> <=> Len(rows) = 0 BY <1>3, EmptySeq
    <2> QED BY <2>1, <1>0, <1>1, <1>3
  <1> QED BY <1>8, <1>9, <1>10, <1>11 DEF rows, A, n, k

(* A page read downwards from the first q rows.                             *)
LEMMA BackwardPage ==
  ASSUME NEW T \in Tables, NEW C \in Tables, Cardinality(C) <= Cardinality(T),
         \A i \in 1..Cardinality(C) : Ascending(C)[i] = Ascending(T)[i]
  PROVE  LET rows == FirstOf(Descending(C), Limit + 1)
             k    == Fill(Cardinality(C))
         IN  /\ Kept(rows, TRUE) = Window(T, Cardinality(C) - k, k)
             /\ Len(rows) > Limit <=> Cardinality(C) > Limit
  <1> DEFINE A == Ascending(C)
             n == Cardinality(C)
             D == Descending(C)
             rows == FirstOf(D, Limit + 1)
             trimmed == FirstOf(rows, Limit)
             kept == Reverse(trimmed)
             k == Fill(n)
  <1>0. Limit \in Nat /\ Limit > 0 BY PageAssumption
  <1>1. A \in Seq(C) /\ Len(A) = n /\ n \in Nat BY InOrder, TableFacts
  <1>2. k \in Nat /\ k <= n /\ k <= Limit /\ k = IF n < Limit THEN n ELSE Limit
    BY <1>1, FillType DEF Fill
  <1> HIDE DEF A, n, k
  <1>3. D \in Seq(C) /\ Len(D) = n /\ \A i \in 1..n : D[i] = A[(n - i) + 1]
    BY <1>1, ReverseIs DEF Descending, A
  <1> HIDE DEF D
  <1>4. /\ rows \in Seq(C) /\ Len(rows) = IF n < Limit + 1 THEN n ELSE Limit + 1
        /\ \A i \in 1..Len(rows) : rows[i] = D[i]
    <2> DEFINE L == Limit + 1
    <2>1. L \in Nat BY <1>0
    <2> HIDE DEF L
    <2>2. /\ FirstOf(D, L) \in Seq(C)
          /\ Len(FirstOf(D, L)) = IF Len(D) < L THEN Len(D) ELSE L
          /\ \A i \in 1..Len(FirstOf(D, L)) : FirstOf(D, L)[i] = D[i]
      BY <1>3, <2>1, FirstOfIs
    <2> QED BY <1>3, <2>2 DEF L
  <1> HIDE DEF rows
  <1>5. /\ trimmed \in Seq(C)
        /\ Len(trimmed) = IF Len(rows) < Limit THEN Len(rows) ELSE Limit
        /\ \A i \in 1..Len(trimmed) : trimmed[i] = rows[i]
    BY <1>0, <1>4, FirstOfIs
  <1> HIDE DEF trimmed
  <1>6. Len(trimmed) = k /\ k <= Len(rows) BY <1>0, <1>1, <1>2, <1>4, <1>5
  <1>7. /\ kept \in Seq(C) /\ Len(kept) = k
        /\ \A i \in 1..k : kept[i] = trimmed[(k - i) + 1]
    BY <1>5, <1>6, ReverseIs
  <1> HIDE DEF kept
  <1>8. \A i \in 1..k : kept[i] = Ascending(T)[(n - k) + i]
    <2> SUFFICES ASSUME NEW i \in 1..k PROVE kept[i] = Ascending(T)[(n - k) + i] OBVIOUS
    <2> DEFINE j == (k - i) + 1
    <2>1. j \in 1..Len(trimmed) /\ j \in 1..Len(rows) /\ j \in 1..n
      BY <1>1, <1>2, <1>4, <1>6
    <2>2. kept[i] = trimmed[j] BY <1>7
    <2>3. (n - j) + 1 = (n - k) + i /\ (n - k) + i \in 1..n BY <1>1, <1>2
    <2> HIDE DEF j
    <2>4. kept[i] = A[(n - j) + 1] BY <2>1, <2>2, <1>3, <1>4, <1>5
    <2> QED BY <2>3, <2>4 DEF A, n
  <1>9. n - k \in Nat /\ (n - k) + k <= Cardinality(T)
    <2>1. Cardinality(T) \in Nat BY TableFacts
    <2>2. n <= Cardinality(T) BY DEF n
    <2> QED BY <1>1, <1>2, <2>1, <2>2
  <1>10. kept = Window(T, n - k, k) BY <1>2, <1>7, <1>8, <1>9, IsWindow
  <1>11. Kept(rows, TRUE) = kept BY DEF Kept, kept, trimmed
  <1>12. Len(rows) > Limit <=> n > Limit BY <1>0, <1>1, <1>4
  <1> QED BY <1>10, <1>11, <1>12 DEF rows, D, n, k

(* The three queries.                                                       *)
LEMMA PageAfter ==
  ASSUME NEW T \in Tables, NEW c \in Int
  PROVE  LET rows == Fetch(T, <<c>>, << >>)
             r    == Cardinality({x \in T : x <= c})
             n    == Cardinality(T) - r
         IN  /\ r \in Nat /\ n \in Nat
             /\ Kept(rows, FALSE) = Window(T, r, Fill(n))
             /\ Len(rows) > Limit <=> n > Limit
             /\ rows = << >> <=> n = 0
  <1> DEFINE C == {x \in T : x > c}
             r == Cardinality({x \in T : x <= c})
             A == Ascending(C)
             n == Cardinality(T) - r
  <1>1. /\ C \in Tables /\ r \in Nat /\ Cardinality(C) + r = Cardinality(T)
        /\ \A i \in 1..Cardinality(C) : Ascending(C)[i] = Ascending(T)[r + i]
    BY Above
  <1>2. Fetch(T, <<c>>, << >>) = FirstOf(Ascending(C), Limit + 1)
    <2>1. {x \in T : <<c>> = << >> \/ x > <<c>>[1]} = C OBVIOUS
    <2> QED BY <2>1 DEF Fetch
  <1>3. Cardinality(C) \in Nat /\ Cardinality(T) \in Nat BY <1>1, TableFacts
  <1> HIDE DEF C, r
  <1>4. n = Cardinality(C) BY <1>1, <1>3
  <1> HIDE DEF n
  <1>5. LET rows == FirstOf(Ascending(C), Limit + 1)
        IN  /\ Kept(rows, FALSE) = Window(T, r, Fill(Cardinality(C)))
            /\ Len(rows) > Limit <=> Cardinality(C) > Limit
            /\ rows = << >> <=> Cardinality(C) = 0
    BY <1>1, ForwardPage
  <1> QED BY <1>1, <1>2, <1>3, <1>4, <1>5 DEF n, r

LEMMA PageFirst ==
  ASSUME NEW T \in Tables
  PROVE  LET rows == Fetch(T, << >>, << >>)
             n    == Cardinality(T)
         IN  /\ n \in Nat
             /\ Kept(rows, FALSE) = Window(T, 0, Fill(n))
             /\ Len(rows) > Limit <=> n > Limit
             /\ rows = << >> <=> n = 0
  <1>1. Cardinality(T) \in Nat /\ Cardinality(T) + 0 = Cardinality(T) BY TableFacts
  <1>2. \A i \in 1..Cardinality(T) : Ascending(T)[i] = Ascending(T)[0 + i] BY <1>1
  <1>3. Fetch(T, << >>, << >>) = FirstOf(Ascending(T), Limit + 1)
    <2>1. {x \in T : << >> = << >> \/ x > << >>[1]} = T OBVIOUS
    <2> QED BY <2>1 DEF Fetch
  <1> QED BY <1>1, <1>2, <1>3, ForwardPage

LEMMA PageBefore ==
  ASSUME NEW T \in Tables, NEW c \in Int
  PROVE  LET rows == Fetch(T, << >>, <<c>>)
             q    == Rank(T, c)
         IN  /\ q \in Nat /\ q <= Cardinality(T)
             /\ Kept(rows, TRUE) = Window(T, q - Fill(q), Fill(q))
             /\ Len(rows) > Limit <=> q > Limit
  <1> DEFINE C == {x \in T : x < c}
  <1>1. /\ C \in Tables /\ Cardinality(C) = Rank(T, c)
        /\ \A i \in 1..Cardinality(C) : Ascending(C)[i] = Ascending(T)[i]
    BY Below
  <1>2. Rank(T, c) \in Nat /\ Rank(T, c) <= Cardinality(T) BY RankType
  <1>3. Fetch(T, << >>, <<c>>) = FirstOf(Descending(C), Limit + 1)
    BY DEF Fetch
  <1> HIDE DEF C
  <1>4. LET rows == FirstOf(Descending(C), Limit + 1)
            k    == Fill(Cardinality(C))
        IN  /\ Kept(rows, TRUE) = Window(T, Cardinality(C) - k, k)
            /\ Len(rows) > Limit <=> Cardinality(C) > Limit
    BY <1>1, <1>2, BackwardPage
  <1> QED BY <1>1, <1>2, <1>3, <1>4
-----------------------------------------------------------------------------
(* What the client does with a page.                                        *)

LEMMA WindowEnds ==
  ASSUME NEW T \in Tables, NEW a \in Nat, NEW k \in Nat, a + k <= Cardinality(T)
  PROVE  LET w == Window(T, a, k)
         IN  /\ w = << >> <=> k = 0
             /\ w \in Seq(Int)
             /\ k > 0 => /\ w[1] = Ascending(T)[a + 1] /\ w[k] = Ascending(T)[a + k]
                         /\ Head(w) = w[1] /\ Last(w) = w[k]
                         /\ w[1] \in Int /\ w[k] \in Int
  <1> DEFINE w == Window(T, a, k)
  <1>1. w \in Seq(T) /\ Len(w) = k /\ \A i \in 1..k : w[i] = Ascending(T)[a + i] BY WindowIs
  <1>2. T \subseteq Int BY DEF Tables
  <1> HIDE DEF w
  <1>3. w \in Seq(Int)
    <2>1. ASSUME NEW i \in 1..Len(w) PROVE w[i] \in Int
      <3>1. w[i] \in T BY <1>1, ElementOfSeq
      <3> QED BY <1>2, <3>1
    <2>2. w \in [1..k -> Int] BY <1>1, <2>1
    <2> QED BY <2>2
  <1>4. w = << >> <=> k = 0 BY <1>1, EmptySeq
  <1>5. ASSUME k > 0
        PROVE  /\ w[1] = Ascending(T)[a + 1] /\ w[k] = Ascending(T)[a + k]
               /\ Head(w) = w[1] /\ Last(w) = w[k] /\ w[1] \in Int /\ w[k] \in Int
    <2>1. 1 \in 1..k /\ k \in 1..k BY <1>5
    <2>2. w[1] \in Int /\ w[k] \in Int BY <1>1, <1>3, <2>1
    <2>3. Head(w) = w[1] /\ Last(w) = w[k] BY <1>1, <1>3 DEF Last
    <2> QED BY <1>1, <2>1, <2>2, <2>3
  <1> QED BY <1>3, <1>4, <1>5 DEF w

LEMMA Finished ==
  ASSUME NEW T \in Tables, NEW a \in Nat, NEW k \in Nat, a + k <= Cardinality(T),
         NEW rows, NEW hasAfter \in BOOLEAN, NEW hasBefore \in BOOLEAN,
         Kept(rows, hasBefore) = Window(T, a, k)
  PROVE  LET p == FinishCursorPage(rows, hasAfter, hasBefore)
         IN  /\ p.rows = Window(T, a, k)
             /\ k > 0 => p.cursors = <<p.rows[1], p.rows[k]>>
             /\ p.hasNext <=> (IF hasBefore THEN k # 0 ELSE Len(rows) > Limit)
             /\ p.hasPrev <=> (IF hasBefore THEN Len(rows) > Limit ELSE hasAfter /\ k # 0)
  <1> DEFINE w == Window(T, a, k)
             p == FinishCursorPage(rows, hasAfter, hasBefore)
  <1>1. (w = << >> <=> k = 0) /\ (k > 0 => Head(w) = w[1] /\ Last(w) = w[k]) BY WindowEnds
  <1> HIDE DEF w
  <1>2. /\ p.rows = Kept(rows, hasBefore)
        /\ p.cursors = (IF Kept(rows, hasBefore) = << >> THEN << >>
                        ELSE <<Head(Kept(rows, hasBefore)), Last(Kept(rows, hasBefore))>>)
        /\ p.hasNext <=> (IF hasBefore THEN Kept(rows, hasBefore) # << >> ELSE Len(rows) > Limit)
        /\ p.hasPrev <=> (IF hasBefore THEN Len(rows) > Limit
                        ELSE hasAfter /\ Kept(rows, hasBefore) # << >>)
    BY DEF FinishCursorPage
  <1>3. Kept(rows, hasBefore) = w BY DEF w
  <1> HIDE DEF p
  <1>4. p.rows = w /\ (k > 0 => p.cursors = <<p.rows[1], p.rows[k]>>) BY <1>1, <1>2, <1>3
  <1>5. p.hasNext <=> (IF hasBefore THEN k # 0 ELSE Len(rows) > Limit) BY <1>1, <1>2, <1>3
  <1>6. p.hasPrev <=> (IF hasBefore THEN Len(rows) > Limit ELSE hasAfter /\ k # 0)
    BY <1>1, <1>2, <1>3
  <1> QED BY <1>4, <1>5, <1>6 DEF w, p

LEMMA WindowShows ==
  ASSUME NEW T \in Tables, NEW a \in Nat, NEW k \in Nat, a + k <= Cardinality(T),
         k <= Limit, NEW p, p.rows = Window(T, a, k),
         k > 0 => p.cursors = <<p.rows[1], p.rows[k]>>,
         k = 0 => ~p.hasNext /\ ~p.hasPrev,
         p.hasNext => k = Limit \/ a = 0,
         p.hasPrev => k = Limit \/ a + k = Cardinality(T)
  PROVE  Shows(p, T)
  <1>1. Limit \in Nat /\ Cardinality(T) \in Nat BY PageAssumption, TableFacts
  <1>2. p.rows = << >> <=> k = 0 BY WindowEnds
  <1>3. CASE k = 0 BY <1>2, <1>3 DEF Shows
  <1>4. CASE k # 0
    <2>1. a \in 0..Cardinality(T) /\ k \in 1..Limit BY <1>1, <1>4
    <2>2. p.cursors = <<p.rows[1], p.rows[k]>> BY <1>1, <2>1
    <2>3. p.rows # << >> BY <1>2, <1>4
    <2> QED BY <2>1, <2>2, <2>3 DEF Shows
  <1> QED BY <1>3, <1>4

(* What a page read forward or backward is, and what its meta says.         *)
LEMMA TurnedForward ==
  ASSUME NEW T \in Tables, NEW c \in Int
  PROVE  LET p == FinishCursorPage(Fetch(T, <<c>>, << >>), TRUE, FALSE)
             r == Cardinality({x \in T : x <= c})
             n == Cardinality(T) - r
             k == Fill(n)
         IN  /\ r \in Nat /\ n \in Nat /\ r + n = Cardinality(T)
             /\ p.rows = Window(T, r, k)
             /\ p.rows = Kept(Fetch(T, <<c>>, << >>), FALSE)
             /\ k > 0 => p.cursors = <<p.rows[1], p.rows[k]>>
             /\ p.hasNext <=> (n > Limit)
             /\ p.hasPrev <=> (k # 0)
             /\ Shows(p, T)
  <1> DEFINE rows == Fetch(T, <<c>>, << >>)
             r == Cardinality({x \in T : x <= c})
             n == Cardinality(T) - r
             k == Fill(n)
             p == FinishCursorPage(rows, TRUE, FALSE)
  <1>1. /\ r \in Nat /\ n \in Nat /\ Kept(rows, FALSE) = Window(T, r, k)
        /\ Len(rows) > Limit <=> n > Limit
    BY PageAfter
  <1>2. Cardinality(T) \in Nat BY TableFacts
  <1> HIDE DEF rows, r
  <1>3. r + n = Cardinality(T) BY <1>1, <1>2
  <1> HIDE DEF n
  <1>4. k \in Nat /\ k <= n BY <1>1, FillType
  <1> HIDE DEF k
  <1>5. r + k <= Cardinality(T) BY <1>1, <1>3, <1>4
  <1>6. TRUE \in BOOLEAN /\ FALSE \in BOOLEAN OBVIOUS
  <1>7. LET pp == FinishCursorPage(rows, TRUE, FALSE)
        IN  /\ pp.rows = Window(T, r, k)
            /\ k > 0 => pp.cursors = <<pp.rows[1], pp.rows[k]>>
            /\ pp.hasNext <=> (IF FALSE THEN k # 0 ELSE Len(rows) > Limit)
            /\ pp.hasPrev <=> (IF FALSE THEN Len(rows) > Limit ELSE TRUE /\ k # 0)
    BY <1>1, <1>4, <1>5, <1>6, Finished
  <1>8. /\ p.rows = Window(T, r, k) /\ (k > 0 => p.cursors = <<p.rows[1], p.rows[k]>>)
        /\ p.hasNext <=> (Len(rows) > Limit)
        /\ p.hasPrev <=> (k # 0)
    BY <1>7
  <1>9. p.hasNext <=> (n > Limit) BY <1>1, <1>8
  <1>10. p.rows = Kept(rows, FALSE) BY <1>1, <1>8
  <1> HIDE DEF p
  <1>11. Shows(p, T)
    <2>1. /\ k <= Limit /\ (k = 0 => ~(n > Limit)) /\ (n > Limit => k = Limit)
          /\ k = Limit \/ r + k = Cardinality(T)
      BY <1>1, <1>3, FillType, PageAssumption DEF k
    <2> QED BY <1>1, <1>4, <1>5, <1>8, <1>9, <2>1, WindowShows
  <1> QED BY <1>1, <1>3, <1>8, <1>9, <1>10, <1>11 DEF rows, r, n, k, p

LEMMA TurnedFirst ==
  ASSUME NEW T \in Tables
  PROVE  LET p == FinishCursorPage(Fetch(T, << >>, << >>), FALSE, FALSE)
             n == Cardinality(T)
             k == Fill(n)
         IN  /\ p.rows = Window(T, 0, k)
             /\ k > 0 => p.cursors = <<p.rows[1], p.rows[k]>>
             /\ p.hasNext <=> (n > Limit)
             /\ ~p.hasPrev
             /\ Shows(p, T)
  <1> DEFINE rows == Fetch(T, << >>, << >>)
             n == Cardinality(T)
             k == Fill(n)
             p == FinishCursorPage(rows, FALSE, FALSE)
  <1>1. /\ n \in Nat /\ Kept(rows, FALSE) = Window(T, 0, k)
        /\ Len(rows) > Limit <=> n > Limit
    BY PageFirst
  <1> HIDE DEF rows
  <1>2. k \in Nat /\ k <= n BY <1>1, FillType
  <1> HIDE DEF k
  <1>3. 0 + k <= Cardinality(T) BY <1>1, <1>2
  <1>4. TRUE \in BOOLEAN /\ FALSE \in BOOLEAN OBVIOUS
  <1>5. LET pp == FinishCursorPage(rows, FALSE, FALSE)
        IN  /\ pp.rows = Window(T, 0, k)
            /\ k > 0 => pp.cursors = <<pp.rows[1], pp.rows[k]>>
            /\ pp.hasNext <=> (IF FALSE THEN k # 0 ELSE Len(rows) > Limit)
            /\ pp.hasPrev <=> (IF FALSE THEN Len(rows) > Limit ELSE FALSE /\ k # 0)
    BY <1>1, <1>2, <1>3, <1>4, Finished
  <1>6. /\ p.rows = Window(T, 0, k) /\ (k > 0 => p.cursors = <<p.rows[1], p.rows[k]>>)
        /\ p.hasNext <=> (Len(rows) > Limit)
        /\ ~p.hasPrev
    BY <1>5
  <1>7. p.hasNext <=> (n > Limit) BY <1>1, <1>6
  <1> HIDE DEF p
  <1>8. Shows(p, T)
    <2>1. k <= Limit /\ (k = 0 => ~(n > Limit)) /\ (n > Limit => k = Limit) /\ 0 \in Nat
      BY <1>1, FillType, PageAssumption DEF k
    <2> QED BY <1>1, <1>2, <1>3, <1>6, <1>7, <2>1, WindowShows
  <1> QED BY <1>1, <1>6, <1>7, <1>8 DEF rows, n, k, p

LEMMA TurnedBack ==
  ASSUME NEW T \in Tables, NEW c \in Int
  PROVE  LET p == FinishCursorPage(Fetch(T, << >>, <<c>>), FALSE, TRUE)
             q == Rank(T, c)
             k == Fill(q)
         IN  /\ q \in Nat /\ q <= Cardinality(T)
             /\ p.rows = Window(T, q - k, k)
             /\ p.rows = Kept(Fetch(T, << >>, <<c>>), TRUE)
             /\ k > 0 => p.cursors = <<p.rows[1], p.rows[k]>>
             /\ p.hasNext <=> (k # 0)
             /\ p.hasPrev <=> (q > Limit)
             /\ Shows(p, T)
  <1> DEFINE rows == Fetch(T, << >>, <<c>>)
             q == Rank(T, c)
             k == Fill(q)
             p == FinishCursorPage(rows, FALSE, TRUE)
  <1>1. /\ q \in Nat /\ q <= Cardinality(T) /\ Kept(rows, TRUE) = Window(T, q - k, k)
        /\ Len(rows) > Limit <=> q > Limit
    BY PageBefore
  <1>2. Cardinality(T) \in Nat BY TableFacts
  <1> HIDE DEF rows, q
  <1>3. k \in Nat /\ k <= q BY <1>1, FillType
  <1> HIDE DEF k
  <1>4. q - k \in Nat /\ (q - k) + k <= Cardinality(T) BY <1>1, <1>2, <1>3
  <1> DEFINE a == q - k
  <1>5. a \in Nat /\ a + k <= Cardinality(T) /\ Kept(rows, TRUE) = Window(T, a, k) BY <1>1, <1>4
  <1> HIDE DEF a
  <1>6. TRUE \in BOOLEAN /\ FALSE \in BOOLEAN OBVIOUS
  <1>7. LET pp == FinishCursorPage(rows, FALSE, TRUE)
        IN  /\ pp.rows = Window(T, a, k)
            /\ k > 0 => pp.cursors = <<pp.rows[1], pp.rows[k]>>
            /\ pp.hasNext <=> (IF TRUE THEN k # 0 ELSE Len(rows) > Limit)
            /\ pp.hasPrev <=> (IF TRUE THEN Len(rows) > Limit ELSE FALSE /\ k # 0)
    BY <1>3, <1>5, <1>6, Finished
  <1>8. /\ p.rows = Window(T, q - k, k) /\ (k > 0 => p.cursors = <<p.rows[1], p.rows[k]>>)
        /\ p.hasNext <=> (k # 0)
        /\ p.hasPrev <=> (Len(rows) > Limit)
    BY <1>7 DEF a
  <1>9. p.hasPrev <=> (q > Limit) BY <1>1, <1>8
  <1>10. p.rows = Kept(rows, TRUE) BY <1>1, <1>8
  <1> HIDE DEF p
  <1>11. Shows(p, T)
    <2>1. k <= Limit /\ (k = 0 => ~(q > Limit)) /\ (q > Limit => k = Limit)
          /\ (k = Limit \/ k = q)
      BY <1>1, FillType, PageAssumption DEF k
    <2>2. k = Limit \/ a = 0 BY <1>1, <2>1 DEF a
    <2>3. p.rows = Window(T, a, k) BY <1>8 DEF a
    <2> QED BY <1>3, <1>5, <1>8, <1>9, <2>1, <2>2, <2>3, WindowShows
  <1> QED BY <1>1, <1>8, <1>9, <1>10, <1>11 DEF rows, q, k, p

(* The row with i - 1 rows before it is the last of the i rows up to it.    *)
LEMMA UpTo ==
  ASSUME NEW T \in Tables, NEW i \in 1..Cardinality(T)
  PROVE  LET c == Ascending(T)[i]
         IN  /\ c \in Int /\ Rank(T, c) = i - 1
             /\ Cardinality({x \in T : x <= c}) = i
  <1> DEFINE c == Ascending(T)[i]
             B == {x \in T : x < c}
  <1>1. c \in T /\ Rank(T, c) = i - 1 BY InOrder
  <1>2. T \subseteq Int /\ Cardinality(T) \in Nat BY TableFacts DEF Tables
  <1>3. IsFiniteSet(B) /\ Cardinality(B) = i - 1 BY <1>1, TableFacts DEF Rank
  <1> HIDE DEF c
  <1>4. {x \in T : x <= c} = B \cup {c} /\ c \notin B
    <2>1. \A x \in T : x <= c <=> x < c \/ x = c BY <1>1, <1>2
    <2>2. ~(c < c) BY <1>1, <1>2
    <2> QED BY <1>1, <2>1, <2>2
  <1> HIDE DEF B
  <1>5. Cardinality(B \cup {c}) = Cardinality(B) + 1 BY <1>3, <1>4, FS_AddElement
  <1>6. Cardinality({x \in T : x <= c}) = i BY <1>2, <1>3, <1>4, <1>5
  <1> QED BY <1>1, <1>2, <1>6 DEF c

(* From the page after a window, previous leads to the window.              *)
LEMMA BackFromNext ==
  ASSUME NEW T \in Tables, NEW a \in Nat, NEW k \in 1..Limit, k = Limit \/ a = 0,
         a + k + 1 <= Cardinality(T)
  PROVE  Kept(Fetch(T, << >>, <<Ascending(T)[a + k + 1]>>), TRUE) = Window(T, a, k)
  <1> DEFINE i == a + k + 1
             c == Ascending(T)[i]
             q == Rank(T, c)
  <1>0. Limit \in Nat /\ Cardinality(T) \in Nat BY PageAssumption, TableFacts
  <1>1. i \in 1..Cardinality(T) BY <1>0
  <1>2. c \in Int /\ q = i - 1 BY <1>1, UpTo
  <1> HIDE DEF c
  <1>3. Kept(Fetch(T, << >>, <<c>>), TRUE) = Window(T, q - Fill(q), Fill(q)) BY <1>2, PageBefore
  <1> HIDE DEF q
  <1>4. q = a + k BY <1>0, <1>2
  <1>5. Fill(q) = k BY <1>0, <1>4 DEF Fill
  <1>6. q - Fill(q) = a BY <1>0, <1>4, <1>5
  <1> QED BY <1>3, <1>5, <1>6 DEF c

(* From the page before a window, next leads to the window.                 *)
LEMMA NextFromBack ==
  ASSUME NEW T \in Tables, NEW a \in Nat, a > 0, NEW k \in 1..Limit,
         a + k <= Cardinality(T), k = Limit \/ a + k = Cardinality(T)
  PROVE  Kept(Fetch(T, <<Ascending(T)[a]>>, << >>), FALSE) = Window(T, a, k)
  <1> DEFINE c == Ascending(T)[a]
             r == Cardinality({x \in T : x <= c})
  <1>0. Limit \in Nat /\ Cardinality(T) \in Nat BY PageAssumption, TableFacts
  <1>1. a \in 1..Cardinality(T) BY <1>0
  <1>2. c \in Int /\ r = a BY <1>1, UpTo
  <1> HIDE DEF c
  <1>3. Kept(Fetch(T, <<c>>, << >>), FALSE) = Window(T, r, Fill(Cardinality(T) - r))
    BY <1>2, PageAfter
  <1> HIDE DEF r
  <1>4. Fill(Cardinality(T) - r) = k BY <1>0, <1>2 DEF Fill
  <1> QED BY <1>2, <1>3, <1>4 DEF c

(* Which rows a window holds.                                               *)
LEMMA WindowHolds ==
  ASSUME NEW T \in Tables, NEW a \in Nat, NEW k \in Nat, a + k <= Cardinality(T)
  PROVE  LET w == Window(T, a, k)
         IN  /\ \A i \in 1..k : i > 1 => w[i - 1] < w[i]
             /\ \A x \in T : a <= Rank(T, x) /\ ((k > 0 /\ x <= w[k]) \/ a + k = Cardinality(T))
                                => \E i \in 1..k : w[i] = x
  <1> DEFINE w == Window(T, a, k)
             A == Ascending(T)
             n == Cardinality(T)
  <1>0. n \in Nat /\ T \subseteq Int BY TableFacts DEF Tables
  <1>1. Len(w) = k /\ \A i \in 1..k : w[i] = A[a + i] BY WindowIs
  <1> HIDE DEF w, n
  <1>2. ASSUME NEW i \in 1..k, i > 1 PROVE w[i - 1] < w[i]
    <2>1. i - 1 \in 1..k /\ a + (i - 1) \in 1..n /\ a + i \in 1..n /\ a + (i - 1) < a + i
      BY <1>0, <1>2 DEF n
    <2>2. A[a + (i - 1)] < A[a + i] BY <2>1, Increasing DEF n
    <2> QED BY <1>1, <2>1, <2>2
  <1>3. ASSUME NEW x \in T, a <= Rank(T, x), (k > 0 /\ x <= w[k]) \/ a + k = n
        PROVE  \E i \in 1..k : w[i] = x
    <2> DEFINE j == Rank(T, x) + 1
    <2>1. j \in 1..n /\ A[j] = x BY PlaceOf DEF n
    <2>2. Rank(T, x) \in Nat BY RankType
    <2> HIDE DEF j
    <2>3. j <= a + k
      <3>1. CASE a + k = n BY <1>0, <2>1, <3>1
      <3>2. CASE k > 0 /\ x <= w[k]
        <4>1. k \in 1..k /\ a + k \in 1..n BY <1>0, <3>2 DEF n
        <4>2. w[k] = A[a + k] /\ w[k] \in Int
          <5>1. w[k] = A[a + k] BY <1>1, <4>1
          <5>2. A[a + k] \in T BY <4>1, InOrder DEF n
          <5> QED BY <1>0, <5>1, <5>2
        <4>3. ~(a + k < j)
          <5> SUFFICES ASSUME a + k < j PROVE FALSE OBVIOUS
          <5>1. A[a + k] < A[j] BY <2>1, <4>1, Increasing DEF n
          <5>2. w[k] < x BY <2>1, <4>2, <5>1
          <5> QED BY <1>0, <3>2, <4>2, <5>2
        <4> QED BY <1>0, <2>1, <4>3
      <3> QED BY <1>3, <3>1, <3>2
    <2>4. j - a \in 1..k /\ a + (j - a) = j BY <1>0, <1>3, <2>1, <2>2, <2>3 DEF j
    <2>5. w[j - a] = x BY <1>1, <2>1, <2>4
    <2> QED BY <2>4, <2>5
  <1> QED BY <1>2, <1>3 DEF w, n

(* The rows a page after c shows lie past c, and past c it misses none.     *)
LEMMA PastCursor ==
  ASSUME NEW T \in Tables, NEW c \in Int
  PROVE  LET r == Cardinality({x \in T : x <= c})
         IN  /\ \A i \in 1..(Cardinality(T) - r) : Ascending(T)[r + i] > c
             /\ \A x \in T : x > c => r <= Rank(T, x)
  <1> DEFINE C == {x \in T : x > c}
             B == {x \in T : x <= c}
             r == Cardinality(B)
  <1>1. /\ C \in Tables /\ r \in Nat /\ Cardinality(C) + r = Cardinality(T)
        /\ \A i \in 1..Cardinality(C) : Ascending(C)[i] = Ascending(T)[r + i]
    BY Above
  <1>2. Cardinality(C) \in Nat /\ T \subseteq Int /\ Cardinality(T) \in Nat
    BY <1>1, TableFacts DEF Tables
  <1>3. \A i \in 1..Cardinality(C) : Ascending(C)[i] \in C BY <1>1, InOrder
  <1>4. ASSUME NEW i \in 1..(Cardinality(T) - r) PROVE Ascending(T)[r + i] > c
    <2> HIDE DEF r
    <2>1. i \in 1..Cardinality(C) BY <1>1, <1>2
    <2>2. Ascending(T)[r + i] \in C BY <1>1, <1>3, <2>1
    <2> QED BY <2>2
  <1>5. ASSUME NEW x \in T, x > c PROVE r <= Rank(T, x)
    <2> DEFINE L == {y \in T : y < x}
    <2>1. B \subseteq L
      <3>1. \A y \in T : y <= c => y < x BY <1>2, <1>5
      <3> QED BY <3>1
    <2>2. L \in Tables BY TableFacts
    <2>3. Cardinality(B) <= Cardinality(L) BY <2>1, <2>2, TableFacts
    <2> QED BY <2>3 DEF Rank
  <1> QED BY <1>4, <1>5

LEMMA WalkGrows ==
  ASSUME NEW T \in Tables, NEW c \in Int, NEW s \in Seq(Int), s # << >>, Last(s) = c,
         \A i \in DOMAIN s : i > 1 => s[i - 1] < s[i],
         NEW kept \in SUBSET T, {x \in kept : x <= c} \subseteq Range(s)
  PROVE  LET r == Cardinality({x \in T : x <= c})
             n == Cardinality(T) - r
             w == Window(T, r, Fill(n))
             t == s \o w
         IN  /\ t \in Seq(Int) /\ t # << >>
             /\ w # << >> => Last(t) = Last(w)
             /\ \A i \in DOMAIN t : i > 1 => t[i - 1] < t[i]
             /\ {x \in kept : x <= Last(t)} \subseteq Range(t)
             /\ n <= Limit => kept \subseteq Range(t)
  <1> DEFINE r == Cardinality({x \in T : x <= c})
             n == Cardinality(T) - r
             k == Fill(n)
             w == Window(T, r, k)
             t == s \o w
             l == Len(s)
  <1>0. T \subseteq Int /\ Cardinality(T) \in Nat /\ Limit \in Nat
    BY TableFacts, PageAssumption DEF Tables
  <1>1. r \in Nat /\ n \in Nat /\ r + n = Cardinality(T) BY TurnedForward
  <1>2. k \in Nat /\ k <= n /\ (n <= Limit => k = n) BY <1>0, <1>1 DEF Fill
  <1>3. \A i \in 1..n : Ascending(T)[r + i] > c BY PastCursor
  <1>4. \A x \in T : x > c => r <= Rank(T, x) BY PastCursor
  <1> HIDE DEF r, n, k
  <1>5. r + k <= Cardinality(T) BY <1>0, <1>1, <1>2
  <1>6. /\ w \in Seq(Int) /\ (w = << >> <=> k = 0)
        /\ k > 0 => Last(w) = w[k] /\ w[k] \in Int
    BY <1>1, <1>2, <1>5, WindowEnds
  <1>7. Len(w) = k /\ \A i \in 1..k : w[i] = Ascending(T)[r + i]
    BY <1>1, <1>2, <1>5, WindowIs
  <1>8. \A i \in 1..k : i > 1 => w[i - 1] < w[i] BY <1>1, <1>2, <1>5, WindowHolds
  <1>9. \A x \in T : r <= Rank(T, x) /\ ((k > 0 /\ x <= w[k]) \/ r + k = Cardinality(T))
                        => \E i \in 1..k : w[i] = x
    BY <1>1, <1>2, <1>5, WindowHolds
  <1> HIDE DEF w
  <1>10. \A i \in 1..k : w[i] > c
    <2> SUFFICES ASSUME NEW i \in 1..k PROVE w[i] > c OBVIOUS
    <2>1. i \in 1..n BY <1>1, <1>2
    <2>2. w[i] = Ascending(T)[r + i] BY <1>7
    <2> QED BY <1>3, <2>1, <2>2
  <1>11. l \in Nat /\ l > 0 /\ s[l] = c /\ DOMAIN s = 1..l
    <2>1. l \in Nat /\ DOMAIN s = 1..l OBVIOUS
    <2>2. l # 0 BY EmptySeq
    <2> QED BY <2>1, <2>2 DEF Last
  <1>12. /\ t \in Seq(Int) /\ Len(t) = l + k /\ DOMAIN t = 1..(l + k)
         /\ \A i \in 1..l : t[i] = s[i]
         /\ \A i \in 1..k : t[l + i] = w[i]
    <2>1. /\ t \in Seq(Int) /\ Len(t) = l + k
          /\ \A i \in 1..(l + k) : t[i] = IF i <= l THEN s[i] ELSE w[i - l]
      BY <1>6, <1>7, ConcatProperties
    <2> HIDE DEF t, l
    <2>2. DOMAIN t = 1..(l + k) BY <2>1
    <2>3. \A i \in 1..l : t[i] = s[i] BY <1>2, <1>11, <2>1
    <2>4. ASSUME NEW i \in 1..k PROVE t[l + i] = w[i]
      <3>1. l + i \in 1..(l + k) /\ ~(l + i <= l) /\ (l + i) - l = i BY <1>2, <1>11
      <3> QED BY <2>1, <3>1
    <2> QED BY <2>1, <2>2, <2>3, <2>4
  <1> HIDE DEF t, l
  <1>13. t # << >> BY <1>2, <1>11, <1>12, EmptySeq
  <1>14. Last(t) = IF k > 0 THEN w[k] ELSE c
    <2>1. Last(t) = t[l + k] BY <1>12 DEF Last
    <2>2. CASE k > 0
      <3>1. k \in 1..k BY <1>2, <2>2
      <3> QED BY <1>12, <2>1, <2>2, <3>1
    <2>3. CASE ~(k > 0)
      <3>1. l + k = l /\ l \in 1..l BY <1>2, <1>11, <2>3
      <3> QED BY <1>11, <1>12, <2>1, <2>3, <3>1
    <2> QED BY <2>2, <2>3
  <1>15. w # << >> => Last(t) = Last(w) BY <1>2, <1>6, <1>14
  <1>16. ASSUME NEW i \in DOMAIN t, i > 1 PROVE t[i - 1] < t[i]
    <2>1. i \in 1..(l + k) BY <1>12
    <2>2. CASE i <= l
      <3>1. i \in 1..l /\ i - 1 \in 1..l BY <1>2, <1>11, <1>16, <2>1, <2>2
      <3> QED BY <1>11, <1>12, <1>16, <3>1
    <2>3. CASE i = l + 1
      <3>1. 1 \in 1..k /\ i - 1 \in 1..l /\ i - 1 = l /\ i = l + 1 BY <1>2, <1>11, <2>1, <2>3
      <3>2. t[i] = w[1] /\ t[i - 1] = c BY <1>11, <1>12, <3>1
      <3>3. w[1] > c /\ w[1] \in Int BY <1>6, <1>7, <1>10, <3>1
      <3> QED BY <3>2, <3>3
    <2>4. CASE i > l + 1
      <3> DEFINE j == i - l
      <3>1. j \in 1..k /\ j - 1 \in 1..k /\ j > 1 /\ i = l + j /\ i - 1 = l + (j - 1)
        BY <1>2, <1>11, <2>1, <2>4
      <3> HIDE DEF j
      <3>2. t[i] = w[j] /\ t[i - 1] = w[j - 1] BY <1>12, <3>1
      <3> QED BY <1>8, <3>1, <3>2
    <2> QED BY <1>2, <1>11, <2>1, <2>2, <2>3, <2>4
  <1>17. \A x \in Range(s) : x \in Range(t)
    <2> SUFFICES ASSUME NEW x \in Range(s) PROVE x \in Range(t) OBVIOUS
    <2>1. PICK i \in 1..l : s[i] = x BY <1>11 DEF Range
    <2>2. i \in 1..(l + k) /\ t[i] = x BY <1>2, <1>11, <1>12, <2>1
    <2> QED BY <1>12, <2>2 DEF Range
  <1>18. \A i \in 1..k : w[i] \in Range(t)
    <2> SUFFICES ASSUME NEW i \in 1..k PROVE w[i] \in Range(t) OBVIOUS
    <2>1. l + i \in 1..(l + k) /\ t[l + i] = w[i] BY <1>2, <1>11, <1>12
    <2> QED BY <1>12, <2>1 DEF Range
  <1>19. ASSUME NEW x \in kept, x <= Last(t) \/ k = n PROVE x \in Range(t)
    <2>0. x \in T /\ x \in Int BY <1>0
    <2>1. CASE x <= c BY <1>17, <2>1
    <2>2. CASE x > c
      <3>1. r <= Rank(T, x) BY <1>4, <2>0, <2>2
      <3>2. (k > 0 /\ x <= w[k]) \/ r + k = Cardinality(T)
        <4>1. CASE k = n BY <1>1, <4>1
        <4>2. CASE x <= Last(t)
          <5>1. k > 0 BY <1>14, <2>0, <2>2, <4>2
          <5> QED BY <1>14, <4>2, <5>1
        <4> QED BY <1>19, <4>1, <4>2
      <3>3. \E i \in 1..k : w[i] = x BY <1>9, <2>0, <3>1, <3>2
      <3> QED BY <1>18, <3>3
    <2> QED BY <2>0, <2>1, <2>2
  <1>20. {x \in kept : x <= Last(t)} \subseteq Range(t) BY <1>19
  <1>21. n <= Limit => kept \subseteq Range(t) BY <1>2, <1>19
  <1> QED BY <1>12, <1>13, <1>15, <1>16, <1>20, <1>21 DEF r, n, k, w, t
-----------------------------------------------------------------------------
(* The steps.                                                               *)

LEMMA CursorOf ==
  ASSUME PagesInv, page.hasNext \/ page.hasPrev
  PROVE  \E a \in 0..Cardinality(queried), k \in 1..Limit :
             /\ a + k <= Cardinality(queried)
             /\ page.rows = Window(queried, a, k)
             /\ page.rows # << >>
             /\ page.cursors[1] = page.rows[1] /\ page.cursors[2] = page.rows[k]
             /\ page.cursors[2] = Last(page.rows)
             /\ page.cursors[1] \in Int /\ page.cursors[2] \in Int
             /\ page.hasNext => k = Limit \/ a = 0
             /\ page.hasPrev => k = Limit \/ a + k = Cardinality(queried)
  <1>1. page.rows # << >> /\ queried \in Tables BY DEF PagesInv, PageShown, Shows
  <1>2. PICK a \in 0..Cardinality(queried), k \in 1..Limit :
             /\ a + k <= Cardinality(queried)
             /\ page.rows = Window(queried, a, k)
             /\ page.cursors = <<page.rows[1], page.rows[k]>>
             /\ page.hasNext => k = Limit \/ a = 0
             /\ page.hasPrev => k = Limit \/ a + k = Cardinality(queried)
    BY <1>1 DEF PagesInv, PageShown, Shows
  <1>3. a \in Nat /\ k \in Nat /\ k > 0 BY PageAssumption
  <1>4. LET w == Window(queried, a, k)
        IN  Last(w) = w[k] /\ w[1] \in Int /\ w[k] \in Int
    BY <1>1, <1>2, <1>3, WindowEnds
  <1>5. page.cursors[1] = page.rows[1] /\ page.cursors[2] = page.rows[k] BY <1>2
  <1> QED BY <1>1, <1>2, <1>4, <1>5


LEMMA PagesInvInit == ASSUME PageInit PROVE PagesInv
  <1>1. stored \in Tables /\ queried \in Tables
    BY PageAssumption DEF PageInit, Tables
  <1>2. left = Nowhere /\ left.table = {} /\ left.by = "first" BY DEF PageInit, Nowhere
  <1>3. left.table \in Tables BY <1>2, FS_EmptySet DEF Tables
  <1>4. PageShown BY DEF PageInit, NoPage, PageShown, Shows
  <1>5. LeftBehind BY <1>2 DEF LeftBehind
  <1>6. Walked BY DEF PageInit, Walked, WalkMeetsAll
  <1> QED BY <1>1, <1>3, <1>4, <1>5, <1>6 DEF PagesInv

LEMMA FirstPageStep ==
  ASSUME PagesInv, FirstPage PROVE PagesInv'
  <1> DEFINE T == stored
             p == FinishCursorPage(Fetch(T, << >>, << >>), FALSE, FALSE)
             n == Cardinality(T)
             k == Fill(n)
  <1>1. T \in Tables BY DEF PagesInv
  <1>2. page' = p /\ queried' = T /\ stored' = T BY DEF FirstPage, Turn
  <1>3. walk' = page'.rows /\ steady' = T /\ left' = Nowhere BY DEF FirstPage
  <1>4. /\ p.rows = Window(T, 0, k) /\ (p.hasNext <=> (n > Limit)) /\ Shows(p, T)
    BY <1>1, TurnedFirst
  <1> HIDE DEF p
  <1>5. n \in Nat /\ Limit \in Nat BY <1>1, TableFacts, PageAssumption
  <1>6. k \in Nat /\ 0 + k <= n /\ (n <= Limit => k = n) BY <1>5 DEF Fill
  <1> HIDE DEF n, k
  <1>7. PageShown' BY <1>2, <1>4 DEF PageShown
  <1>8. left'.table = {} /\ left'.by = "first" BY <1>3 DEF Nowhere
  <1>9. LeftBehind' BY <1>8 DEF LeftBehind
  <1> DEFINE w == Window(T, 0, k)
  <1>10. /\ w \in Seq(Int) /\ (w = << >> <=> k = 0) /\ (k > 0 => Last(w) = w[k])
    BY <1>1, <1>6, WindowEnds DEF n
  <1>11. Len(w) = k BY <1>1, <1>6, WindowIs DEF n
  <1>12. \A i \in 1..k : i > 1 => w[i - 1] < w[i] BY <1>1, <1>6, WindowHolds DEF n
  <1>13. \A x \in T : 0 <= Rank(T, x) /\ ((k > 0 /\ x <= w[k]) \/ 0 + k = n)
                         => \E i \in 1..k : w[i] = x
    BY <1>1, <1>6, WindowHolds DEF n
  <1>14. walk' = w /\ page'.rows = w BY <1>2, <1>3, <1>4
  <1> HIDE DEF w
  <1>15. DOMAIN w = 1..k BY <1>10, <1>11
  <1>16. ASSUME NEW x \in T, (k > 0 /\ x <= w[k]) \/ k = n PROVE x \in Range(w)
    <2>1. 0 <= Rank(T, x) BY <1>1, RankType
    <2>2. \E i \in 1..k : w[i] = x BY <1>6, <1>13, <1>16, <2>1
    <2> QED BY <1>15, <2>2 DEF Range
  <1>17. WalkMeetsAll'
    <2> SUFFICES ASSUME w # << >>
                 PROVE  /\ \A i \in DOMAIN w : i > 1 => w[i - 1] < w[i]
                        /\ {x \in T : x <= Last(w)} \subseteq Range(w)
                        /\ ~page'.hasNext => T \subseteq Range(w)
      BY <1>3, <1>14 DEF WalkMeetsAll
    <2>1. k > 0 BY <1>6, <1>10
    <2>2. ~page'.hasNext => k = n BY <1>2, <1>4, <1>5, <1>6
    <2> QED BY <1>10, <1>12, <1>15, <1>16, <2>1, <2>2
  <1>18. Walked' BY <1>2, <1>3, <1>10, <1>14, <1>17 DEF Walked
  <1>19. left'.table \in Tables BY <1>8, FS_EmptySet DEF Tables
  <1> QED BY <1>1, <1>2, <1>7, <1>9, <1>18, <1>19 DEF PagesInv

LEMMA NextPageStep ==
  ASSUME PagesInv, NextPage PROVE PagesInv'
  <1> DEFINE T == stored
             c == page.cursors[2]
             p == FinishCursorPage(Fetch(T, <<c>>, << >>), TRUE, FALSE)
             r == Cardinality({x \in T : x <= c})
             n == Cardinality(T) - r
             w == Window(T, r, Fill(n))
  <1>1. T \in Tables /\ queried \in Tables BY DEF PagesInv
  <1>2. PICK a \in 0..Cardinality(queried), k \in 1..Limit :
             /\ a + k <= Cardinality(queried)
             /\ page.rows = Window(queried, a, k)
             /\ page.rows # << >>
             /\ page.cursors[2] = page.rows[k] /\ page.cursors[2] = Last(page.rows)
             /\ page.cursors[2] \in Int
             /\ k = Limit \/ a = 0
    BY CursorOf DEF NextPage
  <1>3. c \in Int BY <1>2
  <1>4. page' = p /\ queried' = T /\ stored' = T BY DEF NextPage, Turn
  <1>5. /\ walk' = (IF walk = << >> THEN << >> ELSE walk \o page'.rows)
        /\ left' = [rows |-> page.rows, table |-> queried, by |-> "next"]
        /\ steady' = steady
    BY DEF NextPage
  <1>6. /\ n \in Nat /\ r \in Nat /\ r + n = Cardinality(T)
        /\ p.rows = w /\ p.rows = Kept(Fetch(T, <<c>>, << >>), FALSE)
        /\ p.hasNext <=> (n > Limit)
        /\ p.hasPrev <=> (Fill(n) # 0)
        /\ Shows(p, T)
    BY <1>1, <1>3, TurnedForward
  <1>7. Fill(n) \in Nat /\ r + Fill(n) <= Cardinality(T)
    <2> HIDE DEF p, n, r
    <2>1. n \in Nat /\ r \in Nat /\ r + n = Cardinality(T) BY <1>6
    <2>2. Fill(n) \in Nat /\ Fill(n) <= n BY <2>1, FillType
    <2> QED BY <2>1, <2>2
  <1>8. w = << >> <=> Fill(n) = 0 BY <1>1, <1>6, <1>7, WindowEnds
  <1> HIDE DEF p
  <1>9. PageShown' BY <1>4, <1>6 DEF PageShown
  <1>10. p.rows # << >> => p.hasPrev BY <1>6, <1>8
  <1>11. left'.by = "next" /\ left'.rows = page.rows /\ left'.table = queried BY <1>5
  <1>12. LeftBehind'
    <2>1. page'.rows # << >> => page'.hasPrev BY <1>4, <1>10
    <2>2. page'.rows = Kept(Fetch(queried', <<left'.rows[k]>>, << >>), FALSE)
      BY <1>2, <1>4, <1>6, <1>11
    <2> QED BY <1>2, <1>11, <2>1, <2>2 DEF LeftBehind
  <1>13. steady \subseteq T /\ walk \in Seq(Int) /\ WalkMeetsAll
         /\ (walk # << >> => Last(walk) = c)
    BY <1>2 DEF PagesInv, Walked
  <1>14. CASE walk = << >>
    <2>1. walk' = << >> BY <1>5, <1>14
    <2>2. Walked' BY <1>4, <1>5, <1>13, <2>1 DEF Walked, WalkMeetsAll
    <2> QED BY <1>1, <1>4, <1>9, <1>11, <1>12, <2>2 DEF PagesInv
  <1>15. CASE walk # << >>
    <2>1. walk' = walk \o w BY <1>4, <1>5, <1>6, <1>15
    <2>2. /\ \A i \in DOMAIN walk : i > 1 => walk[i - 1] < walk[i]
          /\ {x \in steady : x <= c} \subseteq Range(walk)
      BY <1>13, <1>15 DEF WalkMeetsAll
    <2>3. /\ walk \o w \in Seq(Int) /\ walk \o w # << >>
          /\ w # << >> => Last(walk \o w) = Last(w)
          /\ \A i \in DOMAIN (walk \o w) : i > 1 => (walk \o w)[i - 1] < (walk \o w)[i]
          /\ {x \in steady : x <= Last(walk \o w)} \subseteq Range(walk \o w)
          /\ n <= Limit => steady \subseteq Range(walk \o w)
      BY <1>1, <1>3, <1>13, <1>15, <2>2, WalkGrows
    <2> DEFINE t == walk \o w
    <2> HIDE DEF t, w, n
    <2>4. ~page'.hasNext => n <= Limit BY <1>4, <1>6, PageAssumption
    <2>5. page'.rows = w BY <1>4, <1>6
    <2>6. WalkMeetsAll' BY <1>5, <2>1, <2>3, <2>4 DEF WalkMeetsAll
    <2>7. Walked' BY <1>4, <1>5, <1>13, <2>1, <2>3, <2>5, <2>6 DEF Walked
    <2> QED BY <1>1, <1>4, <1>9, <1>11, <1>12, <2>7 DEF PagesInv
  <1> QED BY <1>14, <1>15

LEMMA PrevPageStep ==
  ASSUME PagesInv, PrevPage PROVE PagesInv'
  <1> DEFINE T == stored
             c == page.cursors[1]
             p == FinishCursorPage(Fetch(T, << >>, <<c>>), FALSE, TRUE)
             q == Rank(T, c)
             f == Fill(q)
  <1>1. T \in Tables /\ queried \in Tables BY DEF PagesInv
  <1>2. PICK a \in 0..Cardinality(queried), k \in 1..Limit :
             /\ a + k <= Cardinality(queried)
             /\ page.rows = Window(queried, a, k)
             /\ page.cursors[1] = page.rows[1]
             /\ page.cursors[1] \in Int
             /\ k = Limit \/ a + k = Cardinality(queried)
    BY CursorOf DEF PrevPage
  <1>3. c \in Int BY <1>2
  <1>4. page' = p /\ queried' = T /\ stored' = T BY DEF PrevPage, Turn
  <1>5. /\ walk' = << >> /\ steady' = {}
        /\ left' = [rows |-> page.rows, table |-> queried, by |-> "prev"]
    BY DEF PrevPage
  <1>6. /\ q \in Nat /\ q <= Cardinality(T)
        /\ p.rows = Window(T, q - f, f) /\ p.rows = Kept(Fetch(T, << >>, <<c>>), TRUE)
        /\ p.hasNext <=> (f # 0)
        /\ Shows(p, T)
    BY <1>1, <1>3, TurnedBack
  <1>7. f \in Nat /\ q - f \in Nat /\ (q - f) + f <= Cardinality(T)
    <2> HIDE DEF p, q
    <2>1. q \in Nat /\ q <= Cardinality(T) BY <1>6
    <2>2. f \in Nat /\ f <= q BY <2>1, FillType
    <2>3. Cardinality(T) \in Nat BY <1>1, TableFacts
    <2> HIDE DEF f
    <2> QED BY <2>1, <2>2, <2>3
  <1> HIDE DEF p, q, f
  <1>8. p.rows = << >> <=> f = 0 BY <1>1, <1>6, <1>7, WindowEnds
  <1>9. PageShown' BY <1>4, <1>6 DEF PageShown
  <1>10. p.rows # << >> => p.hasNext BY <1>6, <1>8
  <1>11. left'.by = "prev" /\ left'.rows = page.rows /\ left'.table = queried BY <1>5
  <1>12. LeftBehind'
    <2>1. page'.rows # << >> => page'.hasNext BY <1>4, <1>10
    <2>2. page'.rows = Kept(Fetch(queried', << >>, <<left'.rows[1]>>), TRUE)
      BY <1>2, <1>4, <1>6, <1>11
    <2> QED BY <1>2, <1>11, <2>1, <2>2 DEF LeftBehind
  <1>13. Walked' BY <1>5 DEF Walked, WalkMeetsAll
  <1> QED BY <1>1, <1>4, <1>9, <1>11, <1>12, <1>13 DEF PagesInv

LEMMA EditStep ==
  ASSUME PagesInv, NEW row \in Rows, Insert(row) \/ Delete(row) PROVE PagesInv'
  <1>1. page' = page /\ queried' = queried /\ left' = left /\ walk' = walk
    BY DEF Insert, Delete
  <1>2. stored' \in Tables
    <2>0. IsFiniteSet(stored) /\ stored \subseteq Int /\ row \in Int
      BY PageAssumption DEF PagesInv, Tables
    <2>1. CASE Insert(row)
      <3>1. stored' = stored \cup {row} BY <2>1 DEF Insert
      <3> QED BY <2>0, <3>1, FS_AddElement DEF Tables
    <2>2. CASE Delete(row)
      <3>1. stored' = stored \ {row} BY <2>2 DEF Delete
      <3> QED BY <2>0, <3>1, FS_RemoveElement DEF Tables
    <2> QED BY <2>1, <2>2
  <1>3. steady' \subseteq stored' /\ steady' \subseteq steady
    <2>1. steady \subseteq stored BY DEF PagesInv, Walked
    <2> QED BY <2>1 DEF Insert, Delete
  <1>4. PageShown' /\ LeftBehind' BY <1>1 DEF PagesInv, PageShown, LeftBehind
  <1>5. WalkMeetsAll' BY <1>1, <1>3 DEF PagesInv, Walked, WalkMeetsAll
  <1>6. Walked' BY <1>1, <1>3, <1>5 DEF PagesInv, Walked
  <1> QED BY <1>1, <1>2, <1>4, <1>6 DEF PagesInv

LEMMA PagesInvStep ==
  ASSUME PagesInv, [PageNext]_pageVars PROVE PagesInv'
  <1>1. CASE UNCHANGED pageVars
    BY <1>1 DEF pageVars, PagesInv, PageShown, LeftBehind, Walked, WalkMeetsAll
  <1>2. CASE \E row \in Rows : Insert(row) \/ Delete(row) BY <1>2, EditStep
  <1> QED BY <1>1, <1>2, FirstPageStep, NextPageStep, PrevPageStep DEF PageNext

LEMMA PagesHold == PageSpec => []PagesInv
  BY PagesInvInit, PagesInvStep, PTL DEF PageSpec

(* On a table that stood still, the neighbour's neighbour is the page left. *)
LEMMA NeighbourTurnsBack == ASSUME PagesInv PROVE TurnsBack
  <1> SUFFICES ASSUME left.by # "first", left.table = stored, queried = stored,
                      page.rows # << >>
               PROVE  IF left.by = "next"
                      THEN /\ page.hasPrev
                           /\ Kept(Fetch(stored, << >>, <<page.cursors[1]>>), TRUE) = left.rows
                      ELSE /\ page.hasNext
                           /\ Kept(Fetch(stored, <<page.cursors[2]>>, << >>), FALSE) = left.rows
    BY DEF TurnsBack
  <1> DEFINE T == stored
             N == Cardinality(T)
             A == Ascending(T)
  <1>1. T \in Tables BY DEF PagesInv
  <1>2. PICK a \in 0..N, k \in 1..Limit :
            /\ a + k <= N
            /\ left.rows = Window(T, a, k)
            /\ IF left.by = "next"
               THEN /\ k = Limit \/ a = 0
                    /\ page.rows = Kept(Fetch(T, <<left.rows[k]>>, << >>), FALSE)
                    /\ page.rows # << >> => page.hasPrev
               ELSE /\ k = Limit \/ a + k = N
                    /\ page.rows = Kept(Fetch(T, << >>, <<left.rows[1]>>), TRUE)
                    /\ page.rows # << >> => page.hasNext
    BY DEF PagesInv, LeftBehind
  <1>3. PICK b \in 0..N, m \in 1..Limit :
             /\ b + m <= N
             /\ page.rows = Window(T, b, m)
             /\ page.cursors = <<page.rows[1], page.rows[m]>>
    BY DEF PagesInv, PageShown, Shows
  <1>4. N \in Nat /\ Limit \in Nat /\ a \in Nat /\ k \in Nat /\ k > 0
        /\ b \in Nat /\ m \in Nat /\ m > 0
    BY <1>1, TableFacts, PageAssumption
  <1> HIDE DEF N
  <1>5. /\ left.rows[1] = A[a + 1] /\ left.rows[k] = A[a + k]
        /\ left.rows[1] \in Int /\ left.rows[k] \in Int
    <2>1. LET w == Window(T, a, k)
          IN  w[1] = A[a + 1] /\ w[k] = A[a + k] /\ w[1] \in Int /\ w[k] \in Int
      <3>1. a + k <= N BY <1>2
      <3> QED BY <1>1, <1>4, <3>1, WindowEnds DEF N
    <2> QED BY <1>2, <2>1
  <1>6. page.rows[1] = A[b + 1] /\ page.rows[m] = A[b + m] /\ Len(page.rows) = m
    <2>1. LET w == Window(T, b, m) IN w[1] = A[b + 1] /\ w[m] = A[b + m]
      <3>1. b + m <= N BY <1>3
      <3>2. b \in Nat /\ m \in Nat /\ m > 0 BY <1>4
      <3> QED BY <1>1, <3>1, <3>2, WindowEnds DEF N
    <2>2. Len(Window(T, b, m)) = m BY <1>1, <1>3, <1>4, WindowIs DEF N
    <2> QED BY <1>3, <2>1, <2>2
  <1>7. CASE left.by = "next"
    <2> DEFINE c == left.rows[k]
               r == Cardinality({x \in T : x <= c})
               f == Fill(N - r)
    <2>1. a + k \in 1..N BY <1>2, <1>4
    <2>2. c \in Int /\ r = a + k BY <1>1, <1>5, <2>1, UpTo DEF N
    <2> HIDE DEF c
    <2>3. Kept(Fetch(T, <<c>>, << >>), FALSE) = Window(T, r, f) /\ N - r \in Nat
      BY <1>1, <2>2, PageAfter DEF N
    <2> HIDE DEF r
    <2>4. f \in Nat /\ f <= N - r BY <2>3, FillType
    <2> HIDE DEF f
    <2>5. page.rows = Window(T, r, f) BY <1>2, <1>7, <2>3 DEF c
    <2>6. r \in Nat /\ r + f <= N BY <1>4, <2>2, <2>4
    <2>7. f # 0 BY <1>1, <2>4, <2>5, <2>6, WindowEnds DEF N
    <2>8. page.rows[1] = A[r + 1] BY <1>1, <2>4, <2>5, <2>6, <2>7, WindowEnds DEF N
    <2>9. r + 1 = a + k + 1 /\ a + k + 1 <= N BY <1>4, <2>2, <2>4, <2>6, <2>7
    <2>10. page.cursors[1] = A[a + k + 1] BY <1>3, <2>8, <2>9
    <2>11. k = Limit \/ a = 0 BY <1>2, <1>7
    <2>12. Kept(Fetch(T, << >>, <<A[a + k + 1]>>), TRUE) = Window(T, a, k)
      BY <1>1, <1>4, <2>9, <2>11, BackFromNext DEF N
    <2> QED BY <1>2, <1>7, <2>10, <2>12
  <1>8. CASE left.by # "next"
    <2> DEFINE c == left.rows[1]
               q == Rank(T, c)
               f == Fill(q)
               d == q - f
    <2>1. a + 1 \in 1..N BY <1>2, <1>4
    <2>2. c \in Int /\ q = (a + 1) - 1 BY <1>1, <1>5, <2>1, UpTo DEF N
    <2> HIDE DEF c
    <2>3. Kept(Fetch(T, << >>, <<c>>), TRUE) = Window(T, d, f) BY <1>1, <2>2, PageBefore
    <2> HIDE DEF q
    <2>4. q = a BY <1>4, <2>2
    <2>5. f \in Nat /\ f <= q BY <1>4, <2>4, FillType
    <2> HIDE DEF f
    <2>6. d \in Nat /\ d + f = a /\ d + f <= N BY <1>2, <1>4, <2>4, <2>5
    <2> HIDE DEF d
    <2>7. page.rows = Window(T, d, f) BY <1>2, <1>8, <2>3 DEF c
    <2>8. f # 0 BY <1>1, <2>5, <2>6, <2>7, WindowEnds DEF N
    <2>9. page.rows[f] = A[d + f] /\ Len(page.rows) = f
      BY <1>1, <2>5, <2>6, <2>7, <2>8, WindowEnds, WindowIs DEF N
    <2>10. page.cursors[2] = A[a] BY <1>3, <1>6, <2>6, <2>9
    <2>11. a > 0 /\ (k = Limit \/ a + k = N) BY <1>2, <1>4, <1>8, <2>5, <2>6, <2>8
    <2>12. Kept(Fetch(T, <<A[a]>>, << >>), FALSE) = Window(T, a, k)
      BY <1>1, <1>2, <1>4, <2>11, NextFromBack DEF N
    <2> QED BY <1>2, <1>8, <2>10, <2>12
  <1> QED BY <1>7, <1>8

(* A client that follows next_after_* to the end meets every row that was   *)
(* there all along, once and in order, whatever is inserted and deleted     *)
(* meanwhile: FinishCursorPage, for tables and pages of any size.           *)
THEOREM WalkIsComplete == PageSpec => []WalkMeetsAll
  <1>1. PagesInv => WalkMeetsAll BY DEF PagesInv, Walked
  <1> QED BY <1>1, PagesHold, PTL

(* On a table that stood still the neighbour's cursors lead back to exactly *)
(* the page the client left: FinishCursorPage, for every limit.             *)
THEOREM PagesTurnBack == PageSpec => []TurnsBack
  BY NeighbourTurnsBack, PagesHold, PTL
=============================================================================
