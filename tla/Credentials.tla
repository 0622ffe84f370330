---------------------------- MODULE Credentials ----------------------------
(***************************************************************************)
(* The credential algebra of guards (internal/httpx/guard.go) and the      *)
(* security requirement an operation documents (openapi.go).  A credential *)
(* set is one alternative, whose schemes are presented together; a         *)
(* requirement set is the OR of its alternatives.  Scopes are always empty *)
(* (validateRequirementSet refuses them), so a credential set is a set of  *)
(* schemes; alternatives are kept without duplicates, so a requirement set *)
(* is a set of them.                                                       *)
(***************************************************************************)
EXTENDS Integers, Sequences

CONSTANT Schemes    \* the closed vocabulary of security schemes

CredentialSets == SUBSET Schemes
RequirementSets == SUBSET CredentialSets

\* No alternatives: nothing is said about credentials.
Unstated == {}

\* One empty alternative: anonymous callers are let through.
NoCredential == {{}}

\* One alternative; without schemes nothing is stated.
Requires(schemes) == IF schemes = {} THEN Unstated ELSE {schemes}

AllowsAnonymous(r) == {} \in r

mergeCredentials(a, b) == a \union b

\* Mutant: the product alone, in which an unstated operand swallows the other.
AndProduct(r, other) == {mergeCredentials(left, right) : left \in r, right \in other}

\* The chain of two guards: one merged alternative per pair; an operand that
\* states nothing is the identity.
And(r, other) ==
    IF other = Unstated THEN r
    ELSE IF r = Unstated THEN other
    ELSE {mergeCredentials(left, right) : left \in r, right \in other}

\* validateRequirementSet.
ValidRequirement(r) == \A alternative \in r : alternative \subseteq Schemes

\* operationSecurity: the requirements of the guard chain, then the
\* operation's own.
OperationSecurity(chain, own) ==
    LET conjoined[n \in 0 .. Len(chain)] ==
            IF n = 0 THEN Unstated ELSE And(conjoined[n - 1], chain[n])
    IN  And(conjoined[Len(chain)], own)

\* What a requirement set says to a client (OpenAPI's security array): the
\* schemes presented satisfy it when they include some alternative.
Satisfied(r, presented) ==
    r = Unstated \/ \E alternative \in r : alternative \subseteq presented

=============================================================================
