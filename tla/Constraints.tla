---------------------------- MODULE Constraints ----------------------------
(***************************************************************************)
(* The validate tag of one field, read twice: validator/v10 enforces it on *)
(* every request, and the schema generator (internal/httpx/schema.go,      *)
(* applyValidateTag) turns it, token by token, into keywords of the field's *)
(* schema.  The two readings share nothing but the tag, so a wrong keyword *)
(* makes clients refuse bodies the server would take.  They even disagree  *)
(* on what a token applies to: after a dive on a map the validator is at   *)
(* the map's elements and the generator still at the map.                  *)
(*                                                                         *)
(* A wire value is abstracted to what the tokens tell apart: its size (a   *)
(* number's value, a string's length, the count of a list or map), the     *)
(* length of its text on the wire (which for an int64, a JSON string, has  *)
(* nothing to do with its value), the literal oneof and ne compare, the    *)
(* string classes it belongs to, and whether its elements are distinct.    *)
(***************************************************************************)
EXTENDS Integers, FiniteSets

CONSTANTS
    Fields,      \* the fields documented: [kinds, nullable]
    Tokens,      \* the validate tokens a tag is written from: [rule, arg]
    Values,      \* the wire values: [size, wire, word, classes, distinct]
    Depth,       \* how deep collections nest
    MaxTokens    \* the longest tag explored

\* A ref is a component: of a struct, or of a named collection.
Scalars == {"number", "string", "int64"}
FieldKinds == Scalars \union {"list", "map", "ref"}

\* The field itself is position 1, its elements 2, theirs 3.
Positions == 1 .. Depth

Bounds == {"gt", "gte", "lt", "lte"}
Rules == Bounds \union
    {"required", "omitempty", "len", "ne", "oneof", "unique", "format",
     "pattern", "digits", "code", "range", "note", "dive", "unmapped"}

Keywords ==
    {"minimum", "exclusiveMinimum", "maximum", "exclusiveMaximum",
     "minLength", "maxLength", "minItems", "maxItems", "minProperties",
     "maxProperties", "not", "enum", "uniqueItems", "pattern", "format"}

\* Bounds take a number, len the length, code a class with its length, range
\* its two ends, oneof a set of literals and the class tokens a class.
ASSUME ConstraintsAssumption ==
    /\ Depth \in Nat \ {0}
    /\ \A f \in Fields :
           /\ f.kinds \in [Positions -> FieldKinds \union {"none"}]
           /\ \A p \in Positions : f.kinds[p] \in {"list", "map"} =>
                  p + 1 \in Positions /\ f.kinds[p + 1] # "none"
           /\ \A p \in Positions : f.kinds[p] \in Scalars \union {"none"} =>
                  (p + 1 \in Positions => f.kinds[p + 1] = "none")
    /\ \A t \in Tokens : t.rule \in Rules
    /\ \A t \in Tokens : t.rule \in Bounds \union {"len"} => t.arg \in Int
    /\ \A t \in Tokens : t.rule = "format" => t.arg # "int64"
    /\ \A t \in Tokens : t.rule = "code" => t.arg.length \in Int
    /\ \A t \in Tokens : t.rule = "range" => t.arg.low \in Int /\ t.arg.high \in Int
    /\ \A v \in Values : v.size \in Int /\ v.wire \in Int
    /\ MaxTokens \in Nat

VARIABLES
    field,       \* the field this tag belongs to
    length,      \* tokens read so far
    target,      \* the position whose schema the generator gives the next token
    position,    \* the position where the validator applies it
    rules,       \* position -> the tokens the validator applies there
    schema,      \* position -> keyword -> {} or the one argument emitted
    notes,       \* position -> the tokens rendered as prose
    rejected     \* "yes" when a token failed the build

constraintVars ==
    <<field, length, target, position, rules, schema, notes, rejected>>

\* What is at a position, "none" below the last elements.
Kind(p) == field.kinds[p]

\* A slice, array or map, by its own name or not: what the validator dives into.
Collection(p) == p + 1 \in Positions /\ Kind(p + 1) # "none"

----------------------------------------------------------------------------
(* What the derived schema is, as the tag vocabulary sees it.              *)

\* schemaIsNumeric: the schema carries JSON numbers.
SchemaIsNumeric(p) == Kind(p) = "number"

\* hasType(target, "string"): an int64 is a string on the wire.
HasTypeString(p) == Kind(p) \in {"string", "int64"}

\* Mutant: an int64 is taken for any other string.
Int64IsString(p) == FALSE

\* schemaIsInt64String looks at the format, which a format token replaces.
SchemaIsInt64String(p) == HasTypeString(p) /\ "int64" \in schema[p]["format"]

\* schemaIsPlainString: a string that is not a string-serialised integer.
SchemaIsPlainString(p) == HasTypeString(p) /\ ~SchemaIsInt64String(p)

----------------------------------------------------------------------------
(* What one token does to the schema of position p.                        *)

\* Keywords set on p, keyword by keyword; the last token to set one wins.
Emit(p, set) ==
    /\ schema' = [schema EXCEPT ![p] =
           [k \in Keywords |-> IF \E s \in set : s[1] = k
                               THEN {s[2] : s \in {x \in set : x[1] = k}}
                               ELSE schema[p][k]]]
    /\ UNCHANGED <<notes, rejected>>

\* The token is rendered as prose in the field's description.
Note(p, t) ==
    /\ notes' = [notes EXCEPT ![p] = @ \union {t}]
    /\ UNCHANGED <<schema, rejected>>

\* The token has nothing to say about the value's schema.
Silent == UNCHANGED <<schema, notes, rejected>>

\* The keyword a numeric bound becomes.
NumberKeyword(rule) ==
    CASE rule = "gt" -> "exclusiveMinimum" [] rule = "gte" -> "minimum"
      [] rule = "lt" -> "exclusiveMaximum" [] rule = "lte" -> "maximum"

\* The size keywords of a string, a list and a map.
SizeKeywords(p) ==
    IF HasTypeString(p) THEN [low |-> "minLength", high |-> "maxLength"]
    ELSE IF Kind(p) = "list" THEN [low |-> "minItems", high |-> "maxItems"]
    ELSE [low |-> "minProperties", high |-> "maxProperties"]

\* A bound on a size: the exclusive ones become the next whole number.
SizeBound(p, t) ==
    CASE t.rule = "gt"  -> <<SizeKeywords(p).low, t.arg + 1>>
      [] t.rule = "gte" -> <<SizeKeywords(p).low, t.arg>>
      [] t.rule = "lt"  -> <<SizeKeywords(p).high, t.arg - 1>>
      [] t.rule = "lte" -> <<SizeKeywords(p).high, t.arg>>

\* applyBound: numbers get a bound, an int64 a note, sizes a size keyword.
ApplyBound(p, t) ==
    IF SchemaIsNumeric(p) THEN Emit(p, {<<NumberKeyword(t.rule), t.arg>>})
    ELSE IF SchemaIsInt64String(p) \/ Kind(p) = "ref" THEN Note(p, t)
    ELSE Emit(p, {SizeBound(p, t)})

\* applyExactLength: on a number len means equality and stays prose.
ApplyExactLength(p, t) ==
    IF SchemaIsNumeric(p) \/ SchemaIsInt64String(p) \/ Kind(p) = "ref"
    THEN Note(p, t)
    ELSE Emit(p, {<<SizeKeywords(p).low, t.arg>>, <<SizeKeywords(p).high, t.arg>>})

\* ne: a not/const on numbers and plain strings.
ApplyNotEqual(p, t) ==
    IF SchemaIsNumeric(p) \/ SchemaIsPlainString(p) THEN Emit(p, {<<"not", t.arg>>})
    ELSE Note(p, t)

\* oneof: an enum, except on a reference; without values the build fails.
ApplyOneOf(p, t) ==
    IF t.arg = {} THEN rejected' = "yes" /\ UNCHANGED <<schema, notes>>
    ELSE IF Kind(p) = "ref" THEN Note(p, t)
    ELSE Emit(p, {<<"enum", t.arg>>})

\* applyFormat: any string schema, an int64's included.
ApplyFormat(p, t) ==
    IF HasTypeString(p) THEN Emit(p, {<<"format", t.arg>>}) ELSE Note(p, t)

\* applyPattern: the first pattern stays, a second one becomes prose.
PatternFits(p, c) ==
    /\ SchemaIsPlainString(p)
    /\ schema[p]["pattern"] \subseteq {c}

\* Mutant: the second pattern is dropped.
ApplyPatternOnce(p, t) ==
    IF PatternFits(p, t.arg) THEN Emit(p, {<<"pattern", t.arg>>}) ELSE Silent

ApplyPattern(p, t) ==
    IF PatternFits(p, t.arg) THEN Emit(p, {<<"pattern", t.arg>>}) ELSE Note(p, t)

\* number, numeric and boolean leave nothing behind off plain strings.
ApplyDigits(p, t) == IF SchemaIsPlainString(p) THEN ApplyPattern(p, t) ELSE Silent

\* The ISO codes: a pattern and, where it was taken, the code's length.
ApplyCode(p, t) ==
    IF PatternFits(p, t.arg.class)
    THEN Emit(p, {<<"pattern", t.arg.class>>, <<"minLength", t.arg.length>>,
                  <<"maxLength", t.arg.length>>})
    ELSE Note(p, t)

\* applyNumericRange: latitude and longitude.
ApplyNumericRange(p, t) ==
    IF SchemaIsNumeric(p)
    THEN Emit(p, {<<"minimum", t.arg.low>>, <<"maximum", t.arg.high>>})
    ELSE Note(p, t)

\* unique: only an array can say it.
ApplyUnique(p, t) ==
    IF Kind(p) = "list" THEN Emit(p, {<<"uniqueItems", "true">>}) ELSE Note(p, t)

\* applyValidateToken.
ApplyValidateToken(p, t) ==
    CASE t.rule \in Bounds -> ApplyBound(p, t)
      [] t.rule = "len" -> ApplyExactLength(p, t)
      [] t.rule = "ne" -> ApplyNotEqual(p, t)
      [] t.rule = "oneof" -> ApplyOneOf(p, t)
      [] t.rule = "unique" -> ApplyUnique(p, t)
      [] t.rule = "format" -> ApplyFormat(p, t)
      [] t.rule = "pattern" -> ApplyPattern(p, t)
      [] t.rule = "digits" -> ApplyDigits(p, t)
      [] t.rule = "code" -> ApplyCode(p, t)
      [] t.rule = "range" -> ApplyNumericRange(p, t)
      [] t.rule = "note" -> Note(p, t)
      [] t.rule \in {"required", "omitempty"} -> Silent
      [] OTHER -> rejected' = "yes" /\ UNCHANGED <<schema, notes>>

----------------------------------------------------------------------------
(* Reading the tag.                                                        *)

\* Every schema starts without constraints; an int64 carries its format.
NoKeywords(kind) ==
    [k \in Keywords |-> IF k = "format" /\ kind = "int64" THEN {"int64"} ELSE {}]

ConstraintsInit ==
    /\ field \in Fields
    /\ length = 0
    /\ target = 1
    /\ position = 1
    /\ rules = [p \in Positions |-> {}]
    /\ schema = [p \in Positions |-> NoKeywords(Kind(p))]
    /\ notes = [p \in Positions |-> {}]
    /\ rejected = "no"

\* dive takes the validator to the elements of any collection, and elsewhere
\* makes it panic, which the build finds out.  The generator follows into the
\* items of an array only; elsewhere the token is prose and the target stays.
Dive(t) ==
    /\ length < MaxTokens
    /\ t.rule = "dive"
    /\ length' = length + 1
    /\ \/ Collection(position) /\ position' = position + 1 /\ UNCHANGED rejected
       \/ ~Collection(position) /\ rejected' = "yes" /\ UNCHANGED position
    /\ \/ Kind(target) = "list" /\ target' = target + 1 /\ UNCHANGED notes
       \/ /\ Kind(target) # "list"
          /\ notes' = [notes EXCEPT ![target] = @ \union {t}]
          /\ UNCHANGED target
    /\ UNCHANGED <<field, rules, schema>>

\* Any other token binds at the position and is documented at the target; one
\* without a mapping fails the build.
Token(t) ==
    /\ length < MaxTokens
    /\ t.rule # "dive"
    /\ length' = length + 1
    /\ rules' = [rules EXCEPT ![position] = @ \union {t}]
    /\ ApplyValidateToken(target, t)
    /\ UNCHANGED <<field, target, position>>

ConstraintsNext == \E t \in Tokens : Dive(t) \/ Token(t)

ConstraintsSpec == ConstraintsInit /\ [][ConstraintsNext]_constraintVars

----------------------------------------------------------------------------
(* What validator/v10 enforces (an external library, as the code uses it). *)

\* Pointers and collections aside, a zero value the wire can carry.
HasWireZero(p) == ~Collection(p) /\ (p = 1 => field.nullable = "no")

\* The value fails no rule of token t on an element of kind k.
Holds(p, t, v) ==
    CASE t.rule = "required" -> HasWireZero(p) => v.size # 0
      [] t.rule = "gt" -> v.size > t.arg
      [] t.rule = "gte" -> v.size >= t.arg
      [] t.rule = "lt" -> v.size < t.arg
      [] t.rule = "lte" -> v.size <= t.arg
      [] t.rule = "len" -> v.size = t.arg
      [] t.rule = "ne" -> IF Collection(p) THEN v.size # t.arg ELSE v.word # t.arg
      [] t.rule = "oneof" -> ~Collection(p) /\ v.word \in t.arg
      [] t.rule = "unique" -> Collection(p) /\ v.distinct = "yes"
      [] t.rule \in {"format", "pattern"} ->
             Kind(p) \in {"string", "ref"} /\ ~Collection(p) /\ t.arg \in v.classes
      [] t.rule = "digits" ->
             \/ Kind(p) \in {"number", "int64"} /\ t.arg # "boolean"
             \/ ~Collection(p) /\ t.arg \in v.classes
      [] t.rule = "code" ->
             /\ Kind(p) \in {"string", "ref"} /\ ~Collection(p)
             /\ t.arg.class \in v.classes
             /\ v.size = t.arg.length
      [] t.rule = "range" ->
             Kind(p) = "number" => v.size \in t.arg.low .. t.arg.high
      [] OTHER -> TRUE

\* Validator skips what follows an omission gate for a zero value.
Skipped(p, v) ==
    /\ HasWireZero(p)
    /\ v.size = 0
    /\ \E t \in rules[p] : t.rule = "omitempty"

ServerAccepts(p, v) == \A t \in rules[p] : Holds(p, t, v)

----------------------------------------------------------------------------
(* What the published keywords say (JSON Schema, formats as annotations).  *)

\* Keyword k with argument a allows value v; a schema allows what all its
\* keywords allow.
Satisfies(k, a, v) ==
    CASE k = "minimum" -> v.size >= a
      [] k = "exclusiveMinimum" -> v.size > a
      [] k = "maximum" -> v.size <= a
      [] k = "exclusiveMaximum" -> v.size < a
      [] k = "minLength" -> v.wire >= a
      [] k = "maxLength" -> v.wire <= a
      [] k \in {"minItems", "minProperties"} -> v.size >= a
      [] k \in {"maxItems", "maxProperties"} -> v.size <= a
      [] k = "not" -> v.word # a
      [] k = "enum" -> v.word \in a
      [] k = "uniqueItems" -> v.distinct = "yes"
      [] k = "pattern" -> a \in v.classes
      [] OTHER -> TRUE

\* A wire value of this kind: only an int64's text has a length of its own,
\* and the literal of a number is the number.
WireValue(kind, v) ==
    /\ kind # "int64" => v.wire = v.size
    /\ kind \in {"number", "int64"} => v.word = v.size /\ v.classes = {}

----------------------------------------------------------------------------
(* Properties.                                                             *)

\* Types of the variables.
ConstraintsTypeOK ==
    /\ field \in Fields
    /\ length \in 0 .. MaxTokens
    /\ target \in Positions
    /\ position \in Positions
    /\ rules \in [Positions -> SUBSET Tokens]
    /\ DOMAIN schema = Positions
    /\ \A p \in Positions : DOMAIN schema[p] = Keywords
    /\ notes \in [Positions -> SUBSET Tokens]
    /\ rejected \in {"yes", "no"}

\* Every keyword of p allows every value the server takes there.  Left out, as
\* applyValidationPresenceSemantics announces, are the zero values an omission
\* gate lets through.
AllowsAccepted(p) ==
    \A k \in Keywords : \A a \in schema[p][k] : \A v \in Values :
        WireValue(Kind(p), v) /\ ServerAccepts(p, v) /\ ~Skipped(p, v)
            => Satisfies(k, a, v)

\* The validator has gone on from p, or not come there, together with the
\* generator: p is not the map, or named collection, that only it dived into.
ReadAlike(p) == p = target => position = target

\* A value the server takes is a value the document allows, whatever tokens
\* the tag puts together and in whichever order they overwrite each other's
\* keywords: no bound, length, enum or pattern of the schema is stricter than
\* the validator.  It holds of every position but one: the map or named
\* collection where a dive parted the two readers.
AcceptedIsDocumented ==
    \A p \in Positions : ReadAlike(p) => AllowsAccepted(p)

\* "Constraints that are not type-compatible with the derived schema are
\* appended to the description instead of being emitted as (wrong) schema
\* keywords" (schema.go:1422), of every position.
NoWrongKeyword == \A p \in Positions : AllowsAccepted(p)

\* What is left of a token in the document.  The presence of the field itself
\* is the struct's to document, in its required list.
RuleVisible(p, t) ==
    \/ t \in notes[p]
    \/ rejected = "yes"
    \/ t.rule = "omitempty"
    \/ t.rule = "required" /\ p = 1
    \/ t.rule \in Bounds \union {"len", "range"}
       /\ \E k \in Keywords \ {"not", "enum", "uniqueItems", "pattern", "format"} :
              schema[p][k] # {}
    \/ t.rule = "ne" /\ schema[p]["not"] # {}
    \/ t.rule = "oneof" /\ schema[p]["enum"] # {}
    \/ t.rule = "unique" /\ schema[p]["uniqueItems"] # {}
    \/ t.rule = "format" /\ schema[p]["format"] # {}
    \/ t.rule \in {"pattern", "digits"} /\ schema[p]["pattern"] = {t.arg}
    \/ t.rule = "code" /\ schema[p]["pattern"] = {t.arg.class}

\* What applyValidateToken leaves out without a word: required on elements, and
\* number, numeric and boolean on anything but a string.
Unwritten(p, t) ==
    \/ t.rule = "required" /\ p # 1
    \/ t.rule = "digits" /\ Kind(p) # "string"

\* No other rule disappears from the document: a token that can refuse a value
\* left a keyword of its own (or one a later token of the same kind replaced),
\* or a note, or failed the build, and this on the position it binds, as deep
\* as the generator follows.
EnforcedIsVisible ==
    \A p \in 1 .. target : \A t \in rules[p] :
        (\E v \in Values : WireValue(Kind(p), v) /\ ~Holds(p, t, v))
            => RuleVisible(p, t) \/ Unwritten(p, t)

=============================================================================
