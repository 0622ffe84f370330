--------------------------- MODULE BuildRegistry ---------------------------
(***************************************************************************)
(* Group.BuildWith against the process-wide registries it reads: the known *)
(* types (internal/httpx/schema.go), the enums (enum.go) and the custom    *)
(* validations (validation.go).  Each registry has its own mutex, so each  *)
(* read and each registration is one step, but a build is many: it reads   *)
(* the registries type by type while it compiles the request plans, again  *)
(* while it derives the document, and retries when a version moved.        *)
(***************************************************************************)
EXTENDS Integers, FiniteSets

CONSTANTS
    KnownTypes,   \* types with a known-type schema to register or to read
    EnumTypes,    \* string-kinded named types
    Defs,         \* the schemas and value sets offered for registration
    Defaults,     \* known types registered from the start
    Tags,         \* custom validate tokens
    Builders,     \* concurrent calls of BuildWith on root groups
    Absent,       \* no registration for this type
    Unread,       \* this build attempt has not read the entry yet
    Nothing,      \* no value
    Mixed         \* an application compiled from two generations

ASSUME RegistryAssumption ==
    /\ IsFiniteSet(KnownTypes) /\ IsFiniteSet(EnumTypes)
    /\ Absent \notin Defs /\ Unread \notin Defs \cup {Absent}
    /\ Defaults \in [KnownTypes -> Defs \cup {Absent}]

Entries == Defs \cup {Absent}
Cells   == Entries \cup {Unread}
Generations == [known : [KnownTypes -> Entries], enums : [EnumTypes -> Entries]]

ASSUME NothingAssumption == Nothing \notin Generations

VARIABLES
    known, knownVersion,     \* knownTypes.schemas, knownTypes.version
    enums, enumVersion,      \* enumRegistry.values, enumRegistry.version
    custom,                  \* the tags of customValidations
    validatorBuilt,          \* the validator was built from custom
    validatorTags,           \* the tags the built validator knows
    alive,                   \* no conflicting registration has panicked
    pc,                      \* builder -> its place in BuildWith
    kv, ev,                  \* builder -> the versions it compares
    planKnown, planEnums,    \* builder -> what its request plans hold
    specKnown, specEnums,    \* builder -> what its document holds
    specTags,                \* builder -> tag -> is it in the document
    seen                     \* history: builder -> the registries when the
                             \* known-type version was found unchanged

registries == <<known, knownVersion, enums, enumVersion>>
validation == <<custom, validatorBuilt, validatorTags>>
reads      == <<planKnown, planEnums, specKnown, specEnums, specTags>>
vars == <<registries, validation, alive, pc, kv, ev, reads, seen>>

Places  == {"idle", "versions", "enumVersion", "plan", "spec", "checkKnown",
            "checkEnum", "done"}

(* One type invariant for the registries and the builders.                 *)
TypeOK ==
    /\ known \in [KnownTypes -> Entries] /\ knownVersion \in Nat
    /\ enums \in [EnumTypes -> Entries] /\ enumVersion \in Nat
    /\ custom \subseteq Tags /\ validatorTags \subseteq Tags
    /\ validatorBuilt \in BOOLEAN /\ alive \in BOOLEAN
    /\ pc \in [Builders -> Places]
    /\ kv \in [Builders -> Nat] /\ ev \in [Builders -> Nat]
    /\ planKnown \in [Builders -> [KnownTypes -> Cells]]
    /\ planEnums \in [Builders -> [EnumTypes -> Cells]]
    /\ specKnown \in [Builders -> [KnownTypes -> Cells]]
    /\ specEnums \in [Builders -> [EnumTypes -> Cells]]
    /\ specTags \in [Builders -> [Tags -> {"unread", "present", "missing"}]]
    /\ seen \in [Builders -> Generations \cup {Nothing}]

-----------------------------------------------------------------------------
(* Registration.  Anything the process runs may register while it lives.   *)

(* RegisterEnum: an identical set is a no-op.                              *)
RegisterEnum(t, d) ==
    /\ alive
    /\ enums[t] = Absent
    /\ enums' = [enums EXCEPT ![t] = d]
    /\ enumVersion' = enumVersion + 1
    /\ UNCHANGED <<known, knownVersion, validation, alive, pc, kv, ev, reads, seen>>

(* The entries of a batch that are new.                                    *)
Additions(batch) == {t \in DOMAIN batch : known[t] = Absent}

Conflicts(batch) ==
    \E t \in DOMAIN batch : known[t] # Absent /\ known[t] # batch[t]

(* RegisterKnownTypes, and RegisterKnownType as the batch of one: the whole *)
(* batch is validated first, and the version moves once if anything was     *)
(* installed.                                                               *)
RegisterKnownTypes(batch) ==
    /\ alive
    /\ ~Conflicts(batch)
    /\ Additions(batch) # {}
    /\ known' = [t \in KnownTypes |->
                   IF t \in Additions(batch) THEN batch[t] ELSE known[t]]
    /\ knownVersion' = knownVersion + 1
    /\ UNCHANGED <<enums, enumVersion, validation, alive, pc, kv, ev, reads, seen>>

(* A conflicting registration panics before it installs anything.          *)
RegistrationPanics ==
    /\ alive
    /\ \/ \E t \in EnumTypes, d \in Defs : enums[t] \notin {Absent, d}
       \/ \E t \in KnownTypes, d \in Defs : known[t] \notin {Absent, d}
    /\ alive' = FALSE
    /\ UNCHANGED <<registries, validation, pc, kv, ev, reads, seen>>

(* Mutant of RegisterValidation: accepted although the validator is built.  *)
RegisterValidationLate(tag) ==
    /\ alive
    /\ tag \notin custom
    /\ custom' = custom \cup {tag}
    /\ UNCHANGED <<registries, validatorBuilt, validatorTags, alive, pc, kv, ev,
                   reads, seen>>

(* RegisterValidation: refused once the validator is built.                *)
RegisterValidation(tag) ==
    /\ alive
    /\ ~validatorBuilt
    /\ tag \notin custom
    /\ custom' = custom \cup {tag}
    /\ UNCHANGED <<registries, validatorBuilt, validatorTags, alive, pc, kv, ev,
                   reads, seen>>

(* InitValidator, at bootstrap or from the first compiled request type.    *)
BuildValidator ==
    /\ validatorBuilt' = TRUE
    /\ validatorTags' = IF validatorBuilt THEN validatorTags ELSE custom
    /\ UNCHANGED custom

InitValidator ==
    /\ alive
    /\ ~validatorBuilt
    /\ BuildValidator
    /\ UNCHANGED <<registries, alive, pc, kv, ev, reads, seen>>

-----------------------------------------------------------------------------
(* BuildWith.                                                              *)

Blank(f) == [t \in DOMAIN f |-> Unread]

(* Mutant of ReadKnownVersion: the version is read once, before the loop.   *)
ReadKnownVersionOnce(b) ==
    /\ alive
    /\ pc[b] \in {"idle", "versions"}
    /\ pc' = [pc EXCEPT ![b] = "enumVersion"]
    /\ kv' = [kv EXCEPT ![b] = IF pc[b] = "idle" THEN knownVersion ELSE kv[b]]
    /\ planKnown' = [planKnown EXCEPT ![b] = Blank(known)]
    /\ planEnums' = [planEnums EXCEPT ![b] = Blank(enums)]
    /\ specKnown' = [specKnown EXCEPT ![b] = Blank(known)]
    /\ specEnums' = [specEnums EXCEPT ![b] = Blank(enums)]
    /\ specTags' = [specTags EXCEPT ![b] = [t \in Tags |-> "unread"]]
    /\ UNCHANGED <<registries, validation, alive, ev, seen>>

(* One turn of the loop begins: the known-type version is read, and what    *)
(* an earlier attempt compiled is discarded.                                *)
ReadKnownVersion(b) ==
    /\ alive
    /\ pc[b] \in {"idle", "versions"}
    /\ pc' = [pc EXCEPT ![b] = "enumVersion"]
    /\ kv' = [kv EXCEPT ![b] = knownVersion]
    /\ planKnown' = [planKnown EXCEPT ![b] = Blank(known)]
    /\ planEnums' = [planEnums EXCEPT ![b] = Blank(enums)]
    /\ specKnown' = [specKnown EXCEPT ![b] = Blank(known)]
    /\ specEnums' = [specEnums EXCEPT ![b] = Blank(enums)]
    /\ specTags' = [specTags EXCEPT ![b] = [t \in Tags |-> "unread"]]
    /\ UNCHANGED <<registries, validation, alive, ev, seen>>

ReadEnumVersion(b) ==
    /\ alive
    /\ pc[b] = "enumVersion"
    /\ pc' = [pc EXCEPT ![b] = "plan"]
    /\ ev' = [ev EXCEPT ![b] = enumVersion]
    /\ UNCHANGED <<registries, validation, alive, kv, reads, seen>>

(* compileValidationTags, run on every typed operation, builds the          *)
(* validator if nothing else has.                                           *)
CompileValidationTags(b) ==
    /\ alive
    /\ pc[b] = "plan"
    /\ ~validatorBuilt
    /\ BuildValidator
    /\ UNCHANGED <<registries, alive, pc, kv, ev, reads, seen>>

(* compiler.node: the request plans look up one type after the other.      *)
PlanKnownType(b, t) ==
    /\ alive
    /\ pc[b] = "plan"
    /\ planKnown[b][t] = Unread
    /\ planKnown' = [planKnown EXCEPT ![b] =
                       [u \in KnownTypes |-> IF u = t THEN known[t] ELSE planKnown[b][u]]]
    /\ UNCHANGED <<registries, validation, alive, pc, kv, ev, planEnums, specKnown, specEnums,
                   specTags, seen>>

PlanEnum(b, t) ==
    /\ alive
    /\ pc[b] = "plan"
    /\ planEnums[b][t] = Unread
    /\ planEnums' = [planEnums EXCEPT ![b] =
                       [u \in EnumTypes |-> IF u = t THEN enums[t] ELSE planEnums[b][u]]]
    /\ UNCHANGED <<registries, validation, alive, pc, kv, ev, planKnown, specKnown, specEnums,
                   specTags, seen>>

(* Every typed operation is compiled.                                      *)
PlanRead(b) ==
    /\ validatorBuilt
    /\ \A t \in KnownTypes : planKnown[b][t] # Unread
    /\ \A t \in EnumTypes : planEnums[b][t] # Unread

(* newSchemaGenerator: a snapshot of every known type.                     *)
SpecBegin(b) ==
    /\ alive
    /\ pc[b] = "plan"
    /\ PlanRead(b)
    /\ pc' = [pc EXCEPT ![b] = "spec"]
    /\ specKnown' = [specKnown EXCEPT ![b] = known]
    /\ UNCHANGED <<registries, validation, alive, kv, ev, planKnown, planEnums, specEnums,
                   specTags, seen>>

(* The compiled plans hold violations: no document is derived.             *)
SpecSkipped(b) ==
    /\ alive
    /\ pc[b] = "plan"
    /\ PlanRead(b)
    /\ pc' = [pc EXCEPT ![b] = "checkKnown"]
    /\ UNCHANGED <<registries, validation, alive, kv, ev, reads, seen>>

(* DeriveSchemaIn and applyValidateToken: one lookup each.                 *)
SpecEnum(b, t) ==
    /\ alive
    /\ pc[b] = "spec"
    /\ specEnums[b][t] = Unread
    /\ specEnums' = [specEnums EXCEPT ![b] =
                       [u \in EnumTypes |-> IF u = t THEN enums[t] ELSE specEnums[b][u]]]
    /\ UNCHANGED <<registries, validation, alive, pc, kv, ev, planKnown, planEnums,
                   specKnown, specTags, seen>>

SpecTag(b, tag) ==
    /\ alive
    /\ pc[b] = "spec"
    /\ specTags[b][tag] = "unread"
    /\ specTags' = [specTags EXCEPT ![b] =
                      [u \in Tags |-> IF u # tag THEN specTags[b][u]
                                      ELSE IF tag \in custom THEN "present" ELSE "missing"]]
    /\ UNCHANGED <<registries, validation, alive, pc, kv, ev, planKnown, planEnums,
                   specKnown, specEnums, seen>>

SpecEnd(b) ==
    /\ alive
    /\ pc[b] = "spec"
    /\ \A t \in EnumTypes : specEnums[b][t] # Unread
    /\ \A tag \in Tags : specTags[b][tag] # "unread"
    /\ pc' = [pc EXCEPT ![b] = "checkKnown"]
    /\ UNCHANGED <<registries, validation, alive, kv, ev, reads, seen>>

(* Mutant of EnumsUnchanged: any later version will do.                     *)
EnumsNotOlder(b) == ev[b] <= enumVersion

(* The two comparisons that decide whether the attempt is returned.  The    *)
(* second is evaluated only when the first succeeds.                        *)
KnownUnchanged(b) == kv[b] = knownVersion
EnumsUnchanged(b) == ev[b] = enumVersion

CheckKnown(b) ==
    /\ alive
    /\ pc[b] = "checkKnown"
    /\ pc' = [pc EXCEPT ![b] = IF KnownUnchanged(b) THEN "checkEnum" ELSE "versions"]
    /\ seen' = [seen EXCEPT ![b] = IF KnownUnchanged(b)
                                   THEN [known |-> known, enums |-> enums]
                                   ELSE seen[b]]
    /\ UNCHANGED <<registries, validation, alive, kv, ev, reads>>

CheckEnum(b) ==
    /\ alive
    /\ pc[b] = "checkEnum"
    /\ pc' = [pc EXCEPT ![b] = IF EnumsUnchanged(b) THEN "done" ELSE "versions"]
    /\ UNCHANGED <<registries, validation, alive, kv, ev, reads, seen>>

-----------------------------------------------------------------------------
Init ==
    /\ known = Defaults /\ knownVersion = 0
    /\ enums = [t \in EnumTypes |-> Absent] /\ enumVersion = 0
    /\ custom = {} /\ validatorBuilt = FALSE /\ validatorTags = {}
    /\ alive = TRUE
    /\ pc = [b \in Builders |-> "idle"]
    /\ kv = [b \in Builders |-> 0] /\ ev = [b \in Builders |-> 0]
    /\ planKnown = [b \in Builders |-> Blank(known)]
    /\ planEnums = [b \in Builders |-> Blank(enums)]
    /\ specKnown = [b \in Builders |-> Blank(known)]
    /\ specEnums = [b \in Builders |-> Blank(enums)]
    /\ specTags = [b \in Builders |-> [t \in Tags |-> "unread"]]
    /\ seen = [b \in Builders |-> Nothing]

Batches == UNION {[ts -> Defs] : ts \in SUBSET KnownTypes}

BuildStep(b) ==
    \/ ReadKnownVersion(b) \/ ReadEnumVersion(b)
    \/ CompileValidationTags(b)
    \/ \E t \in KnownTypes : PlanKnownType(b, t)
    \/ \E t \in EnumTypes : PlanEnum(b, t)
    \/ SpecBegin(b) \/ SpecSkipped(b)
    \/ \E t \in EnumTypes : SpecEnum(b, t)
    \/ \E tag \in Tags : SpecTag(b, tag)
    \/ SpecEnd(b) \/ CheckKnown(b) \/ CheckEnum(b)

Next ==
    \/ \E t \in EnumTypes, d \in Defs : RegisterEnum(t, d)
    \/ \E batch \in Batches : RegisterKnownTypes(batch)
    \/ RegistrationPanics
    \/ \E tag \in Tags : RegisterValidation(tag)
    \/ InitValidator
    \/ \E b \in Builders : BuildStep(b)

Spec == Init /\ [][Next]_vars

(* A builder is a loop in a running goroutine.                             *)
FairSpec == Spec /\ \A b \in Builders : WF_vars(BuildStep(b))

-----------------------------------------------------------------------------
HasSpec(b) ==
    /\ \A t \in KnownTypes : specKnown[b][t] # Unread
    /\ \A t \in EnumTypes : specEnums[b][t] # Unread

(* A returned application was compiled from one generation: its request    *)
(* plans and its document agree with each other and with what both         *)
(* registries held at one instant of the build, whatever was registered    *)
(* between its reads.                                                      *)
OneGeneration ==
    \A b \in Builders :
        pc[b] = "done" =>
            /\ seen[b] # Nothing
            /\ planKnown[b] = seen[b].known
            /\ planEnums[b] = seen[b].enums
            /\ HasSpec(b) => /\ specKnown[b] = seen[b].known
                             /\ specEnums[b] = seen[b].enums

(* The document lists a custom validate token exactly when the running     *)
(* validator enforces it, because the first compiled request type freezes  *)
(* the tokens before the document is derived.                              *)
DocumentedTagsEnforced ==
    \A b \in Builders, tag \in Tags :
        pc[b] = "done" =>
            /\ specTags[b][tag] = "present" => tag \in validatorTags
            /\ specTags[b][tag] = "missing" => tag \notin validatorTags

(* What makes the two invariants above inductive.  As long as a version is *)
(* the one the attempt recorded, every entry it has read is the entry of   *)
(* the registry; a version never returns to an earlier value.              *)
AttemptConsistent(b) ==
    /\ pc[b] \in {"enumVersion", "plan", "spec", "checkKnown"} =>
          /\ kv[b] <= knownVersion
          /\ kv[b] = knownVersion =>
                \A t \in KnownTypes : /\ planKnown[b][t] \in {Unread, known[t]}
                                      /\ specKnown[b][t] \in {Unread, known[t]}
    /\ pc[b] = "enumVersion" =>
          \A t \in EnumTypes : planEnums[b][t] = Unread /\ specEnums[b][t] = Unread
    /\ pc[b] \in {"plan", "spec", "checkKnown", "checkEnum"} =>
          /\ ev[b] <= enumVersion
          /\ ev[b] = enumVersion =>
                \A t \in EnumTypes : /\ planEnums[b][t] \in {Unread, enums[t]}
                                     /\ specEnums[b][t] \in {Unread, enums[t]}
    /\ pc[b] \in {"spec", "checkKnown", "checkEnum"} => PlanRead(b)
    /\ pc[b] = "checkEnum" =>
          /\ seen[b] # Nothing
          /\ planKnown[b] = seen[b].known
          /\ HasSpec(b) => specKnown[b] = seen[b].known
          /\ ev[b] = enumVersion => enums = seen[b].enums

(* The tokens a document was derived from are those of the validator.      *)
TagsFrozen ==
    /\ validatorBuilt => custom = validatorTags
    /\ \A b \in Builders, tag \in Tags :
          /\ specTags[b][tag] # "unread" => validatorBuilt
          /\ specTags[b][tag] = "present" => tag \in custom
          /\ specTags[b][tag] = "missing" => tag \notin custom

(* The inductive invariant of BuildWith: what an attempt has read belongs   *)
(* to the versions it recorded, unless these have moved on meanwhile.       *)
BuildInv ==
    /\ \A b \in Builders : AttemptConsistent(b)
    /\ OneGeneration
    /\ TagsFrozen

(* A build that keeps being retried ends: each retry costs a registration, *)
(* and the types to register are finitely many.                            *)
BuildReturns == \A b \in Builders : pc[b] = "plan" ~> (pc[b] = "done" \/ ~alive)

(* The returned application as StableSnapshot describes it.                *)
Returned(b) ==
    IF pc[b] # "done" THEN Nothing
    ELSE IF HasSpec(b) /\ (specKnown[b] # planKnown[b] \/ specEnums[b] # planEnums[b])
    THEN Mixed
    ELSE [known |-> planKnown[b], enums |-> planEnums[b]]

Abstract == INSTANCE StableSnapshot
              WITH snap <- seen, result <- [b \in Builders |-> Returned(b)]

(* BuildWith implements the snapshot it promises.                          *)
ImplementsStableSnapshot == Abstract!Spec
=============================================================================
