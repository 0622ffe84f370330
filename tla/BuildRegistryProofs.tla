------------------------ MODULE BuildRegistryProofs ------------------------
(***************************************************************************)
(* Proofs about BuildRegistry, for any registries, any number of types,    *)
(* tokens and concurrent builds.                                           *)
(***************************************************************************)
EXTENDS BuildRegistry, TLAPS

USE RegistryAssumption, NothingAssumption

(* The changes a registration, a validator and a build step make, one by   *)
(* one, keep every entry a registration, a default, or unread.             *)
LEMMA TypeStep ==
    ASSUME TypeOK, [Next]_vars
    PROVE  TypeOK'
<1> USE DEF Entries, Cells, registries, validation, reads
<1>1. ASSUME NEW t \in EnumTypes, NEW d \in Defs, RegisterEnum(t, d)
      PROVE  TypeOK'
  BY <1>1 DEF RegisterEnum, TypeOK
<1>2. ASSUME NEW batch \in Batches, RegisterKnownTypes(batch)
      PROVE  TypeOK'
  <2>1. PICK ts \in SUBSET KnownTypes : batch \in [ts -> Defs]
    BY DEF Batches
  <2>2. known' \in [KnownTypes -> Entries]
    BY <1>2, <2>1 DEF RegisterKnownTypes, Additions, TypeOK
  <2> QED  BY <1>2, <2>2 DEF RegisterKnownTypes, TypeOK
<1>3. CASE RegistrationPanics
  BY <1>3 DEF RegistrationPanics, TypeOK
<1>4. ASSUME NEW tag \in Tags, RegisterValidation(tag)
      PROVE  TypeOK'
  BY <1>4 DEF RegisterValidation, TypeOK
<1>5. CASE InitValidator
  BY <1>5 DEF InitValidator, BuildValidator, TypeOK
<1>6. ASSUME NEW b \in Builders, BuildStep(b)
      PROVE  TypeOK'
  <2>1. CASE ReadKnownVersion(b)
    <3>1. /\ Blank(known) \in [KnownTypes -> Cells]
          /\ Blank(enums) \in [EnumTypes -> Cells]
      BY DEF Blank, TypeOK
    <3> QED  BY <2>1, <3>1 DEF ReadKnownVersion, TypeOK, Places
  <2>2. CASE ReadEnumVersion(b)
    BY <2>2 DEF ReadEnumVersion, TypeOK, Places
  <2>3. CASE CompileValidationTags(b)
    BY <2>3 DEF CompileValidationTags, BuildValidator, TypeOK
  <2>4. ASSUME NEW t \in KnownTypes, PlanKnownType(b, t)
        PROVE  TypeOK'
    BY <2>4 DEF PlanKnownType, TypeOK
  <2>5. ASSUME NEW t \in EnumTypes, PlanEnum(b, t)
        PROVE  TypeOK'
    BY <2>5 DEF PlanEnum, TypeOK
  <2>6. CASE SpecBegin(b)
    BY <2>6 DEF SpecBegin, TypeOK, Places
  <2>7. CASE SpecSkipped(b) \/ SpecEnd(b)
    BY <2>7 DEF SpecSkipped, SpecEnd, TypeOK, Places
  <2>8. ASSUME NEW t \in EnumTypes, SpecEnum(b, t)
        PROVE  TypeOK'
    BY <2>8 DEF SpecEnum, TypeOK
  <2>9. ASSUME NEW tag \in Tags, SpecTag(b, tag)
        PROVE  TypeOK'
    BY <2>9 DEF SpecTag, TypeOK
  <2>10. CASE CheckKnown(b)
    <3>1. [known |-> known, enums |-> enums] \in Generations
      BY DEF Generations, TypeOK
    <3> QED  BY <2>10, <3>1 DEF CheckKnown, TypeOK, Places
  <2>11. CASE CheckEnum(b)
    BY <2>11 DEF CheckEnum, TypeOK, Places
  <2> QED
    BY <1>6, <2>1, <2>2, <2>3, <2>4, <2>5, <2>6, <2>7, <2>8, <2>9, <2>10,
       <2>11 DEF BuildStep
<1>7. CASE UNCHANGED vars
  BY <1>7 DEF vars, TypeOK
<1> QED
  BY <1>1, <1>2, <1>3, <1>4, <1>5, <1>6, <1>7 DEF Next

(* Type correctness of the registries and of every build attempt.          *)
THEOREM TypeCorrect == Spec => []TypeOK
<1>1. ASSUME Init PROVE TypeOK
  <2>1. known \in [KnownTypes -> Entries] /\ enums \in [EnumTypes -> Entries]
    BY <1>1 DEF Init, Entries
  <2>2. Blank(known) \in [KnownTypes -> Cells] /\ Blank(enums) \in [EnumTypes -> Cells]
    BY <2>1 DEF Blank, Cells
  <2> QED  BY <1>1, <2>1, <2>2 DEF Init, TypeOK, Places
<1>2. TypeOK /\ [Next]_vars => TypeOK'
  BY TypeStep
<1> QED  BY <1>1, <1>2, PTL DEF Spec

-----------------------------------------------------------------------------
(* The part of the state that one attempt's invariant looks at.            *)
LEMMA AttemptFrame ==
    ASSUME NEW b \in Builders, AttemptConsistent(b),
           UNCHANGED <<registries, pc[b], kv[b], ev[b], planKnown[b],
                       planEnums[b], specKnown[b], specEnums[b], seen[b]>>,
           validatorBuilt => validatorBuilt'
    PROVE  AttemptConsistent(b)'
  BY DEF AttemptConsistent, PlanRead, HasSpec, registries

(* A registration of a known type moves the version past every recorded    *)
(* one, so nothing is claimed any more about what an attempt read.         *)
LEMMA KnownMoves ==
    ASSUME TypeOK, NEW b \in Builders, AttemptConsistent(b),
           knownVersion' = knownVersion + 1,
           UNCHANGED <<enums, enumVersion, validation, pc, kv, ev, reads, seen>>
    PROVE  AttemptConsistent(b)'
  BY DEF AttemptConsistent, PlanRead, HasSpec, TypeOK, validation, reads

(* A registration of an enum does the same to the enum version.            *)
LEMMA EnumsMove ==
    ASSUME TypeOK, NEW b \in Builders, AttemptConsistent(b),
           enumVersion' = enumVersion + 1,
           UNCHANGED <<known, knownVersion, validation, pc, kv, ev, reads, seen>>
    PROVE  AttemptConsistent(b)'
  BY DEF AttemptConsistent, PlanRead, HasSpec, TypeOK, validation, reads

(* Once all entries of a function are read and right, the function is.     *)
LEMMA CompleteRead ==
    ASSUME NEW S, NEW f \in [S -> Cells], NEW g \in [S -> Entries],
           \A t \in S : f[t] # Unread, \A t \in S : f[t] \in {Unread, g[t]}
    PROVE  f = g
<1>1. \A t \in S : f[t] = g[t]
  OBVIOUS
<1>2. f = [t \in S |-> f[t]] /\ g = [t \in S |-> g[t]]
  OBVIOUS
<1>3. [t \in S |-> f[t]] = [t \in S |-> g[t]]
  BY <1>1
<1> QED  BY <1>2, <1>3

(* A step of builder b leaves the attempts of all the others alone.        *)
LEMMA OthersKept ==
    ASSUME TypeOK, NEW b \in Builders, BuildStep(b), NEW a \in Builders, a # b
    PROVE  /\ UNCHANGED <<registries, pc[a], kv[a], ev[a], planKnown[a],
                          planEnums[a], specKnown[a], specEnums[a], seen[a]>>
           /\ specTags'[a] = specTags[a]
           /\ validatorBuilt => validatorBuilt'
<1> USE DEF TypeOK, registries, validation, reads, BuildValidator
<1>1. CASE ReadKnownVersion(b)
  BY <1>1 DEF ReadKnownVersion
<1>2. CASE ReadEnumVersion(b)
  BY <1>2 DEF ReadEnumVersion
<1>3. CASE CompileValidationTags(b)
  BY <1>3 DEF CompileValidationTags
<1>4. ASSUME NEW t \in KnownTypes, PlanKnownType(b, t)
      PROVE  UNCHANGED <<registries, pc[a], kv[a], ev[a], planKnown[a],
                         planEnums[a], specKnown[a], specEnums[a], seen[a],
                         specTags[a], validatorBuilt>>
  BY <1>4 DEF PlanKnownType
<1>5. ASSUME NEW t \in EnumTypes, PlanEnum(b, t)
      PROVE  UNCHANGED <<registries, pc[a], kv[a], ev[a], planKnown[a],
                         planEnums[a], specKnown[a], specEnums[a], seen[a],
                         specTags[a], validatorBuilt>>
  BY <1>5 DEF PlanEnum
<1>6. CASE SpecBegin(b)
  BY <1>6 DEF SpecBegin
<1>7. CASE SpecSkipped(b) \/ SpecEnd(b)
  BY <1>7 DEF SpecSkipped, SpecEnd
<1>8. ASSUME NEW t \in EnumTypes, SpecEnum(b, t)
      PROVE  UNCHANGED <<registries, pc[a], kv[a], ev[a], planKnown[a],
                         planEnums[a], specKnown[a], specEnums[a], seen[a],
                         specTags[a], validatorBuilt>>
  BY <1>8 DEF SpecEnum
<1>9. ASSUME NEW tag \in Tags, SpecTag(b, tag)
      PROVE  UNCHANGED <<registries, pc[a], kv[a], ev[a], planKnown[a],
                         planEnums[a], specKnown[a], specEnums[a], seen[a],
                         specTags[a], validatorBuilt>>
  BY <1>9 DEF SpecTag
<1>10. CASE CheckKnown(b)
  BY <1>10 DEF CheckKnown
<1>11. CASE CheckEnum(b)
  BY <1>11 DEF CheckEnum
<1> QED
  BY <1>1, <1>2, <1>3, <1>4, <1>5, <1>6, <1>7, <1>8, <1>9, <1>10, <1>11
     DEF BuildStep

(* A builder's own step keeps its attempt consistent.                      *)
LEMMA OwnAttempt ==
    ASSUME TypeOK, NEW b \in Builders, AttemptConsistent(b), BuildStep(b)
    PROVE  AttemptConsistent(b)'
<1> USE DEF registries, validation, reads
<1>1. CASE ReadKnownVersion(b)
  <2>1. /\ \A t \in KnownTypes : Blank(known)[t] = Unread
        /\ \A t \in EnumTypes : Blank(enums)[t] = Unread
    BY DEF Blank, TypeOK
  <2>2. /\ pc'[b] = "enumVersion" /\ kv'[b] = knownVersion'
        /\ planKnown'[b] = Blank(known) /\ specKnown'[b] = Blank(known)
        /\ planEnums'[b] = Blank(enums) /\ specEnums'[b] = Blank(enums)
        /\ knownVersion' \in Nat
    BY <1>1 DEF ReadKnownVersion, TypeOK
  <2> QED  BY <2>1, <2>2 DEF AttemptConsistent
<1>2. CASE ReadEnumVersion(b)
  BY <1>2 DEF ReadEnumVersion, AttemptConsistent, TypeOK
<1>3. CASE CompileValidationTags(b)
  BY <1>3 DEF CompileValidationTags, BuildValidator, AttemptConsistent, PlanRead,
     HasSpec
<1>4. ASSUME NEW t \in KnownTypes, PlanKnownType(b, t)
      PROVE  AttemptConsistent(b)'
  BY <1>4 DEF PlanKnownType, AttemptConsistent, TypeOK
<1>5. ASSUME NEW t \in EnumTypes, PlanEnum(b, t)
      PROVE  AttemptConsistent(b)'
  BY <1>5 DEF PlanEnum, AttemptConsistent, TypeOK
<1>6. CASE SpecBegin(b)
  BY <1>6 DEF SpecBegin, AttemptConsistent, PlanRead, TypeOK
<1>7. CASE SpecSkipped(b) \/ SpecEnd(b)
  BY <1>7 DEF SpecSkipped, SpecEnd, AttemptConsistent, PlanRead, TypeOK
<1>8. ASSUME NEW t \in EnumTypes, SpecEnum(b, t)
      PROVE  AttemptConsistent(b)'
  BY <1>8 DEF SpecEnum, AttemptConsistent, PlanRead, TypeOK
<1>9. ASSUME NEW tag \in Tags, SpecTag(b, tag)
      PROVE  AttemptConsistent(b)'
  BY <1>9, AttemptFrame DEF SpecTag
<1>10. CASE CheckKnown(b)
  <2>1. CASE KnownUnchanged(b)
    <3>1. seen'[b] = [known |-> known, enums |-> enums]
          /\ pc'[b] = "checkEnum"
          /\ UNCHANGED <<registries, validation, kv, ev, reads>>
      BY <1>10, <2>1 DEF CheckKnown, TypeOK
    <3>2. PlanRead(b) /\ kv[b] = knownVersion
      BY <1>10, <2>1 DEF CheckKnown, AttemptConsistent, KnownUnchanged
    <3>3. planKnown[b] = known
      BY <1>10, <3>2, CompleteRead
         DEF AttemptConsistent, CheckKnown, PlanRead, TypeOK
    <3>4. HasSpec(b) => specKnown[b] = known
      BY <1>10, <3>2, CompleteRead
         DEF AttemptConsistent, CheckKnown, HasSpec, TypeOK
    <3>5. seen'[b] \in Generations
      BY <3>1 DEF Generations, TypeOK
    <3> QED
      BY <1>10, <3>1, <3>2, <3>3, <3>4, <3>5
         DEF AttemptConsistent, CheckKnown, PlanRead, HasSpec
  <2>2. CASE ~KnownUnchanged(b)
    BY <1>10, <2>2 DEF CheckKnown, AttemptConsistent, TypeOK
  <2> QED  BY <2>1, <2>2
<1>11. CASE CheckEnum(b)
  BY <1>11 DEF CheckEnum, AttemptConsistent, TypeOK
<1> QED
  BY <1>1, <1>2, <1>3, <1>4, <1>5, <1>6, <1>7, <1>8, <1>9, <1>10, <1>11
     DEF BuildStep

(* What it means for one builder to have returned one generation.          *)
Whole(b) ==
    pc[b] = "done" =>
        /\ seen[b] # Nothing
        /\ planKnown[b] = seen[b].known
        /\ planEnums[b] = seen[b].enums
        /\ HasSpec(b) => /\ specKnown[b] = seen[b].known
                         /\ specEnums[b] = seen[b].enums

(* A builder returns only what both comparisons vouch for.                 *)
LEMMA OwnReturn ==
    ASSUME TypeOK, NEW b \in Builders, AttemptConsistent(b), BuildStep(b)
    PROVE  Whole(b)'
<1> USE DEF registries, validation, reads
<1>1. CASE CheckEnum(b)
  <2>1. CASE EnumsUnchanged(b)
    <3>1. /\ PlanRead(b) /\ ev[b] = enumVersion /\ enums = seen[b].enums
          /\ seen[b] # Nothing /\ planKnown[b] = seen[b].known
          /\ HasSpec(b) => specKnown[b] = seen[b].known
      BY <1>1, <2>1 DEF CheckEnum, AttemptConsistent, EnumsUnchanged
    <3>2. planEnums[b] = enums
      BY <1>1, <3>1, CompleteRead
         DEF AttemptConsistent, CheckEnum, PlanRead, TypeOK
    <3>3. HasSpec(b) => specEnums[b] = enums
      BY <1>1, <3>1, CompleteRead
         DEF AttemptConsistent, CheckEnum, HasSpec, TypeOK
    <3> QED  BY <1>1, <3>1, <3>2, <3>3 DEF Whole, CheckEnum, HasSpec
  <2>2. CASE ~EnumsUnchanged(b)
    BY <1>1, <2>2 DEF CheckEnum, Whole, TypeOK
  <2> QED  BY <2>1, <2>2
<1>2. CASE ~CheckEnum(b)
  <2>1. pc'[b] # "done"
    BY <1>2 DEF BuildStep, ReadKnownVersion, ReadEnumVersion,
       CompileValidationTags, PlanKnownType, PlanEnum, SpecBegin, SpecSkipped,
       SpecEnum, SpecTag, SpecEnd, CheckKnown, TypeOK
  <2> QED  BY <2>1 DEF Whole
<1> QED  BY <1>1, <1>2

(* The tokens stay frozen once the validator is built.                     *)
LEMMA TagsStep ==
    ASSUME TypeOK, BuildInv, [Next]_vars
    PROVE  TagsFrozen'
<1> USE DEF registries, validation, reads
<1>1. CASE UNCHANGED <<validation, specTags>>
  BY <1>1 DEF BuildInv, TagsFrozen
<1>2. ASSUME NEW tag \in Tags, RegisterValidation(tag)
      PROVE  TagsFrozen'
  BY <1>2 DEF RegisterValidation, BuildInv, TagsFrozen
<1>3. CASE BuildValidator /\ UNCHANGED specTags
  BY <1>3 DEF BuildValidator, BuildInv, TagsFrozen
<1>4. ASSUME NEW b \in Builders, ReadKnownVersion(b)
      PROVE  TagsFrozen'
  BY <1>4 DEF ReadKnownVersion, BuildInv, TagsFrozen, TypeOK
<1>5. ASSUME NEW b \in Builders, NEW tag \in Tags, SpecTag(b, tag)
      PROVE  TagsFrozen'
  <2>1. validatorBuilt
    BY <1>5 DEF SpecTag, BuildInv, AttemptConsistent, PlanRead
  <2> QED  BY <1>5, <2>1 DEF SpecTag, BuildInv, TagsFrozen, TypeOK
<1> QED
  BY <1>1, <1>2, <1>3, <1>4, <1>5 DEF Next, vars, BuildStep, RegisterEnum,
     RegisterKnownTypes, RegistrationPanics, InitValidator, ReadEnumVersion,
     CompileValidationTags, PlanKnownType, PlanEnum, SpecBegin, SpecSkipped,
     SpecEnum, SpecEnd, CheckKnown, CheckEnum

(* Every step preserves the inductive invariant.                           *)
LEMMA BuildInvStep ==
    ASSUME TypeOK, BuildInv, [Next]_vars
    PROVE  BuildInv'
<1> SUFFICES ASSUME NEW a \in Builders
             PROVE  AttemptConsistent(a)' /\ Whole(a)'
  BY TagsStep DEF BuildInv, OneGeneration, Whole
<1> USE DEF registries, validation, reads
<1>0. AttemptConsistent(a) /\ Whole(a)
  BY DEF BuildInv, OneGeneration, Whole
<1>1. ASSUME NEW t \in EnumTypes, NEW d \in Defs, RegisterEnum(t, d)
      PROVE  AttemptConsistent(a)' /\ Whole(a)'
  BY <1>0, <1>1, EnumsMove DEF RegisterEnum, Whole, HasSpec
<1>2. ASSUME NEW batch \in Batches, RegisterKnownTypes(batch)
      PROVE  AttemptConsistent(a)' /\ Whole(a)'
  BY <1>0, <1>2, KnownMoves DEF RegisterKnownTypes, Whole, HasSpec
<1>3. ASSUME \/ RegistrationPanics \/ InitValidator \/ UNCHANGED vars
             \/ \E tag \in Tags : RegisterValidation(tag)
      PROVE  AttemptConsistent(a)' /\ Whole(a)'
  <2>1. /\ UNCHANGED <<registries, pc, kv, ev, reads, seen>>
        /\ validatorBuilt => validatorBuilt'
    BY <1>3 DEF RegistrationPanics, InitValidator, BuildValidator,
       RegisterValidation, vars
  <2> QED  BY <1>0, <2>1, AttemptFrame DEF Whole, HasSpec
<1>4. ASSUME NEW b \in Builders, BuildStep(b)
      PROVE  AttemptConsistent(a)' /\ Whole(a)'
  <2>1. CASE a = b
    BY <1>0, <1>4, <2>1, OwnAttempt, OwnReturn
  <2>2. CASE a # b
    <3>1. UNCHANGED <<registries, pc[a], kv[a], ev[a], planKnown[a],
                      planEnums[a], specKnown[a], specEnums[a], seen[a]>>
          /\ (validatorBuilt => validatorBuilt')
      BY <1>4, <2>2, OthersKept
    <3> QED  BY <1>0, <3>1, AttemptFrame DEF Whole, HasSpec
  <2> QED  BY <2>1, <2>2
<1> QED
  BY <1>1, <1>2, <1>3, <1>4 DEF Next

(* The inductive invariant holds in every state of the specification.      *)
LEMMA BuildInductive == Spec => [](TypeOK /\ BuildInv)
<1>1. Init => BuildInv
  BY DEF Init, BuildInv, AttemptConsistent, OneGeneration, TagsFrozen
<1>2. TypeOK /\ BuildInv /\ [Next]_vars => BuildInv'
  BY BuildInvStep
<1> QED  BY <1>1, <1>2, TypeCorrect, PTL DEF Spec

(* What each build has read so far is explained by the versions it saw     *)
(* first (BuildWith), at every point of every attempt.                     *)
THEOREM BuildInvariant == Spec => []BuildInv
<1> QED  BY BuildInductive, PTL

(* Whatever is registered while BuildWith runs, the application it returns *)
(* was compiled from one generation of both registries.                    *)
THEOREM BuildIsAtomic == Spec => []OneGeneration
<1>1. BuildInv => OneGeneration
  BY DEF BuildInv
<1> QED  BY <1>1, BuildInductive, PTL

(* The document and the running validator agree on every custom token.     *)
THEOREM TagsAgree == Spec => []DocumentedTagsEnforced
<1>1. BuildInv => DocumentedTagsEnforced
  BY DEF BuildInv, TagsFrozen, DocumentedTagsEnforced
<1> QED  BY <1>1, BuildInductive, PTL

-----------------------------------------------------------------------------
(* Every step of the retry loop is a step of StableSnapshot or changes     *)
(* nothing it can see.                                                     *)
LEMMA StepRefines ==
    ASSUME TypeOK, BuildInv, TypeOK', BuildInv', [Next]_vars
    PROVE  [Abstract!Next]_(Abstract!vars)
<1> USE DEF registries, validation, reads
<1> DEFINE result == [b \in Builders |-> Returned(b)]
<1>1. ASSUME NEW t \in EnumTypes, NEW d \in Defs, RegisterEnum(t, d)
      PROVE  Abstract!Register
  BY <1>1 DEF RegisterEnum, Abstract!Register, Returned, HasSpec, TypeOK
<1>2. ASSUME NEW batch \in Batches, RegisterKnownTypes(batch)
      PROVE  Abstract!Register
  BY <1>2 DEF RegisterKnownTypes, Additions, Abstract!Register, Returned,
     HasSpec, TypeOK
<1>3. ASSUME \/ RegistrationPanics \/ InitValidator \/ UNCHANGED vars
             \/ \E tag \in Tags : RegisterValidation(tag)
      PROVE  UNCHANGED Abstract!vars
  <2>1. UNCHANGED <<registries, pc, reads, seen>>
    BY <1>3 DEF RegistrationPanics, InitValidator, RegisterValidation, vars
  <2> QED  BY <2>1 DEF Abstract!vars, Returned, HasSpec
<1>4. ASSUME NEW b \in Builders, BuildStep(b)
      PROVE  \/ UNCHANGED Abstract!vars
             \/ Abstract!Look(b) \/ Abstract!Return(b)
  <2>1. \A a \in Builders \ {b} : Returned(a)' = Returned(a)
    BY <1>4, OthersKept DEF Returned, HasSpec
  <2>2. pc[b] # "done" /\ Returned(b) = Nothing
    BY <1>4 DEF Returned, BuildStep, ReadKnownVersion, ReadEnumVersion,
       CompileValidationTags, PlanKnownType, PlanEnum, SpecBegin, SpecSkipped,
       SpecEnum, SpecTag, SpecEnd, CheckKnown, CheckEnum
  <2>3. CASE CheckEnum(b) /\ EnumsUnchanged(b)
    <3>1. /\ pc'[b] = "done" /\ Whole(b)'
          /\ UNCHANGED <<registries, seen, reads>>
      BY <2>3 DEF CheckEnum, TypeOK, BuildInv, OneGeneration, Whole
    <3>2. seen[b] \in Generations /\ seen[b] # Nothing
      BY <3>1 DEF Whole, TypeOK
    <3>3. Returned(b)' = [known |-> seen[b].known, enums |-> seen[b].enums]
      BY <3>1 DEF Returned, Whole
    <3>4. Returned(b)' = seen[b]
      BY <3>2, <3>3 DEF Generations
    <3>5. result' = [result EXCEPT ![b] = seen[b]]
      BY <2>1, <3>4
    <3> QED  BY <2>2, <3>1, <3>2, <3>5 DEF Abstract!Return
  <2>4. CASE CheckKnown(b) /\ KnownUnchanged(b)
    <3>1. /\ pc'[b] = "checkEnum"
          /\ seen' = [seen EXCEPT ![b] = [known |-> known, enums |-> enums]]
          /\ UNCHANGED <<registries, reads>>
      BY <2>4 DEF CheckKnown, TypeOK
    <3>2. result' = result
      BY <2>1, <2>2, <3>1 DEF Returned
    <3> QED  BY <2>2, <3>1, <3>2 DEF Abstract!Look, Abstract!Generation
  <2>5. CASE ~(CheckEnum(b) /\ EnumsUnchanged(b))
             /\ ~(CheckKnown(b) /\ KnownUnchanged(b))
    <3>1. pc'[b] # "done" /\ UNCHANGED <<registries, seen>>
      BY <1>4, <2>5 DEF BuildStep, ReadKnownVersion, ReadEnumVersion,
         CompileValidationTags, PlanKnownType, PlanEnum, SpecBegin, SpecSkipped,
         SpecEnum, SpecTag, SpecEnd, CheckKnown, CheckEnum, TypeOK
    <3>2. result' = result
      BY <2>1, <2>2, <3>1 DEF Returned
    <3> QED  BY <3>1, <3>2 DEF Abstract!vars
  <2> QED  BY <2>3, <2>4, <2>5
<1> QED
  BY <1>1, <1>2, <1>3, <1>4 DEF Next, Abstract!Next

(* BuildWith implements StableSnapshot: to its caller, a build that read    *)
(* the registries piecemeal is one that read them in a single instant.     *)
THEOREM BuildRefinesSnapshot == Spec => ImplementsStableSnapshot
<1>1. Init => Abstract!Init
  BY DEF Init, Abstract!Init, Returned
<1>2. (TypeOK /\ BuildInv) /\ (TypeOK /\ BuildInv)' /\ [Next]_vars
        => [Abstract!Next]_(Abstract!vars)
  BY StepRefines
<1> QED
  BY <1>1, <1>2, BuildInductive, PTL
     DEF Spec, Abstract!Spec, ImplementsStableSnapshot
=============================================================================
