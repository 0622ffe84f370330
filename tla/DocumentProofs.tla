--------------------------- MODULE DocumentProofs ---------------------------
(***************************************************************************)
(* Theorems about how the document comes about, for every set of fields,   *)
(* tokens and values, every type graph and any number of generator runs.   *)
(* A behaviour of Document follows one of its three parts, so each proof   *)
(* takes the steps of its own part and finds the others resting.           *)
(***************************************************************************)
EXTENDS Document, SequenceTheorems, FiniteSetTheorems, TLAPS

-----------------------------------------------------------------------------
(* The generator (cmd/openapi).                                            *)

Files == GeneratorTypeOK /\ GeneratorInv

LEMMA FilesInit == Init => Files
  <1> SUFFICES ASSUME Init PROVE Files OBVIOUS
  <1>1. GeneratorInit BY DEF Init
  <1>2. GeneratorTypeOK
    BY <1>1 DEF GeneratorInit, GeneratorTypeOK, Steps
  <1>3. GeneratorInv
    BY <1>1, GeneratorAssumption
    DEF GeneratorInit, GeneratorInv, PublishedWhole, PublisherDone, FileTraced, RunReady,
        Working
  <1> QED BY <1>2, <1>3 DEF Files

LEMMA FilesStep == ASSUME Files, NEW r \in Runs, RunStep(r) PROVE Files'
  <1> USE GeneratorAssumption DEF Go, GeneratorTypeOK
  <1>t. GeneratorTypeOK BY DEF Files
  <1>p. PublishedWhole BY DEF Files, GeneratorInv
  <1>d. PublisherDone BY DEF Files, GeneratorInv
  <1>f. \A n \in TempNames : FileTraced(n) BY DEF Files, GeneratorInv
  <1>r. \A q \in Runs : RunReady(q) BY DEF Files, GeneratorInv
  <1>w. ASSUME spec.of # Original, spec.by \notin robbed
        PROVE  /\ spec.of \in Runs /\ written[spec.of] = "whole"
               /\ step[spec.of] \in {"remove", "exit 0", "killed"}
    BY <1>t, <1>p, <1>d, <1>w DEF PublishedWhole, PublisherDone
  <1>1. CASE Compile(r)
    <2>1. GeneratorTypeOK' BY <1>t, <1>1 DEF Compile, Steps
    <2>2. PublishedWhole' BY <1>t, <1>p, <1>d, <1>w, <1>1 DEF Compile, PublishedWhole, PublisherDone
    <2>3. PublisherDone' BY <1>t, <1>d, <1>1 DEF Compile, PublisherDone
    <2>4. ASSUME NEW n \in TempNames PROVE FileTraced(n)'
      <3>1. FileTraced(n) BY <1>f
      <3> QED BY <1>t, <3>1, <1>1 DEF Compile, FileTraced, Working
    <2>5. ASSUME NEW q \in Runs PROVE RunReady(q)'
      <3>1. RunReady(q) BY <1>r
      <3> QED BY <1>t, <3>1, <1>1 DEF Compile, RunReady, Working
    <2> QED BY <2>1, <2>2, <2>3, <2>4, <2>5 DEF Files, GeneratorInv
  <1>2. CASE CreateTemp(r)
    <2>0. UNCHANGED <<written, spec, robbed, stuck, refused>> /\ step[r] = "create"
      BY <1>2 DEF CreateTemp
    <2>2. PublishedWhole' BY <1>p, <2>0 DEF PublishedWhole
    <2>a. CASE Go(r, "exit 1") /\ UNCHANGED <<temp, directory>>
      <3>1. GeneratorTypeOK' BY <1>t, <2>0, <2>a DEF Steps
      <3>3. PublisherDone' BY <1>t, <1>d, <2>0, <2>a DEF PublisherDone
      <3>4. ASSUME NEW n \in TempNames PROVE FileTraced(n)'
        <4>1. FileTraced(n) BY <1>f
        <4> QED BY <1>t, <4>1, <2>0, <2>a DEF FileTraced, Working
      <3>5. ASSUME NEW q \in Runs PROVE RunReady(q)'
        <4>1. RunReady(q) BY <1>r
        <4> QED BY <1>t, <4>1, <2>0, <2>a DEF RunReady, Working
      <3> QED BY <2>2, <3>1, <3>3, <3>4, <3>5 DEF Files, GeneratorInv
    <2>b. CASE ~(Go(r, "exit 1") /\ UNCHANGED <<temp, directory>>)
      <3> PICK m \in TempNames :
             /\ directory[m] = Nothing
             /\ temp' = [temp EXCEPT ![r] = m]
             /\ directory' = [directory EXCEPT ![m] = r]
             /\ step' = [step EXCEPT ![r] = "chmod"]
        BY <1>2, <2>b DEF CreateTemp
      <3>1. GeneratorTypeOK' BY <1>t, <2>0 DEF Steps
      <3>3. PublisherDone' BY <1>t, <1>d, <2>0 DEF PublisherDone
      <3>4. ASSUME NEW n \in TempNames PROVE FileTraced(n)'
        <4>1. FileTraced(n) BY <1>f
        <4> QED BY <1>t, <4>1, <2>0 DEF FileTraced, Working
      <3>5. ASSUME NEW q \in Runs PROVE RunReady(q)'
        <4>1. RunReady(q) BY <1>r
        <4>2. q # r /\ step[q] \in Working => temp[q] # m \/ q \in robbed
          BY <1>t, <4>1 DEF RunReady
        <4>3. CASE q = r BY <1>t, <4>1, <2>0, <4>3 DEF RunReady, Working
        <4>4. CASE q # r BY <1>t, <4>1, <4>2, <2>0, <4>4 DEF RunReady, Working
        <4> QED BY <4>3, <4>4
      <3> QED BY <2>2, <3>1, <3>3, <3>4, <3>5 DEF Files, GeneratorInv
    <2> QED BY <2>a, <2>b
  <1>3. CASE Chmod(r)
    <2>1. GeneratorTypeOK' BY <1>t, <1>3 DEF Chmod, Steps
    <2>2. PublishedWhole' BY <1>t, <1>p, <1>d, <1>w, <1>3 DEF Chmod, PublishedWhole, PublisherDone
    <2>3. PublisherDone' BY <1>t, <1>d, <1>3 DEF Chmod, PublisherDone
    <2>4. ASSUME NEW n \in TempNames PROVE FileTraced(n)'
      <3>1. FileTraced(n) BY <1>f
      <3> QED BY <1>t, <3>1, <1>3 DEF Chmod, FileTraced, Working
    <2>5. ASSUME NEW q \in Runs PROVE RunReady(q)'
      <3>1. RunReady(q) BY <1>r
      <3> QED BY <1>t, <3>1, <1>3 DEF Chmod, RunReady, Working
    <2> QED BY <2>1, <2>2, <2>3, <2>4, <2>5 DEF Files, GeneratorInv
  <1>4. CASE Write(r)
    <2>1. GeneratorTypeOK' BY <1>t, <1>4 DEF Write, Steps
    <2>2. PublishedWhole' BY <1>t, <1>p, <1>d, <1>w, <1>4 DEF Write, PublishedWhole, PublisherDone
    <2>3. PublisherDone' BY <1>t, <1>d, <1>4 DEF Write, PublisherDone
    <2>4. ASSUME NEW n \in TempNames PROVE FileTraced(n)'
      <3>1. FileTraced(n) BY <1>f
      <3>2. /\ temp' = temp /\ directory' = directory /\ stuck' = stuck
            /\ step[r] \in Working /\ step'[r] \in Working
            /\ \A q \in Runs : q # r => step'[q] = step[q]
        BY <1>t, <1>4 DEF Write, Working
      <3> QED BY <3>1, <3>2 DEF FileTraced
    <2>5. ASSUME NEW q \in Runs PROVE RunReady(q)'
      <3>1. RunReady(q) BY <1>r
      <3> QED BY <1>t, <3>1, <1>4 DEF Write, RunReady, Working
    <2> QED BY <2>1, <2>2, <2>3, <2>4, <2>5 DEF Files, GeneratorInv
  <1>5. CASE Close(r)
    <2>1. GeneratorTypeOK' BY <1>t, <1>5 DEF Close, Steps
    <2>2. PublishedWhole' BY <1>t, <1>p, <1>d, <1>w, <1>5 DEF Close, PublishedWhole, PublisherDone
    <2>3. PublisherDone' BY <1>t, <1>d, <1>5 DEF Close, PublisherDone
    <2>4. ASSUME NEW n \in TempNames PROVE FileTraced(n)'
      <3>1. FileTraced(n) BY <1>f
      <3> QED BY <1>t, <3>1, <1>5 DEF Close, FileTraced, Working
    <2>5. ASSUME NEW q \in Runs PROVE RunReady(q)'
      <3>1. RunReady(q) BY <1>r
      <3> QED BY <1>t, <3>1, <1>5 DEF Close, RunReady, Working
    <2> QED BY <2>1, <2>2, <2>3, <2>4, <2>5 DEF Files, GeneratorInv
  <1>6. CASE Rename(r)
    <2>0. /\ step[r] = "rename" /\ UNCHANGED <<temp, written, stuck, refused>>
          /\ temp[r] \in TempNames /\ written[r] = "whole" /\ refused[r] = "no"
          /\ directory[temp[r]] = r \/ r \in robbed
      BY <1>r, <1>6 DEF Rename, RunReady, Working
    <2>a. CASE Go(r, "remove failed") /\ UNCHANGED <<spec, robbed, directory>>
      <3>1. GeneratorTypeOK' BY <1>t, <2>0, <2>a DEF Steps
      <3>2. PublishedWhole' BY <1>p, <2>0, <2>a DEF PublishedWhole
      <3>3. PublisherDone' BY <1>t, <1>d, <2>0, <2>a DEF PublisherDone
      <3>4. ASSUME NEW n \in TempNames PROVE FileTraced(n)'
        <4>1. FileTraced(n) BY <1>f
        <4> QED BY <1>t, <4>1, <2>0, <2>a DEF FileTraced, Working
      <3>5. ASSUME NEW q \in Runs PROVE RunReady(q)'
        <4>1. RunReady(q) BY <1>r
        <4> QED BY <1>t, <4>1, <2>0, <2>a DEF RunReady, Working
      <3> QED BY <3>1, <3>2, <3>3, <3>4, <3>5 DEF Files, GeneratorInv
    <2>b. CASE ~(Go(r, "remove failed") /\ UNCHANGED <<spec, robbed, directory>>)
      <3> DEFINE o == directory[temp[r]]
      <3>0. /\ o # Nothing /\ spec' = [of |-> o, by |-> r]
            /\ robbed' = robbed \union ({o} \ {r})
            /\ directory' = [directory EXCEPT ![temp[r]] = Nothing]
            /\ step' = [step EXCEPT ![r] = "remove"]
        BY <1>6, <2>b DEF Rename
      <3>o. o \in Runs BY <1>t, <2>0, <3>0
      <3>f. FileTraced(temp[r]) BY <1>f, <2>0
      <3>m. temp[o] = temp[r] /\ temp[o] # Nothing BY <2>0, <3>o, <3>f DEF FileTraced
      <3>y. refused[o] = "no" BY <1>r, <3>o, <3>m DEF RunReady
      <3>z. \A n \in TempNames : n # temp[r] => directory'[n] = directory[n]
        BY <1>t, <2>0, <3>0
      <3>e. directory'[temp[r]] = Nothing BY <1>t, <2>0, <3>0
      <3>g. o = r \/ r \in robbed BY <2>0
      <3> HIDE DEF o
      <3>1. GeneratorTypeOK' BY <1>t, <2>0, <3>0, <3>o DEF Steps
      <3>2. PublishedWhole' BY <2>0, <3>0, <3>o, <3>g, <3>y DEF PublishedWhole
      <3>3. PublisherDone' BY <1>t, <3>0, <3>o, <3>g DEF PublisherDone
      <3>4. ASSUME NEW n \in TempNames PROVE FileTraced(n)'
        <4>1. FileTraced(n) BY <1>f
        <4>2. ASSUME NEW q \in Runs, directory'[n] = q
              PROVE  /\ temp'[q] = n
                     /\ step'[q] \in Working \union {"killed"}
                        \/ (step'[q] = "exit 1" /\ q \in stuck')
          <5>1. n # temp[r] BY <3>e, <4>2
          <5>2. directory[n] = q BY <3>z, <4>2, <5>1
          <5>3. q # r BY <4>1, <5>1, <5>2 DEF FileTraced
          <5> QED BY <1>t, <2>0, <3>0, <4>1, <5>2, <5>3 DEF FileTraced
        <4> QED BY <4>2 DEF FileTraced
      <3>5. ASSUME NEW q \in Runs PROVE RunReady(q)'
        <4>1. RunReady(q) BY <1>r
        <4>2. q # r /\ step[q] \in Working => directory'[temp[q]] = q \/ q \in robbed'
          <5>1. SUFFICES ASSUME q # r, step[q] \in Working, q \notin robbed'
                         PROVE  directory'[temp[q]] = q
            OBVIOUS
          <5>2. temp[q] \in TempNames /\ directory[temp[q]] = q
            BY <3>0, <4>1, <5>1 DEF RunReady
          <5>3. temp[q] # temp[r] BY <3>0, <5>1, <5>2 DEF o
          <5> QED BY <3>z, <5>2, <5>3
        <4>3. CASE q = r BY <1>t, <4>1, <2>0, <3>0, <4>3 DEF RunReady, Working
        <4>4. CASE q # r BY <1>t, <4>1, <4>2, <2>0, <3>0, <4>4 DEF RunReady
        <4> QED BY <4>3, <4>4
      <3> QED BY <3>1, <3>2, <3>3, <3>4, <3>5 DEF Files, GeneratorInv
    <2> QED BY <2>a, <2>b
  <1>7. CASE Remove(r)
    <2>0. /\ UNCHANGED <<temp, written, spec, refused>> /\ temp[r] \in TempNames
          /\ \/ step[r] = "remove" /\ step' = [step EXCEPT ![r] = "exit 0"]
             \/ step[r] = "remove failed" /\ step' = [step EXCEPT ![r] = "exit 1"]
      BY <1>r, <1>7 DEF Remove, RunReady, Working
    <2>2. robbed \subseteq robbed' BY <1>7 DEF Remove
    <2>3. PublishedWhole' BY <1>p, <2>0, <2>2 DEF PublishedWhole
    <2>4. PublisherDone' BY <1>t, <1>d, <2>0, <2>2 DEF PublisherDone
    <2>a. CASE stuck' = stuck \union {r} /\ UNCHANGED <<directory, robbed>>
      <3>1. GeneratorTypeOK' BY <1>t, <2>0, <2>a DEF Steps
      <3>4. ASSUME NEW n \in TempNames PROVE FileTraced(n)'
        <4>1. FileTraced(n) BY <1>f
        <4>2. directory[n] # r \/ step[r] = "remove failed"
          BY <2>0, <4>1 DEF FileTraced, Working
        <4> QED BY <1>t, <4>1, <4>2, <2>0, <2>a DEF FileTraced, Working
      <3>5. ASSUME NEW q \in Runs PROVE RunReady(q)'
        <4>1. RunReady(q) BY <1>r
        <4> QED BY <1>t, <4>1, <2>0, <2>a DEF RunReady, Working
      <3> QED BY <2>3, <2>4, <3>1, <3>4, <3>5 DEF Files, GeneratorInv
    <2>b. CASE ~(stuck' = stuck \union {r} /\ UNCHANGED <<directory, robbed>>)
      <3> DEFINE o == directory[temp[r]]
      <3>0. /\ directory' = [directory EXCEPT ![temp[r]] = Nothing]
            /\ robbed' = robbed \union ({o} \ {r, Nothing}) /\ stuck' = stuck
        BY <1>7, <2>b DEF Remove
      <3>o. o \in Runs \union {Nothing} BY <1>t, <2>0
      <3>z. \A n \in TempNames : n # temp[r] => directory'[n] = directory[n]
        BY <1>t, <2>0, <3>0
      <3>e. directory'[temp[r]] = Nothing BY <1>t, <2>0, <3>0
      <3> HIDE DEF o
      <3>1. GeneratorTypeOK' BY <1>t, <2>0, <3>0, <3>o DEF Steps
      <3>4. ASSUME NEW n \in TempNames PROVE FileTraced(n)'
        <4>1. FileTraced(n) BY <1>f
        <4>2. ASSUME NEW q \in Runs, directory'[n] = q
              PROVE  /\ temp'[q] = n
                     /\ step'[q] \in Working \union {"killed"}
                        \/ (step'[q] = "exit 1" /\ q \in stuck')
          <5>1. n # temp[r] BY <3>e, <4>2
          <5>2. directory[n] = q BY <3>z, <4>2, <5>1
          <5>3. q # r BY <4>1, <5>1, <5>2 DEF FileTraced
          <5> QED BY <1>t, <2>0, <3>0, <4>1, <5>2, <5>3 DEF FileTraced
        <4> QED BY <4>2 DEF FileTraced
      <3>5. ASSUME NEW q \in Runs PROVE RunReady(q)'
        <4>1. RunReady(q) BY <1>r
        <4>2. q # r /\ step[q] \in Working => directory'[temp[q]] = q \/ q \in robbed'
          <5>1. SUFFICES ASSUME q # r, step[q] \in Working, q \notin robbed'
                         PROVE  directory'[temp[q]] = q
            OBVIOUS
          <5>2. temp[q] \in TempNames /\ directory[temp[q]] = q
            BY <3>0, <4>1, <5>1 DEF RunReady
          <5>3. temp[q] # temp[r] BY <3>0, <5>1, <5>2 DEF o
          <5> QED BY <3>z, <5>2, <5>3
        <4>3. CASE q = r BY <1>t, <4>1, <2>0, <3>0, <4>3 DEF RunReady, Working
        <4>4. CASE q # r BY <1>t, <4>1, <4>2, <2>0, <3>0, <4>4 DEF RunReady
        <4> QED BY <4>3, <4>4
      <3> QED BY <2>3, <2>4, <3>1, <3>4, <3>5 DEF Files, GeneratorInv
    <2> QED BY <2>a, <2>b
  <1>8. CASE Killed(r)
    <2>1. GeneratorTypeOK' BY <1>t, <1>8 DEF Killed, Steps
    <2>2. PublishedWhole' BY <1>t, <1>p, <1>d, <1>w, <1>8 DEF Killed, PublishedWhole, PublisherDone
    <2>3. PublisherDone' BY <1>t, <1>d, <1>8 DEF Killed, PublisherDone
    <2>4. ASSUME NEW n \in TempNames PROVE FileTraced(n)'
      <3>1. FileTraced(n) BY <1>f
      <3> QED BY <1>t, <3>1, <1>8 DEF Killed, FileTraced, Working
    <2>5. ASSUME NEW q \in Runs PROVE RunReady(q)'
      <3>1. RunReady(q) BY <1>r
      <3> QED BY <1>t, <3>1, <1>8 DEF Killed, RunReady, Working
    <2> QED BY <2>1, <2>2, <2>3, <2>4, <2>5 DEF Files, GeneratorInv
  <1> QED BY <1>1, <1>2, <1>3, <1>4, <1>5, <1>6, <1>7, <1>8 DEF RunStep

LEMMA FilesRest == ASSUME Files, UNCHANGED generatorVars PROVE Files'
  <1>1. GeneratorTypeOK' BY DEF generatorVars, Files, GeneratorTypeOK
  <1>2. (PublishedWhole /\ PublisherDone)'
    BY DEF generatorVars, Files, GeneratorInv, PublishedWhole, PublisherDone
  <1>3. \A n \in TempNames : FileTraced(n)'
    BY DEF generatorVars, Files, GeneratorInv, FileTraced
  <1>4. \A r \in Runs : RunReady(r)'
    BY DEF generatorVars, Files, GeneratorInv, RunReady
  <1> QED BY <1>1, <1>2, <1>3, <1>4 DEF Files, GeneratorInv

LEMMA FilesNext == Files /\ [Next]_documentVars => Files'
  <1> SUFFICES ASSUME Files, [Next]_documentVars PROVE Files' OBVIOUS
  <1>1. CASE GeneratorNext BY <1>1, FilesStep DEF GeneratorNext
  <1>2. CASE UNCHANGED generatorVars BY <1>2, FilesRest
  <1> QED BY <1>1, <1>2 DEF Next, documentVars

LEMMA FilesAlways == Spec => []Files
  BY FilesInit, FilesNext, PTL DEF Spec

(* The inductive invariant of cmd/openapi.                                  *)
THEOREM GeneratorInvariant == Spec => []GeneratorInv
  <1>1. Files => GeneratorInv BY DEF Files
  <1> QED BY <1>1, FilesAlways, PTL

(* openapi.json comes from accepted runs only, whatever fails or is killed,  *)
(* and it is whole unless its publisher had lost its file to another run.    *)
THEOREM NothingHalfPublished == Spec => []PublishedWhole
  <1>1. Files => PublishedWhole BY DEF Files, GeneratorInv
  <1> QED BY <1>1, FilesAlways, PTL

(* A run that ends by itself leaves its temporary file only when its own     *)
(* Remove failed, and never when it ends with success.                       *)
THEOREM LeftOnlyWhenStuck == Spec => []NoLitter
  <1>1. ASSUME Files, NEW n \in TempNames, directory[n] # Nothing,
               step[directory[n]] \in {"exit 0", "exit 1"}
        PROVE  step[directory[n]] = "exit 1" /\ directory[n] \in stuck
    <2>1. FileTraced(n) /\ directory[n] \in Runs
      BY <1>1 DEF Files, GeneratorTypeOK, GeneratorInv
    <2> QED BY <1>1, <2>1 DEF FileTraced, Working
  <1>2. Files => NoLitter BY <1>1 DEF NoLitter
  <1> QED BY <1>2, FilesAlways, PTL

-----------------------------------------------------------------------------
(* The merge of request and response components (schema.go).               *)

LEMMA CanonicalSchemaIs ==
  ASSUME NEW set, NEW t, NEW ctx
  PROVE  CanonicalSchema(set, <<t, ctx>>) =
           [shape |-> graph[t].kind, object |-> Closed(t, ctx),
            refs |-> [c \in Referenced(t) |-> Canonical(set, <<c, ctx>>)]]
  <1>1. Schema(<<t, ctx>>) =
          [shape |-> graph[t].kind, object |-> Closed(t, ctx),
           refs |-> [c \in Referenced(t) |-> <<c, ctx>>]]
    BY DEF Schema
  <1>2. <<t, ctx>>[1] = t OBVIOUS
  <1>3. [c \in Referenced(t) |-> Canonical(set, Schema(<<t, ctx>>).refs[c])]
          = [c \in Referenced(t) |-> Canonical(set, <<c, ctx>>)]
    BY <1>1
  <1>4. CanonicalSchema(set, <<t, ctx>>) =
          [Schema(<<t, ctx>>) EXCEPT !.refs =
             [c \in Referenced(t) |-> Canonical(set, <<c, ctx>>)]]
    BY <1>2, <1>3 DEF CanonicalSchema
  <1> QED BY <1>1, <1>4

(* Twins read as one exactly when their objects agree and everything they   *)
(* refer to has been read as one already.                                   *)
LEMMA EquivalentIs ==
  ASSUME NEW set, NEW t
  PROVE  Equivalent(set, t) <=>
           /\ Closed(t, "Request") = Closed(t, "plain")
           /\ Referenced(t) \subseteq rename \union set
  <1>1. \A c : Canonical(set, <<c, "Request">>) = Canonical(set, <<c, "plain">>)
                 <=> c \in rename \union set
    BY DEF Canonical
  <1>2. Equivalent(set, t) <=>
          /\ Closed(t, "Request") = Closed(t, "plain")
          /\ [c \in Referenced(t) |-> Canonical(set, <<c, "Request">>)]
               = [c \in Referenced(t) |-> Canonical(set, <<c, "plain">>)]
    <2> DEFINE R == [c \in Referenced(t) |-> Canonical(set, <<c, "Request">>)]
               P == [c \in Referenced(t) |-> Canonical(set, <<c, "plain">>)]
    <2>1. CanonicalSchema(set, <<t, "Request">>) =
            [shape |-> graph[t].kind, object |-> Closed(t, "Request"), refs |-> R]
      BY CanonicalSchemaIs
    <2>2. CanonicalSchema(set, <<t, "plain">>) =
            [shape |-> graph[t].kind, object |-> Closed(t, "plain"), refs |-> P]
      BY CanonicalSchemaIs
    <2> HIDE DEF R, P
    <2>3. Equivalent(set, t) <=>
            [shape |-> graph[t].kind, object |-> Closed(t, "Request"), refs |-> R]
              = [shape |-> graph[t].kind, object |-> Closed(t, "plain"), refs |-> P]
      BY <2>1, <2>2 DEF Equivalent
    <2>4. Equivalent(set, t) <=> Closed(t, "Request") = Closed(t, "plain") /\ R = P
      BY <2>3
    <2> QED BY <2>4 DEF R, P
  <1> QED BY <1>1, <1>2

Merging == collapse \subseteq shared /\ CollapseIsGreatest

LEMMA MergingInit == Init => Merging
  BY DEF Init, ComponentsInit, Merging, CollapseIsGreatest

LEMMA ConsistentRests ==
  ASSUME graph' = graph, rename' = rename, NEW set
  PROVE  Consistent(set)' <=> Consistent(set)
  BY DEF Consistent, Equivalent, CanonicalSchema, Canonical, Schema, Closed, Referenced, Inline

LEMMA MergingRests ==
  ASSUME Merging, UNCHANGED <<graph, rename, shared, collapse>>, phase' = phase
  PROVE  Merging'
  <1>1. \A set : Consistent(set)' <=> Consistent(set) BY ConsistentRests
  <1>2. Consistent(collapse)' <=> Consistent(collapse) BY <1>1
  <1> QED BY <1>1 DEF Merging, CollapseIsGreatest

LEMMA SeparateKeeps ==
  ASSUME Merging, NEW t \in Types, Separate(t) PROVE Merging'
  <1>1. \A set : Consistent(set)' <=> Consistent(set)
    BY ConsistentRests DEF Separate
  <1>2. ASSUME NEW set \in SUBSET shared, Consistent(set) PROVE set \subseteq collapse \ {t}
    <2>1. set \subseteq collapse
      BY <1>2 DEF Merging, CollapseIsGreatest, Separate
    <2>2. t \notin set
      <3> SUFFICES ASSUME t \in set PROVE FALSE OBVIOUS
      <3>1. Equivalent(set, t) BY <1>2 DEF Consistent
      <3>2. Equivalent(collapse, t) BY <2>1, <3>1, EquivalentIs
      <3> QED BY <3>2 DEF Separate
    <2> QED BY <2>1, <2>2
  <1>3. phase' = "reconcile" /\ shared' = shared /\ collapse' = collapse \ {t}
    BY DEF Separate
  <1> QED BY <1>1, <1>2, <1>3 DEF Merging, CollapseIsGreatest

LEMMA ReconciledKeeps == ASSUME Merging, Reconciled PROVE Merging'
  <1>1. \A set : Consistent(set)' <=> Consistent(set)
    BY ConsistentRests DEF Reconciled
  <1>2. Consistent(collapse) /\ collapse' = collapse /\ shared' = shared
    BY DEF Reconciled, Consistent
  <1>3. Consistent(collapse)' BY <1>1, <1>2
  <1> QED BY <1>1, <1>2, <1>3 DEF Merging, CollapseIsGreatest, Reconciled

LEMMA FinalizeKeeps == ASSUME Merging, Finalize PROVE Merging'
  <1>1. \A set : Consistent(set)' <=> Consistent(set)
    BY ConsistentRests DEF Finalize
  <1>2. phase = "apply" /\ UNCHANGED <<graph, rename, shared, collapse>> BY DEF Finalize
  <1>3. Consistent(collapse) BY <1>2 DEF Merging, CollapseIsGreatest
  <1>4. Consistent(collapse)' BY <1>1, <1>2, <1>3
  <1> QED BY <1>1, <1>2, <1>4 DEF Merging, CollapseIsGreatest

LEMMA MergingStep == ASSUME Merging, ComponentsNext PROVE Merging'
  <1>1. CASE \E t \in Types : DeriveRoot(t) BY <1>1, MergingRests DEF DeriveRoot
  <1>2. CASE \E t \in Types : DeriveMember(t) BY <1>2, MergingRests DEF DeriveMember
  <1>3. CASE \E t \in Types : Separate(t) BY <1>3, SeparateKeeps
  <1>4. CASE StoreSchema BY <1>4, MergingRests DEF StoreSchema
  <1>5. CASE NextPhase
    <2>1. phase' \in {"requests", "reachable"} /\ UNCHANGED <<shared, collapse>>
      BY <1>5 DEF NextPhase
    <2> QED BY <2>1 DEF Merging, CollapseIsGreatest
  <1>6. CASE Pass1
    <2>1. phase' = "reconcile" /\ collapse' = shared' BY <1>6 DEF Pass1
    <2> QED BY <2>1 DEF Merging, CollapseIsGreatest
  <1>7. CASE Reconciled BY <1>7, ReconciledKeeps
  <1>8. CASE Finalize BY <1>8, FinalizeKeeps
  <1> QED BY <1>1, <1>2, <1>3, <1>4, <1>5, <1>6, <1>7, <1>8 DEF ComponentsNext

LEMMA MergingNext == Merging /\ [Next]_documentVars => Merging'
  <1> SUFFICES ASSUME Merging, [Next]_documentVars PROVE Merging' OBVIOUS
  <1>1. CASE ComponentsNext BY <1>1, MergingStep
  <1>2. CASE UNCHANGED componentVars BY <1>2, MergingRests DEF componentVars
  <1> QED BY <1>1, <1>2 DEF Next, documentVars

(* For every type graph the comparison of twins ends in the greatest        *)
(* consistent set: reconcileRequestVariants merges whatever can be merged,  *)
(* nothing else, and whichever twin it looks at first.                      *)
THEOREM GreatestCollapse == Spec => []CollapseIsGreatest
  <1>1. Merging => CollapseIsGreatest BY DEF Merging
  <1> QED BY <1>1, MergingInit, MergingNext, PTL DEF Spec

-----------------------------------------------------------------------------
(* Deriving the components keeps its stack and its keys in order.          *)

Frames == [id : Ids, left : SUBSET Types]

StackOwned(s, ids) == s \in Seq(Frames) /\ \A i \in 1 .. Len(s) : s[i].id \in ids

Deriving ==
    /\ ComponentsTypeOK
    /\ StackOwned(stack, owned)
    /\ phase \notin {"operations", "requests"} => stack = << >>

LEMMA DerivingInit == Init => Deriving
  <1> SUFFICES ASSUME Init PROVE Deriving OBVIOUS
  <1>1. ComponentsInit BY DEF Init
  <1>2. stack = << >> /\ stack \in Seq(Frames) /\ Len(stack) = 0
    BY <1>1 DEF ComponentsInit
  <1>3. pending \subseteq Types BY <1>1, ComponentsAssumption DEF ComponentsInit
  <1> QED BY <1>1, <1>2, <1>3 DEF ComponentsInit, Deriving, ComponentsTypeOK, StackOwned, Phases, Frames

LEMMA GraphTyped == ASSUME graph \in Graphs, NEW t \in Types PROVE graph[t].refs \subseteq Types
  BY ComponentsAssumption

LEMMA DeriveKeeps ==
  ASSUME ComponentsTypeOK, NEW t \in Types, NEW ctx \in Contexts, NEW rest,
         StackOwned(rest, owned), Derive(t, ctx, rest)
  PROVE  /\ StackOwned(stack', owned') /\ owned' \subseteq Ids /\ derived' \subseteq owned'
         /\ violated' \in {"yes", "no"}
  <1>0. /\ owned \subseteq Ids /\ derived \subseteq owned /\ violated \in {"yes", "no"}
        /\ <<t, ctx>> \in Ids /\ <<t, "plain">> \in Ids
    BY DEF ComponentsTypeOK, Ids, Contexts
  <1>1. CASE /\ owned' = owned \union {<<t, "plain">>}
             /\ derived' = derived \union {<<t, "plain">>}
             /\ stack' = rest /\ UNCHANGED violated
    BY <1>0, <1>1 DEF StackOwned
  <1>2. CASE /\ violated' = "yes" /\ stack' = rest /\ UNCHANGED <<owned, derived>>
    BY <1>0, <1>2 DEF StackOwned
  <1>3. CASE stack' = rest /\ UNCHANGED <<owned, derived, violated>>
    BY <1>0, <1>3 DEF StackOwned
  <1>4. CASE /\ owned' = owned \union {<<t, ctx>>}
             /\ stack' = Append(rest, [id |-> <<t, ctx>>, left |-> graph[t].refs])
             /\ violated' = IF graph[t].kind = "embed" /\ ctx = "Request" THEN "yes" ELSE violated
             /\ UNCHANGED derived
    <2> DEFINE f == [id |-> <<t, ctx>>, left |-> graph[t].refs]
    <2>1. f \in Frames /\ f.id \in owned'
      BY <1>0, <1>4, GraphTyped DEF Frames, ComponentsTypeOK
    <2> HIDE DEF f
    <2>2. stack' = Append(rest, f) BY <1>4 DEF f
    <2>3. rest \in Seq(Frames) /\ \A i \in 1 .. Len(rest) : rest[i].id \in owned'
      BY <1>4 DEF StackOwned
    <2>4. StackOwned(stack', owned') BY <2>1, <2>2, <2>3 DEF StackOwned
    <2> QED BY <1>0, <1>4, <2>4
  <1> QED BY <1>1, <1>2, <1>3, <1>4 DEF Derive

LEMMA VisitedOwned ==
  ASSUME StackOwned(stack, owned), stack # << >>, NEW c
  PROVE  StackOwned(Visited(c), owned) /\ Top \in Frames
  <1>1. stack \in Seq(Frames) /\ Len(stack) \in 1 .. Len(stack) BY DEF StackOwned
  <1>2. Top \in Frames /\ Top = stack[Len(stack)] BY <1>1 DEF Top
  <1> DEFINE f == [id |-> Top.id, left |-> Top.left \ {c}]
  <1>3. f \in Frames /\ f.id = Top.id BY <1>2 DEF Frames
  <1> HIDE DEF f
  <1>4. Visited(c) = [stack EXCEPT ![Len(stack)] = f] BY DEF Visited, f
  <1>5. Visited(c) \in Seq(Frames) /\ Len(Visited(c)) = Len(stack)
    BY <1>1, <1>3, <1>4
  <1>6. \A i \in 1 .. Len(stack) : Visited(c)[i].id = stack[i].id
    BY <1>1, <1>2, <1>3, <1>4
  <1> QED BY <1>2, <1>5, <1>6 DEF StackOwned

LEMMA Popped ==
  ASSUME StackOwned(stack, owned), stack # << >>
  PROVE  /\ SubSeq(stack, 1, Len(stack) - 1) \in Seq(Frames)
         /\ Len(SubSeq(stack, 1, Len(stack) - 1)) = Len(stack) - 1
         /\ \A i \in 1 .. Len(stack) - 1 : SubSeq(stack, 1, Len(stack) - 1)[i] = stack[i]
  <1> DEFINE n == Len(stack) - 1
             rest == SubSeq(stack, 1, n)
  <1>0. stack \in Seq(Frames) /\ Len(stack) \in 1 .. Len(stack) BY DEF StackOwned
  <1>1. 1 \in Int /\ n \in Int /\ n >= 0 /\ \A i \in 1 .. n : stack[i] \in Frames BY <1>0
  <1> HIDE DEF n
  <1>2. /\ rest \in Seq(Frames) /\ Len(rest) = IF 1 <= n THEN n - 1 + 1 ELSE 0
        /\ \A i \in 1 .. n - 1 + 1 : rest[i] = stack[1 + i - 1]
    BY <1>1, SubSeqProperties
  <1>3. Len(rest) = n /\ \A i \in 1 .. n : rest[i] = stack[i]
    <2> HIDE DEF rest
    <2> QED BY <1>1, <1>2
  <1> QED BY <1>2, <1>3 DEF n

LEMMA DerivingStep == ASSUME Deriving, ComponentsNext PROVE Deriving'
  <1>0. ComponentsTypeOK /\ StackOwned(stack, owned) BY DEF Deriving
  <1>1. ASSUME NEW t \in Types, DeriveRoot(t) PROVE Deriving'
    <2>1. /\ Derive(t, IF phase = "requests" THEN "Request" ELSE "plain", stack)
          /\ pending' \subseteq Types /\ phase \in {"operations", "requests"}
          /\ UNCHANGED <<graph, document, naming, phase, rename, shared, collapse, published>>
      BY <1>0, <1>1 DEF DeriveRoot, ComponentsTypeOK
    <2>2. /\ StackOwned(stack', owned') /\ owned' \subseteq Ids /\ derived' \subseteq owned'
          /\ violated' \in {"yes", "no"}
      BY <1>0, <2>1, DeriveKeeps DEF Contexts
    <2> QED BY <1>0, <2>1, <2>2 DEF Deriving, ComponentsTypeOK, StackOwned, Frames
  <1>2. ASSUME NEW c \in Types, DeriveMember(c) PROVE Deriving'
    <2>1. /\ Derive(c, Top.id[2], Visited(c)) /\ stack # << >>
          /\ UNCHANGED <<graph, document, naming, phase, pending, rename, shared, collapse,
                         published>>
      BY <1>2 DEF DeriveMember
    <2>2. StackOwned(Visited(c), owned) /\ Top \in Frames BY <1>0, <2>1, VisitedOwned
    <2>3. Top.id[2] \in Contexts BY <2>2 DEF Frames, Ids
    <2>4. /\ StackOwned(stack', owned') /\ owned' \subseteq Ids /\ derived' \subseteq owned'
          /\ violated' \in {"yes", "no"}
      BY <1>0, <2>1, <2>2, <2>3, DeriveKeeps
    <2> QED BY <1>0, <2>1, <2>4 DEF Deriving, ComponentsTypeOK, StackOwned, Frames
  <1>3. ASSUME NEW t \in Types, Separate(t) PROVE Deriving'
    BY <1>0, <1>3 DEF Separate, Deriving, ComponentsTypeOK, StackOwned
  <1>4. CASE StoreSchema
    <2>1. /\ stack' = SubSeq(stack, 1, Len(stack) - 1) /\ stack # << >>
          /\ derived' = derived \union {Top.id} /\ owned' = owned
          /\ UNCHANGED <<graph, document, naming, phase, pending, rename, shared, collapse,
                         published, violated>>
      BY <1>4 DEF StoreSchema
    <2>2. stack \in Seq(Frames) /\ Len(stack) \in 1 .. Len(stack)
      BY <1>0, <2>1 DEF StackOwned
    <2>3. Top.id \in owned BY <1>0, <2>2 DEF StackOwned, Top
    <2>4. /\ stack' \in Seq(Frames) /\ Len(stack') = Len(stack) - 1
          /\ \A i \in 1 .. Len(stack) - 1 : stack'[i] = stack[i]
      BY <1>0, <2>1, Popped
    <2>5. StackOwned(stack', owned') BY <1>0, <2>1, <2>2, <2>4 DEF StackOwned
    <2> QED BY <1>0, <2>1, <2>3, <2>4, <2>5 DEF Deriving, ComponentsTypeOK, Frames
  <1>5. CASE NextPhase
    <2>1. document.json \subseteq Types BY <1>0, ComponentsAssumption DEF ComponentsTypeOK
    <2> QED BY <1>0, <1>5, <2>1
      DEF NextPhase, Deriving, ComponentsTypeOK, StackOwned, Phases
  <1>6. CASE Pass1
    <2>1. rename' \subseteq Types /\ shared' \subseteq Types /\ collapse' = shared'
      BY <1>6 DEF Pass1, Variants
    <2>2. /\ phase = "reachable" /\ phase' = "reconcile"
          /\ UNCHANGED <<graph, document, naming, pending, stack, owned, derived, violated>>
      BY <1>6 DEF Pass1
    <2> QED BY <1>0, <2>1, <2>2 DEF Deriving, ComponentsTypeOK, StackOwned, Phases
  <1>7. CASE Reconciled
    <2>1. /\ stack = << >> /\ stack' = stack /\ phase' = "apply"
          /\ UNCHANGED <<graph, document, naming, pending, rename, shared, collapse, violated>>
      BY <1>7 DEF Reconciled, Deriving
    <2>2. owned' \subseteq Ids /\ derived' \subseteq owned'
      BY <1>0, <1>7 DEF Reconciled, ComponentsTypeOK, Ids, Contexts
    <2>3. StackOwned(stack', owned') BY <2>1 DEF StackOwned
    <2> QED BY <1>0, <2>1, <2>2, <2>3 DEF Deriving, ComponentsTypeOK, Phases
  <1>8. CASE Finalize
    <2>1. /\ phase = "apply" /\ phase' \in {"failed", "built"} /\ violated' \in {"yes", "no"}
          /\ UNCHANGED <<graph, document, naming, pending, stack, owned, derived, rename,
                         shared, collapse>>
      BY <1>0, <1>8 DEF Finalize, ComponentsTypeOK
    <2> QED BY <1>0, <2>1 DEF Deriving, ComponentsTypeOK, StackOwned, Phases
  <1> QED BY <1>1, <1>2, <1>3, <1>4, <1>5, <1>6, <1>7, <1>8 DEF ComponentsNext

LEMMA DerivingNext == Deriving /\ [Next]_documentVars => Deriving'
  <1> SUFFICES ASSUME Deriving, [Next]_documentVars PROVE Deriving' OBVIOUS
  <1>1. CASE ComponentsNext BY <1>1, DerivingStep
  <1>2. CASE UNCHANGED componentVars
    BY <1>2 DEF Deriving, ComponentsTypeOK, StackOwned, componentVars
  <1> QED BY <1>1, <1>2 DEF Next, documentVars

LEMMA DerivingAlways == Spec => []Deriving
  BY DerivingInit, DerivingNext, PTL DEF Spec

-----------------------------------------------------------------------------
(* References keep their type and direction (schema.go, openapi.go).        *)

LEMMA ReachedLeast ==
  ASSUME NEW roots, NEW stored, NEW set \in SUBSET Ids, roots \subseteq set, Follows(set, stored)
  PROVE  ReachedFrom(roots, stored) \subseteq set
  <1> DEFINE more == set \ roots
  <1>1. more \in SUBSET (Ids \ roots) /\ roots \union more = set OBVIOUS
  <1> HIDE DEF more
  <1>2. Follows(roots \union more, stored) BY <1>1
  <1> QED BY <1>1, <1>2 DEF ReachedFrom

LEMMA ReferencedTyped ==
  ASSUME graph \in Graphs, NEW id \in Ids, NEW c \in Referenced(id[1])
  PROVE  c \in Types /\ id[1] \in Types /\ id[2] \in Contexts /\ <<c, id[2]>> \in Ids
         /\ id = <<id[1], id[2]>>
  <1>1. id[1] \in Types /\ id[2] \in Contexts /\ id = <<id[1], id[2]>> BY DEF Ids
  <1>2. c \in Types BY <1>1, GraphTyped DEF Referenced
  <1> QED BY <1>1, <1>2 DEF Ids

LEMMA ReachedClosed ==
  ASSUME graph \in Graphs, NEW roots \in SUBSET Ids, NEW stored
  PROVE  LET R == ReachedFrom(roots, stored)
         IN  roots \subseteq R /\ R \subseteq Ids /\ Follows(R, stored)
  <1> DEFINE R == ReachedFrom(roots, stored)
             closed == {more \in SUBSET (Ids \ roots) : Follows(roots \union more, stored)}
  <1>1. R = roots \union {id \in Ids : \A more \in closed : id \in more} BY DEF ReachedFrom
  <1> HIDE DEF R
  <1>2. ASSUME NEW id \in R \intersect stored, NEW c \in Referenced(id[1])
        PROVE  <<c, id[2]>> \in R
    <2> DEFINE next == <<c, id[2]>>
    <2>1. id \in Ids BY <1>1
    <2>2. next \in Ids BY <2>1, ReferencedTyped
    <2>3. ASSUME NEW more \in closed, next \notin roots PROVE next \in more
      <3>1. id \in (roots \union more) \intersect stored BY <1>1
      <3>2. Follows(roots \union more, stored) OBVIOUS
      <3>3. next \in roots \union more BY <3>1, <3>2 DEF Follows
      <3> QED BY <2>3, <3>3
    <2> HIDE DEF closed
    <2> QED BY <1>1, <2>2, <2>3
  <1>3. Follows(R, stored) BY <1>2 DEF Follows
  <1> QED BY <1>1, <1>3 DEF R

LEMMA RootsTyped ==
  ASSUME graph \in Graphs, document \in Documents PROVE Roots \subseteq Ids
  BY ComponentsAssumption DEF Roots, JsonRoots, OpenRoots, Ids, Contexts

(* Once derivation has ended, whatever the operations reach is stored, and  *)
(* so reachableComponents finds all of it.                                  *)
LEMMA Complete ==
  ASSUME Deriving, Derivation, phase \in {"reachable", "reconcile"}
  PROVE  /\ owned = derived /\ Follows(derived, Ids) /\ Roots \subseteq derived
         /\ ReachedFrom(Roots, Ids) \subseteq derived
         /\ ReachedFrom(Roots, Ids) \subseteq Reachable
  <1>0. /\ graph \in Graphs /\ document \in Documents /\ derived \subseteq owned
        /\ owned \subseteq Ids /\ stack = << >>
    BY DEF Deriving, ComponentsTypeOK
  <1>1. owned = derived
    <2>1. Len(stack) = 0 BY <1>0
    <2>2. \A id \in owned \ derived : \E i \in 1 .. 0 : stack[i].id = id
      BY <2>1 DEF Derivation
    <2>3. 1 .. 0 = {} OBVIOUS
    <2> QED BY <1>0, <2>2, <2>3
  <1>2. Follows(derived, Ids) BY <1>0, <1>1 DEF Derivation, Follows
  <1>3. Roots \subseteq derived
    <2>1. \A t \in document.raw \union document.reply : ~Inline(t) => <<t, "plain">> \in owned
      BY DEF Derivation
    <2>2. \A t \in document.json : ~Inline(t) => <<t, "Request">> \in owned
      BY DEF Derivation
    <2> QED BY <1>1, <2>1, <2>2 DEF Roots, JsonRoots, OpenRoots
  <1>4. ReachedFrom(Roots, Ids) \subseteq derived
    BY <1>0, <1>1, <1>2, <1>3, ReachedLeast
  <1>5. ReachedFrom(Roots, Ids) \subseteq Reachable
    <2> DEFINE R == ReachedFrom(Roots, derived)
    <2>1. Roots \subseteq R /\ R \subseteq Ids /\ Follows(R, derived)
      BY <1>0, RootsTyped, ReachedClosed
    <2>2. R \subseteq derived
      <3>1. Follows(derived, derived) BY <1>0, <1>1, <1>2 DEF Follows
      <3> QED BY <1>0, <1>1, <1>3, <3>1, ReachedLeast
    <2> HIDE DEF R
    <2>3. Follows(R, Ids) BY <2>1, <2>2 DEF Follows
    <2>4. ReachedFrom(Roots, Ids) \subseteq R BY <2>1, <2>3, ReachedLeast
    <2> QED BY <2>4 DEF R, Reachable
  <1> QED BY <1>1, <1>2, <1>3, <1>4, <1>5

(* What the types of a program say does not change.                         *)
LEMMA GraphRests ==
  ASSUME graph' = graph, document' = document, NEW t, NEW ctx
  PROVE  /\ Inline(t)' <=> Inline(t)
         /\ Referenced(t)' = Referenced(t) /\ Closed(t, ctx)' = Closed(t, ctx)
         /\ Roots' = Roots
         /\ ReachedFrom(Roots, Ids)' = ReachedFrom(Roots, Ids)
  <1>1. \A u : Inline(u)' <=> Inline(u) BY DEF Inline
  <1>2. \A u : Referenced(u)' = Referenced(u) BY <1>1 DEF Referenced
  <1>3. Roots' = Roots BY <1>1 DEF Roots, JsonRoots, OpenRoots
  <1>4. \A set : Follows(set, Ids)' <=> Follows(set, Ids) BY <1>2 DEF Follows
  <1>5. ReachedFrom(Roots, Ids)' = ReachedFrom(Roots, Ids)
    BY <1>3, <1>4 DEF ReachedFrom
  <1> QED BY <1>1, <1>2, <1>3, <1>5 DEF Closed

(* Covers(o, d, s, due): with o reserved, d stored and s under way, every   *)
(* reference leads to a reserved id, or to one that is due.                 *)
Covers(o, d, s, due) ==
    /\ \A id \in o \ d : \E i \in 1 .. Len(s) : s[i].id = id
    /\ \A id \in d : \A c \in Referenced(id[1]) : <<c, id[2]>> \in o
    /\ \A i \in 1 .. Len(s) :
           \A c \in Referenced(s[i].id[1]) \ s[i].left : <<c, s[i].id[2]>> \in o \union due

LEMMA DeriveCovers ==
  ASSUME ComponentsTypeOK, NEW t \in Types, NEW ctx \in Contexts, NEW rest,
         StackOwned(rest, owned), Covers(owned, derived, rest, {<<t, ctx>>}),
         Derive(t, ctx, rest)
  PROVE  /\ Covers(owned', derived', stack', {})
         /\ owned \subseteq owned' /\ (~Inline(t) => <<t, ctx>> \in owned')
         /\ violated' = "yes" => violated = "yes" \/ graph[t].kind \in {"marshaler", "embed"}
  <1>0. rest \in Seq(Frames) /\ Len(rest) \in Nat BY DEF StackOwned
  <1>1. ASSUME Inline(t) PROVE Covers(owned, derived, rest, {})
    <2>1. \A u : t \notin Referenced(u) BY <1>1 DEF Referenced
    <2> QED BY <2>1 DEF Covers
  <1>2. CASE /\ graph[t].kind = "known"
             /\ owned' = owned \union {<<t, "plain">>}
             /\ derived' = derived \union {<<t, "plain">>}
             /\ stack' = rest /\ UNCHANGED violated
    <2>1. Inline(t) BY <1>2 DEF Inline
    <2>2. Referenced(t) = {}
      BY <1>2, ComponentsAssumption DEF Referenced, ComponentsTypeOK
    <2>3. Covers(owned, derived, rest, {}) BY <1>1, <2>1
    <2>4. <<t, "plain">>[1] = t OBVIOUS
    <2>5. Covers(owned', derived', stack', {}) BY <1>2, <2>2, <2>3, <2>4 DEF Covers
    <2> QED BY <1>2, <2>1, <2>5
  <1>3. CASE /\ graph[t].kind = "marshaler"
             /\ violated' = "yes" /\ stack' = rest /\ UNCHANGED <<owned, derived>>
    <2>1. Inline(t) BY <1>3 DEF Inline
    <2> QED BY <1>1, <1>3, <2>1
  <1>4. CASE /\ <<t, ctx>> \in owned
             /\ stack' = rest /\ UNCHANGED <<owned, derived, violated>>
    BY <1>4 DEF Covers
  <1>5. CASE /\ ~Inline(t) /\ <<t, ctx>> \notin owned
             /\ owned' = owned \union {<<t, ctx>>}
             /\ stack' = Append(rest, [id |-> <<t, ctx>>, left |-> graph[t].refs])
             /\ violated' = IF graph[t].kind = "embed" /\ ctx = "Request" THEN "yes" ELSE violated
             /\ UNCHANGED derived
    <2> DEFINE f == [id |-> <<t, ctx>>, left |-> graph[t].refs]
               n == Len(rest)
    <2>1. /\ Len(stack') = n + 1 /\ stack'[n + 1] = f
          /\ \A i \in 1 .. n : stack'[i] = rest[i]
      BY <1>0, <1>5
    <2>2. f.id = <<t, ctx>> /\ f.left = graph[t].refs /\ f.id[1] = t OBVIOUS
    <2>3. Referenced(t) \ graph[t].refs = {} BY DEF Referenced
    <2> HIDE DEF f, n
    <2>4. n \in Nat /\ 1 .. n + 1 = (1 .. n) \union {n + 1} BY <1>0 DEF n
    <2>5. ASSUME NEW id \in owned' \ derived'
          PROVE  \E i \in 1 .. Len(stack') : stack'[i].id = id
      <3>1. CASE id = <<t, ctx>> BY <2>1, <2>2, <2>4, <3>1
      <3>2. CASE id # <<t, ctx>>
        <4>1. id \in owned \ derived BY <1>5, <3>2
        <4>2. \E i \in 1 .. n : rest[i].id = id BY <4>1 DEF Covers, n
        <4> QED BY <2>1, <2>4, <4>2
      <3> QED BY <3>1, <3>2
    <2>6. \A id \in derived' : \A c \in Referenced(id[1]) : <<c, id[2]>> \in owned'
      BY <1>5 DEF Covers
    <2>7. ASSUME NEW i \in 1 .. Len(stack'),
                 NEW c \in Referenced(stack'[i].id[1]) \ stack'[i].left
          PROVE  <<c, stack'[i].id[2]>> \in owned'
      <3>1. CASE i = n + 1 BY <2>1, <2>2, <2>3, <2>7, <3>1
      <3>2. CASE i \in 1 .. n
        <4>1. \A k \in 1 .. n : \A e \in Referenced(rest[k].id[1]) \ rest[k].left :
                 <<e, rest[k].id[2]>> \in owned \union {<<t, ctx>>}
          BY DEF Covers, n
        <4>2. stack'[i] = rest[i] BY <2>1, <3>2
        <4> QED BY <1>5, <2>7, <3>2, <4>1, <4>2
      <3> QED BY <2>1, <2>4, <3>1, <3>2
    <2>8. Covers(owned', derived', stack', {}) BY <2>5, <2>6, <2>7 DEF Covers
    <2> QED BY <1>5, <2>8
  <1> QED BY <1>2, <1>3, <1>4, <1>5 DEF Derive

LEMMA CoversIs ==
  ASSUME phase \in {"operations", "requests", "reachable", "reconcile"}, Derivation
  PROVE  Covers(owned, derived, stack, {})
  BY DEF Derivation, Covers

LEMMA DeriveRootKeeps ==
  ASSUME Deriving, ComponentsInv, NEW t \in Types, DeriveRoot(t) PROVE ComponentsInv'
  <1> DEFINE ctx == IF phase = "requests" THEN "Request" ELSE "plain"
  <1>0. /\ phase \in {"operations", "requests"} /\ pending' = pending \ {t}
        /\ Derive(t, ctx, stack) /\ phase' = phase /\ graph' = graph /\ document' = document
    BY DEF DeriveRoot
  <1>1. ComponentsTypeOK /\ StackOwned(stack, owned) /\ Derivation /\ Rejected
    BY DEF Deriving, ComponentsInv
  <1>2. Covers(owned, derived, stack, {<<t, ctx>>})
    <2>1. Covers(owned, derived, stack, {}) BY <1>0, <1>1, CoversIs
    <2> QED BY <2>1 DEF Covers
  <1>3. /\ Covers(owned', derived', stack', {})
        /\ owned \subseteq owned' /\ (~Inline(t) => <<t, ctx>> \in owned')
        /\ violated' = "yes" => violated = "yes" \/ graph[t].kind \in {"marshaler", "embed"}
    BY <1>0, <1>1, <1>2, DeriveCovers DEF Contexts
  <1>4. \A u : (Inline(u)' <=> Inline(u)) /\ Referenced(u)' = Referenced(u)
    BY <1>0, GraphRests
  <1>5. Derivation'
    <2>1. Covers(owned, derived, stack, {})' BY <1>0, <1>3 DEF Covers, Referenced, Inline
    <2>2. ASSUME NEW u \in document.raw \union document.reply, ~Inline(u),
                 phase = "operations" => u \notin pending'
          PROVE  <<u, "plain">> \in owned'
      BY <1>0, <1>1, <1>3, <2>2 DEF Derivation
    <2>3. ASSUME NEW u \in document.json, ~Inline(u), phase # "operations",
                 phase = "requests" => u \notin pending'
          PROVE  <<u, "Request">> \in owned'
      BY <1>0, <1>1, <1>3, <2>3 DEF Derivation
    <2> QED BY <1>0, <1>4, <2>1, <2>2, <2>3 DEF Derivation, Covers
  <1>6. Rejected' BY <1>0, <1>1, <1>3 DEF Rejected
  <1> QED BY <1>0, <1>5, <1>6 DEF ComponentsInv, Reconciliation, DirectionsKept, FailuresExplained

LEMMA DeriveMemberKeeps ==
  ASSUME Deriving, ComponentsInv, NEW t \in Types, DeriveMember(t) PROVE ComponentsInv'
  <1> DEFINE ctx == Top.id[2]
             rest == Visited(t)
             n == Len(stack)
  <1>0. /\ stack # << >> /\ pending' = pending
        /\ Derive(t, ctx, rest) /\ phase' = phase /\ graph' = graph /\ document' = document
    BY DEF DeriveMember
  <1>1. /\ ComponentsTypeOK /\ StackOwned(stack, owned) /\ Derivation /\ Rejected
        /\ phase \in {"operations", "requests"}
    BY <1>0 DEF Deriving, ComponentsInv, ComponentsTypeOK, Phases
  <1>2. StackOwned(rest, owned) /\ Top \in Frames BY <1>0, <1>1, VisitedOwned
  <1>3. ctx \in Contexts BY <1>2 DEF Frames, Ids
  <1>4. Covers(owned, derived, rest, {<<t, ctx>>})
    <2>1. Covers(owned, derived, stack, {}) BY <1>0, <1>1, CoversIs
    <2>2. stack \in Seq(Frames) /\ n \in 1 .. n /\ Top = stack[n]
      BY <1>0, <1>1 DEF StackOwned, Top
    <2> DEFINE f == [id |-> Top.id, left |-> Top.left \ {t}]
    <2>3. f.id = Top.id /\ f.left = Top.left \ {t} OBVIOUS
    <2> HIDE DEF f
    <2>4. /\ Len(rest) = n /\ rest[n] = f
          /\ \A i \in 1 .. n : i # n => rest[i] = stack[i]
      <3>1. rest = [stack EXCEPT ![n] = f] BY DEF Visited, f
      <3> HIDE DEF rest
      <3>2. rest \in Seq(Frames) BY <1>2 DEF StackOwned
      <3> QED BY <2>2, <3>1, <3>2
    <2> HIDE DEF rest, n, ctx
    <2>5. \A i \in 1 .. n : rest[i].id = stack[i].id BY <2>2, <2>3, <2>4
    <2>6. \A id \in owned \ derived : \E i \in 1 .. Len(rest) : rest[i].id = id
      BY <2>1, <2>4, <2>5 DEF Covers, n
    <2>7. ASSUME NEW i \in 1 .. Len(rest), NEW c \in Referenced(rest[i].id[1]) \ rest[i].left
          PROVE  <<c, rest[i].id[2]>> \in owned \union {<<t, ctx>>}
      <3>1. \A k \in 1 .. n : \A e \in Referenced(stack[k].id[1]) \ stack[k].left :
               <<e, stack[k].id[2]>> \in owned
        BY <2>1 DEF Covers, n
      <3>2. CASE i # n BY <2>4, <2>7, <3>1, <3>2
      <3>3. CASE i = n /\ c = t BY <2>2, <2>3, <2>4, <3>3 DEF ctx
      <3>4. CASE i = n /\ c # t
        <4>1. c \in Referenced(stack[n].id[1]) \ stack[n].left
          BY <2>2, <2>3, <2>4, <2>7, <3>4
        <4>2. <<c, stack[n].id[2]>> \in owned BY <2>2, <3>1, <4>1
        <4> QED BY <2>2, <2>3, <2>4, <3>4, <4>2
      <3> QED BY <3>2, <3>3, <3>4
    <2> QED BY <2>1, <2>6, <2>7 DEF Covers
  <1>5. /\ Covers(owned', derived', stack', {}) /\ owned \subseteq owned'
        /\ violated' = "yes" => violated = "yes" \/ graph[t].kind \in {"marshaler", "embed"}
    BY <1>0, <1>1, <1>2, <1>3, <1>4, DeriveCovers
  <1>6. \A u : (Inline(u)' <=> Inline(u)) /\ Referenced(u)' = Referenced(u)
    BY <1>0, GraphRests
  <1>7. Derivation'
    <2>1. Covers(owned, derived, stack, {})' BY <1>0, <1>5 DEF Covers, Referenced, Inline
    <2> QED BY <1>0, <1>1, <1>5, <1>6, <2>1 DEF Derivation, Covers
  <1>8. Rejected' BY <1>0, <1>1, <1>5 DEF Rejected
  <1> QED BY <1>0, <1>1, <1>7, <1>8
          DEF ComponentsInv, Reconciliation, DirectionsKept, FailuresExplained

LEMMA StoreSchemaKeeps ==
  ASSUME Deriving, ComponentsInv, StoreSchema PROVE ComponentsInv'
  <1> DEFINE n == Len(stack)
  <1>0. /\ stack # << >> /\ pending' = pending /\ owned' = owned /\ violated' = violated
        /\ phase' = phase /\ graph' = graph /\ document' = document
        /\ Top.left = {} /\ derived' = derived \union {Top.id}
        /\ stack' = SubSeq(stack, 1, n - 1)
    BY DEF StoreSchema
  <1>1. /\ ComponentsTypeOK /\ StackOwned(stack, owned) /\ Derivation /\ Rejected
        /\ phase \in {"operations", "requests"}
    BY <1>0 DEF Deriving, ComponentsInv, ComponentsTypeOK, Phases
  <1>2. Len(stack') = n - 1 /\ \A i \in 1 .. n - 1 : stack'[i] = stack[i]
    BY <1>0, <1>1, Popped
  <1>3. stack \in Seq(Frames) /\ n \in Nat /\ n >= 1 /\ Top = stack[n]
    BY <1>0, <1>1 DEF StackOwned, Top
  <1> HIDE DEF n
  <1>4. Covers(owned', derived', stack', {})
    <2>1. Covers(owned, derived, stack, {}) BY <1>1, CoversIs
    <2>2. 1 .. n = (1 .. n - 1) \union {n} BY <1>3
    <2>3. ASSUME NEW id \in owned' \ derived'
          PROVE  \E i \in 1 .. Len(stack') : stack'[i].id = id
      <3>1. PICK i \in 1 .. n : stack[i].id = id BY <1>0, <2>1 DEF Covers, n
      <3>2. i # n BY <1>0, <1>3, <3>1
      <3> QED BY <1>2, <2>2, <3>1, <3>2
    <2>4. \A c \in Referenced(Top.id[1]) : <<c, Top.id[2]>> \in owned
      BY <1>0, <1>3, <2>1, <2>2 DEF Covers, n
    <2>5. \A id \in derived' : \A c \in Referenced(id[1]) : <<c, id[2]>> \in owned'
      BY <1>0, <2>1, <2>4 DEF Covers
    <2>6. \A i \in 1 .. Len(stack') :
            \A c \in Referenced(stack'[i].id[1]) \ stack'[i].left :
                <<c, stack'[i].id[2]>> \in owned'
      <3>1. \A i \in 1 .. n : \A c \in Referenced(stack[i].id[1]) \ stack[i].left :
               <<c, stack[i].id[2]>> \in owned
        BY <2>1 DEF Covers, n
      <3> QED BY <1>0, <1>2, <2>2, <3>1
    <2> QED BY <2>3, <2>5, <2>6 DEF Covers
  <1>5. \A u : Inline(u)' <=> Inline(u) BY <1>0, GraphRests
  <1>6. Covers(owned, derived, stack, {})' BY <1>0, <1>4 DEF Covers, Referenced, Inline
  <1>7. Derivation' BY <1>0, <1>1, <1>5, <1>6 DEF Derivation, Covers
  <1>8. Rejected' BY <1>0, <1>1 DEF Rejected
  <1> QED BY <1>0, <1>1, <1>7, <1>8
          DEF ComponentsInv, Reconciliation, DirectionsKept, FailuresExplained

LEMMA NextPhaseKeeps ==
  ASSUME Deriving, ComponentsInv, NextPhase PROVE ComponentsInv'
  <1>0. /\ UNCHANGED <<graph, document, stack, owned, derived, violated>> /\ pending = {}
        /\ \/ phase = "operations" /\ phase' = "requests" /\ pending' = document.json
           \/ phase = "requests" /\ phase' = "reachable" /\ pending' = {}
    BY DEF NextPhase
  <1>1. Derivation /\ Rejected BY DEF ComponentsInv
  <1>2. Covers(owned, derived, stack, {}) BY <1>0, <1>1, CoversIs
  <1>3. Covers(owned, derived, stack, {})' BY <1>0, <1>2 DEF Covers, Referenced, Inline
  <1>4. \A u : Inline(u)' <=> Inline(u) BY <1>0, GraphRests
  <1>5. /\ \A t \in document.raw \union document.reply : ~Inline(t) => <<t, "plain">> \in owned
        /\ phase = "requests" =>
             \A t \in document.json : ~Inline(t) => <<t, "Request">> \in owned
    BY <1>0, <1>1 DEF Derivation
  <1>6. Derivation' BY <1>0, <1>3, <1>4, <1>5 DEF Derivation, Covers
  <1>7. Rejected' BY <1>0, <1>1 DEF Rejected
  <1> QED BY <1>0, <1>6, <1>7
          DEF ComponentsInv, Reconciliation, DirectionsKept, FailuresExplained

LEMMA Pass1Keeps ==
  ASSUME Deriving, ComponentsInv, Pass1 PROVE ComponentsInv'
  <1>0. /\ UNCHANGED <<graph, document, pending, stack, owned, derived, violated>>
        /\ phase = "reachable" /\ phase' = "reconcile"
        /\ rename' = {t \in Variants : <<t, "plain">> \notin derived \intersect Reachable}
        /\ shared' = Variants \ rename'
    BY DEF Pass1
  <1>1. Derivation /\ Rejected BY DEF ComponentsInv
  <1>2. Covers(owned, derived, stack, {}) BY <1>0, <1>1, CoversIs
  <1>3. Covers(owned, derived, stack, {})' BY <1>0, <1>2 DEF Covers, Referenced, Inline
  <1>4. \A u : Inline(u)' <=> Inline(u) BY <1>0, GraphRests
  <1>5. Derivation' BY <1>0, <1>1, <1>3, <1>4 DEF Derivation, Covers
  <1>6. Reconciliation'
    <2>1. ReachedFrom(Roots, Ids) \subseteq derived \intersect Reachable
      BY <1>0, <1>1, Complete
    <2>2. ReachedFrom(Roots, Ids)' = ReachedFrom(Roots, Ids) BY <1>0, GraphRests
    <2>3. Variants' = Variants BY <1>0 DEF Variants
    <2>4. \A t \in rename' : <<t, "plain">> \notin ReachedFrom(Roots, Ids)
      BY <1>0, <2>1
    <2>5. \A t \in shared' : <<t, "plain">> \in derived BY <1>0
    <2>6. rename' \subseteq Variants BY <1>0
    <2> QED BY <1>0, <2>2, <2>3, <2>4, <2>5, <2>6 DEF Reconciliation
  <1>7. Rejected' BY <1>0, <1>1 DEF Rejected
  <1> QED BY <1>0, <1>5, <1>6, <1>7 DEF ComponentsInv, DirectionsKept, FailuresExplained

LEMMA ComparingKeeps ==
  ASSUME Deriving, ComponentsInv, NEW t \in Types, Separate(t) PROVE ComponentsInv'
  <1>0. /\ UNCHANGED <<graph, document, pending, stack, owned, derived, rename, shared,
                       violated>>
        /\ phase = "reconcile" /\ phase' = "reconcile"
    BY DEF Separate
  <1>1. Derivation /\ Reconciliation /\ Rejected BY DEF ComponentsInv
  <1>2. Covers(owned, derived, stack, {}) BY <1>0, <1>1, CoversIs
  <1>3. Covers(owned, derived, stack, {})' BY <1>0, <1>2 DEF Covers, Referenced, Inline
  <1>4. \A u : Inline(u)' <=> Inline(u) BY <1>0, GraphRests
  <1>5. Derivation' BY <1>0, <1>1, <1>3, <1>4 DEF Derivation, Covers
  <1>6. ReachedFrom(Roots, Ids)' = ReachedFrom(Roots, Ids) BY <1>0, GraphRests
  <1>7. Reconciliation' BY <1>0, <1>1, <1>6 DEF Reconciliation, Variants
  <1>8. Rejected' BY <1>0, <1>1 DEF Rejected
  <1> QED BY <1>0, <1>5, <1>7, <1>8 DEF ComponentsInv, DirectionsKept, FailuresExplained

LEMMA MappingKeeps ==
  ASSUME Deriving, ComponentsInv, Reconciled PROVE ComponentsInv'
  <1>0. /\ UNCHANGED <<graph, document, rename, collapse, violated>>
        /\ phase = "reconcile" /\ phase' = "apply"
        /\ derived' = (derived \ {<<t, "Request">> : t \in Moved})
                      \union {<<t, "plain">> : t \in rename}
    BY DEF Reconciled
  <1>1. Derivation /\ Reconciliation /\ Rejected BY DEF ComponentsInv
  <1>2. /\ Follows(derived, Ids) /\ ReachedFrom(Roots, Ids) \subseteq derived
        /\ derived \subseteq Ids /\ graph \in Graphs /\ collapse \subseteq shared
    BY <1>0, <1>1, Complete DEF Deriving, ComponentsTypeOK
  <1>3. /\ rename \subseteq Variants /\ \A t \in shared : <<t, "plain">> \in derived
        /\ \A t \in rename : <<t, "plain">> \notin ReachedFrom(Roots, Ids)
    BY <1>0, <1>1 DEF Reconciliation
  <1>4. ASSUME NEW id \in derived PROVE Remapped(id) \in derived'
    <2>1. id = <<id[1], id[2]>> BY <1>2 DEF Ids
    <2>2. CASE id[2] = "Request" /\ id[1] \in Moved
      <3>1. Remapped(id) = <<id[1], "plain">> BY <2>2 DEF Remapped
      <3>2. id[1] \in rename \/ <<id[1], "plain">> \in derived
        BY <1>2, <1>3, <2>2 DEF Moved
      <3> QED BY <1>0, <3>1, <3>2
    <2>3. CASE ~(id[2] = "Request" /\ id[1] \in Moved)
      <3>1. Remapped(id) = id BY <2>3 DEF Remapped
      <3> QED BY <1>0, <2>3, <3>1
    <2> QED BY <2>2, <2>3
  <1>5. ASSUME NEW id \in derived' PROVE Source(id) \in derived /\ Source(id)[1] = id[1]
    <2>1. CASE id[2] = "plain" /\ id[1] \in rename
      BY <1>3, <2>1 DEF Source, Variants
    <2>2. CASE ~(id[2] = "plain" /\ id[1] \in rename)
      BY <1>0, <2>2 DEF Source
    <2> QED BY <2>1, <2>2
  <1>6. ASSUME NEW id \in derived', NEW c \in Referenced(id[1])
        PROVE  Remapped(<<c, Source(id)[2]>>) \in derived'
    <2>1. Source(id) \in derived \intersect Ids /\ Source(id)[1] = id[1] BY <1>2, <1>5
    <2>2. <<c, Source(id)[2]>> \in derived BY <1>2, <2>1 DEF Follows
    <2> QED BY <1>4, <2>2
  <1>7. ReachedFrom(Roots, Ids)' = ReachedFrom(Roots, Ids) BY <1>0, GraphRests
  <1>8. \A id : /\ Remapped(id)' = Remapped(id) /\ Source(id)' = Source(id)
                /\ Referenced(id)' = Referenced(id)
    BY <1>0 DEF Remapped, Moved, Source, Referenced, Inline
  <1>9. Reconciliation'
    <2>1. \A id \in ReachedFrom(Roots, Ids) : Remapped(id) \in derived' BY <1>2, <1>4
    <2> QED BY <1>0, <1>3, <1>6, <1>7, <1>8, <2>1 DEF Reconciliation
  <1>10. Rejected' BY <1>0, <1>1 DEF Rejected
  <1> QED BY <1>0, <1>9, <1>10
          DEF ComponentsInv, Derivation, DirectionsKept, FailuresExplained

(* Names differ unless the strategy gives two types one name, with or       *)
(* without the suffix.                                                      *)
LEMMA CollisionIs ==
  ASSUME Deriving, Collision
  PROVE  \E t \in Types : \E u \in Types :
            t # u /\ naming[t] \in {naming[u], Append(naming[u], "Request")}
  <1>0. naming \in Namings /\ derived \subseteq Ids BY DEF Deriving, ComponentsTypeOK
  <1>1. PICK a \in derived : \E b \in derived : a # b /\ PublicName(a) = PublicName(b)
    BY DEF Collision
  <1>2. PICK b \in derived : a # b /\ PublicName(a) = PublicName(b) BY <1>1
  <1>3. /\ a[1] \in Types /\ a[2] \in Contexts /\ a = <<a[1], a[2]>>
        /\ b[1] \in Types /\ b[2] \in Contexts /\ b = <<b[1], b[2]>>
    BY <1>0 DEF Ids
  <1> DEFINE All == Words \union {"Request"}
  <1>4. naming[a[1]] \in Seq(All) /\ naming[b[1]] \in Seq(All)
    <2>1. naming[a[1]] \in Seq(Words) /\ naming[b[1]] \in Seq(Words)
      BY <1>0, <1>3, ComponentsAssumption
    <2> QED BY <2>1
  <1> HIDE DEF All
  <1>5. "Request" \in All BY DEF All
  <1>6. CASE a[2] = b[2]
    <2>1. a[1] # b[1] BY <1>2, <1>3, <1>6
    <2>2. naming[a[1]] = naming[b[1]]
      <3>1. CASE a[2] = "Request"
        <4>1. Append(naming[a[1]], "Request") = Append(naming[b[1]], "Request")
          BY <1>2, <1>6, <3>1 DEF PublicName
        <4> DEFINE p == naming[a[1]]
                   q == naming[b[1]]
        <4>2. p \in Seq(All) /\ q \in Seq(All) /\ Append(p, "Request") = Append(q, "Request")
          BY <1>4, <4>1
        <4> DEFINE w == "Request"
        <4>3. w \in All /\ Append(p, w) = Append(q, w) BY <1>5, <4>2
        <4> HIDE DEF p, q, w
        <4>4. p = q BY <4>2, <4>3, AppendInjective
        <4> QED BY <4>4 DEF p, q
      <3>2. CASE a[2] # "Request" BY <1>2, <1>6, <3>2 DEF PublicName
      <3> QED BY <3>1, <3>2
    <2> QED BY <1>3, <2>1, <2>2
  <1>7. ASSUME NEW t \in Types, NEW u \in Types, naming[t] \in Seq(All), naming[u] \in Seq(All),
               naming[t] = Append(naming[u], "Request")
        PROVE  t # u
    <2>1. Len(naming[t]) = Len(naming[u]) + 1 BY <1>5, <1>7
    <2> QED BY <1>7, <2>1
  <1>8. CASE a[2] = "Request" /\ b[2] = "plain"
    <2>1. naming[b[1]] = Append(naming[a[1]], "Request") BY <1>2, <1>8 DEF PublicName
    <2>2. b[1] # a[1] BY <1>3, <1>4, <1>7, <2>1
    <2> QED BY <1>3, <2>1, <2>2
  <1>9. CASE a[2] = "plain" /\ b[2] = "Request"
    <2>1. naming[a[1]] = Append(naming[b[1]], "Request") BY <1>2, <1>9 DEF PublicName
    <2>2. a[1] # b[1] BY <1>3, <1>4, <1>7, <2>1
    <2> QED BY <1>3, <2>1, <2>2
  <1> QED BY <1>3, <1>6, <1>8, <1>9 DEF Contexts

(* A stored schema whose references, once mapped, lead to stored ones.      *)
LEMMA RenamedIs ==
  ASSUME NEW t, NEW ctx, \A c \in Referenced(t) : Remapped(<<c, ctx>>) \in derived
  PROVE  Renamed(<<t, ctx>>) =
           [shape |-> graph[t].kind, object |-> Closed(t, ctx),
            refs |-> [c \in Referenced(t) |-> NameOf(<<c, ctx>>)]]
  <1>1. Schema(<<t, ctx>>) =
          [shape |-> graph[t].kind, object |-> Closed(t, ctx),
           refs |-> [c \in Referenced(t) |-> <<c, ctx>>]]
    BY DEF Schema
  <1>2. <<t, ctx>>[1] = t OBVIOUS
  <1>3. \A c \in Referenced(t) : Schema(<<t, ctx>>).refs[c] = <<c, ctx>> BY <1>1
  <1> DEFINE refs == [c \in Referenced(t) |->
                        LET r == Remapped(Schema(<<t, ctx>>).refs[c])
                        IN  IF r \in derived THEN PublicName(r) ELSE Unresolved]
  <1>4. refs = [c \in Referenced(t) |-> NameOf(<<c, ctx>>)] BY <1>3 DEF NameOf
  <1>5. Renamed(<<t, ctx>>) = [Schema(<<t, ctx>>) EXCEPT !.refs = refs]
    BY <1>2 DEF Renamed
  <1> HIDE DEF refs
  <1> QED BY <1>1, <1>4, <1>5

(* What finalizeSchemas writes: without a collision every stored schema is  *)
(* published under its own name, and no reference is left dangling.         *)
LEMMA Publishes ==
  ASSUME Deriving, ComponentsInv, Finalize
  PROVE  /\ ~DanglingRef(published')
         /\ ~Collision => \A id \in derived :
                PublicName(id) \in DOMAIN published'
                /\ published'[PublicName(id)] = Renamed(Source(id))
  <1> DEFINE same(kept, id) == {k \in kept : PublicName(k) = PublicName(id)}
  <1>1. PICK kept \in SUBSET derived :
          /\ \A id \in derived : Cardinality(same(kept, id)) = 1
          /\ published' = [n \in {PublicName(id) : id \in kept} |->
                 Renamed(Source(CHOOSE id \in kept : PublicName(id) = n))]
    BY DEF Finalize
  <1>2. /\ phase = "apply" /\ graph \in Graphs /\ document \in Documents
        /\ derived \subseteq Ids /\ Reconciliation
    BY DEF Finalize, Deriving, ComponentsTypeOK, ComponentsInv
  <1>3. ASSUME NEW id \in derived PROVE \E k \in kept : PublicName(k) = PublicName(id)
    <2>1. same(kept, id) # {}
      <3>1. Cardinality({}) = 0 BY FS_EmptySet
      <3> HIDE DEF same
      <3> QED BY <1>1, <3>1
    <2> QED BY <2>1
  <1>4. \A id \in derived : PublicName(id) \in DOMAIN published'
    BY <1>1, <1>3
  <1>5. ASSUME NEW id \in derived
        PROVE  Renamed(Source(id)) =
                 [shape |-> graph[id[1]].kind, object |-> Closed(id[1], Source(id)[2]),
                  refs |-> [c \in Referenced(id[1]) |-> NameOf(<<c, Source(id)[2]>>)]]
    <2>1. Source(id) = <<id[1], Source(id)[2]>> BY <1>2 DEF Source, Ids
    <2>2. \A c \in Referenced(id[1]) : Remapped(<<c, Source(id)[2]>>) \in derived
      BY <1>2 DEF Reconciliation
    <2> DEFINE t == id[1]
               ctx == Source(id)[2]
    <2>3. \A c \in Referenced(t) : Remapped(<<c, ctx>>) \in derived BY <2>2
    <2> HIDE DEF t, ctx
    <2>4. Renamed(<<t, ctx>>) =
            [shape |-> graph[t].kind, object |-> Closed(t, ctx),
             refs |-> [c \in Referenced(t) |-> NameOf(<<c, ctx>>)]]
      BY <2>3, RenamedIs
    <2> QED BY <2>1, <2>4 DEF t, ctx
  <1>6. ASSUME NEW n \in DOMAIN published', NEW c \in DOMAIN published'[n].refs
        PROVE  published'[n].refs[c] \in DOMAIN published'
    <2>1. PICK k \in kept : PublicName(k) = n BY <1>1
    <2> DEFINE id == CHOOSE x \in kept : PublicName(x) = n
    <2>2. id \in derived BY <2>1
    <2>3. published'[n] = Renamed(Source(id)) BY <1>1
    <2> HIDE DEF id
    <2>4. published'[n].refs = [e \in Referenced(id[1]) |-> NameOf(<<e, Source(id)[2]>>)]
      <3> DEFINE refs == [e \in Referenced(id[1]) |-> NameOf(<<e, Source(id)[2]>>)]
      <3>1. Renamed(Source(id)) =
              [shape |-> graph[id[1]].kind, object |-> Closed(id[1], Source(id)[2]), refs |-> refs]
        BY <1>5, <2>2
      <3> HIDE DEF refs
      <3>2. published'[n].refs = refs BY <2>3, <3>1
      <3> QED BY <3>2 DEF refs
    <2>5. c \in Referenced(id[1]) /\ published'[n].refs[c] = NameOf(<<c, Source(id)[2]>>)
      BY <1>6, <2>4
    <2>6. Remapped(<<c, Source(id)[2]>>) \in derived
      BY <1>2, <2>2, <2>5 DEF Reconciliation
    <2> QED BY <1>4, <2>5, <2>6 DEF NameOf
  <1>7. \A id \in Roots : Remapped(id) \in derived
    <2>1. Roots \subseteq ReachedFrom(Roots, Ids) BY <1>2, RootsTyped, ReachedClosed
    <2> QED BY <1>2, <2>1 DEF Reconciliation
  <1>8. ~DanglingRef(published') BY <1>6, <1>7 DEF DanglingRef
  <1>9. ASSUME ~Collision, NEW id \in derived
        PROVE  published'[PublicName(id)] = Renamed(Source(id))
    <2>1. \A k \in kept : PublicName(k) = PublicName(id) => k = id
      BY <1>1, <1>9 DEF Collision
    <2>2. id \in kept BY <1>3, <2>1
    <2>3. (CHOOSE k \in kept : PublicName(k) = PublicName(id)) = id BY <2>1, <2>2
    <2> QED BY <1>1, <2>2, <2>3
  <1> QED BY <1>4, <1>8, <1>9

(* Where a reference leads, the schema is the one its direction calls for.  *)
LEMMA Directed ==
  ASSUME Deriving, ComponentsInv, Merging, phase = "apply", NEW id \in ReachedFrom(Roots, Ids)
  PROVE  LET src == Source(Remapped(id))
         IN  /\ Remapped(id) \in derived
             /\ src = <<id[1], src[2]>> /\ Remapped(id)[1] = id[1]
             /\ Closed(id[1], src[2]) = Closed(id[1], id[2])
             /\ \A c \in Referenced(id[1]) : NameOf(<<c, src[2]>>) = NameOf(<<c, id[2]>>)
             /\ id[2] = "plain" => NameOf(id) = naming[id[1]]
  <1>0. /\ graph \in Graphs /\ document \in Documents /\ Reconciliation /\ Consistent(collapse)
    BY DEF Deriving, ComponentsTypeOK, ComponentsInv, Merging, CollapseIsGreatest
  <1>1. id \in Ids BY <1>0, RootsTyped, ReachedClosed
  <1>2. id[2] \in Contexts /\ id = <<id[1], id[2]>> BY <1>1 DEF Ids
  <1>3. Remapped(id) \in derived BY <1>0 DEF Reconciliation
  <1>4. CASE Source(Remapped(id)) = id
    <2>1. Remapped(id)[1] = id[1] BY DEF Remapped
    <2>2. id[2] = "plain" => NameOf(id) = naming[id[1]] BY DEF NameOf, Remapped, PublicName
    <2> QED BY <1>2, <1>3, <1>4, <2>1, <2>2
  <1>5. CASE Source(Remapped(id)) # id
    <2>1. id[2] = "Request" /\ id[1] \in collapse /\ Remapped(id) = <<id[1], "plain">>
          /\ id[1] \notin rename
      <3>1. CASE id[2] = "plain"
        <4>1. id[1] \notin rename BY <1>0, <1>2, <3>1 DEF Reconciliation
        <4> QED BY <1>5, <3>1, <4>1 DEF Remapped, Source
      <3>2. CASE id[2] = "Request"
        BY <1>2, <1>5, <3>2 DEF Remapped, Source, Moved
      <3> QED BY <1>2, <3>1, <3>2 DEF Contexts
    <2>2. Source(Remapped(id)) = <<id[1], "plain">> BY <2>1 DEF Source
    <2>3. Closed(id[1], "Request") = Closed(id[1], "plain")
          /\ Referenced(id[1]) \subseteq rename \union collapse
      BY <1>0, <2>1, EquivalentIs DEF Consistent
    <2>4. \A c \in Referenced(id[1]) : NameOf(<<c, "plain">>) = NameOf(<<c, "Request">>)
      BY <2>3 DEF NameOf, Remapped, Moved
    <2> QED BY <1>3, <2>1, <2>2, <2>3, <2>4
  <1> QED BY <1>4, <1>5

LEMMA NamingKeeps ==
  ASSUME Deriving, ComponentsInv, Merging, Finalize PROVE ComponentsInv'
  <1>0. /\ UNCHANGED <<graph, document, naming, derived, rename, collapse>>
        /\ phase = "apply" /\ phase' = IF violated' = "yes" THEN "failed" ELSE "built"
        /\ violated' = IF Collision \/ DanglingRef(published') THEN "yes" ELSE violated
    BY DEF Finalize
  <1>1. Rejected /\ violated \in {"yes", "no"}
    BY DEF ComponentsInv, Deriving, ComponentsTypeOK
  <1>2. ~DanglingRef(published') BY Publishes
  <1>3. FailuresExplained'
    <2>1. CASE Collision BY <1>0, <2>1, CollisionIs DEF FailuresExplained
    <2>2. CASE ~Collision BY <1>0, <1>1, <1>2, <2>2 DEF FailuresExplained, Rejected
    <2> QED BY <2>1, <2>2
  <1>4. ReachedFrom(Roots, Ids)' = ReachedFrom(Roots, Ids) BY <1>0, GraphRests
  <1>5. \A id : NameOf(id)' = NameOf(id)
    BY <1>0 DEF NameOf, PublicName, Remapped, Moved
  <1>6. ASSUME phase' = "built", NEW id \in ReachedFrom(Roots, Ids)
        PROVE  /\ NameOf(id) \in DOMAIN published'
               /\ published'[NameOf(id)] =
                      [shape |-> graph[id[1]].kind,
                       object |-> Closed(id[1], id[2]),
                       refs |-> [c \in Referenced(id[1]) |-> NameOf(<<c, id[2]>>)]]
               /\ id[2] = "plain" => NameOf(id) = naming[id[1]]
    <2>1. ~Collision BY <1>0, <1>6
    <2> DEFINE src == Source(Remapped(id))
    <2>2. /\ Remapped(id) \in derived
          /\ src = <<id[1], src[2]>> /\ Remapped(id)[1] = id[1]
          /\ Closed(id[1], src[2]) = Closed(id[1], id[2])
          /\ \A c \in Referenced(id[1]) : NameOf(<<c, src[2]>>) = NameOf(<<c, id[2]>>)
          /\ id[2] = "plain" => NameOf(id) = naming[id[1]]
      BY <1>0, Directed
    <2>3. NameOf(id) \in DOMAIN published' /\ published'[NameOf(id)] = Renamed(src)
      BY <2>1, <2>2, Publishes DEF NameOf
    <2>4. \A c \in Referenced(id[1]) : Remapped(<<c, src[2]>>) \in derived
      BY <1>0, <2>2 DEF ComponentsInv, Reconciliation
    <2> DEFINE t == id[1]
               ctx == src[2]
    <2>5. src = <<t, ctx>> /\ \A c \in Referenced(t) : Remapped(<<c, ctx>>) \in derived
      BY <2>2, <2>4
    <2> HIDE DEF src, t, ctx
    <2>6. Renamed(<<t, ctx>>) =
            [shape |-> graph[t].kind, object |-> Closed(t, ctx),
             refs |-> [c \in Referenced(t) |-> NameOf(<<c, ctx>>)]]
      BY <2>5, RenamedIs
    <2>7. [c \in Referenced(t) |-> NameOf(<<c, ctx>>)]
            = [c \in Referenced(t) |-> NameOf(<<c, id[2]>>)]
      BY <2>2 DEF t, ctx
    <2> QED BY <2>2, <2>3, <2>5, <2>6, <2>7 DEF t, ctx
  <1>7. DirectionsKept'
    <2>1. \A u, ctx : Referenced(u)' = Referenced(u) /\ Closed(u, ctx)' = Closed(u, ctx)
      BY <1>0, GraphRests
    <2> SUFFICES ASSUME phase' = "built", NEW id \in ReachedFrom(Roots, Ids)
                 PROVE  /\ NameOf(id)' \in DOMAIN published'
                        /\ published'[NameOf(id)'] =
                              [shape |-> graph'[id[1]].kind,
                               object |-> Closed(id[1], id[2])',
                               refs |-> [c \in Referenced(id[1])' |-> NameOf(<<c, id[2]>>)']]
                        /\ id[2] = "plain" => NameOf(id)' = naming'[id[1]]
      BY <1>4 DEF DirectionsKept
    <2>2. [c \in Referenced(id[1])' |-> NameOf(<<c, id[2]>>)']
            = [c \in Referenced(id[1]) |-> NameOf(<<c, id[2]>>)]
      BY <1>5, <2>1
    <2>3. NameOf(id)' = NameOf(id) /\ Closed(id[1], id[2])' = Closed(id[1], id[2]) BY <1>5, <2>1
    <2> QED BY <1>0, <1>6, <2>2, <2>3
  <1>8. phase' \in {"failed", "built"} /\ (violated' = "yes" => phase' = "failed") BY <1>0
  <1> QED BY <1>3, <1>7, <1>8 DEF ComponentsInv, Derivation, Reconciliation, Rejected

LEMMA ComponentsStep ==
  ASSUME Deriving, Merging, ComponentsInv, ComponentsNext PROVE ComponentsInv'
  <1>1. CASE \E t \in Types : DeriveRoot(t) BY <1>1, DeriveRootKeeps
  <1>2. CASE \E t \in Types : DeriveMember(t) BY <1>2, DeriveMemberKeeps
  <1>3. CASE \E t \in Types : Separate(t) BY <1>3, ComparingKeeps
  <1>4. CASE StoreSchema BY <1>4, StoreSchemaKeeps
  <1>5. CASE NextPhase BY <1>5, NextPhaseKeeps
  <1>6. CASE Pass1 BY <1>6, Pass1Keeps
  <1>7. CASE Reconciled BY <1>7, MappingKeeps
  <1>8. CASE Finalize BY <1>8, NamingKeeps
  <1> QED BY <1>1, <1>2, <1>3, <1>4, <1>5, <1>6, <1>7, <1>8 DEF ComponentsNext

LEMMA ComponentsRest ==
  ASSUME ComponentsInv, UNCHANGED componentVars PROVE ComponentsInv'
  <1>0. /\ graph' = graph /\ document' = document /\ naming' = naming /\ phase' = phase
        /\ pending' = pending /\ stack' = stack /\ owned' = owned /\ derived' = derived
        /\ rename' = rename /\ shared' = shared /\ collapse' = collapse
        /\ published' = published /\ violated' = violated
    BY DEF componentVars
  <1>1. \A u, ctx : /\ (Inline(u)' <=> Inline(u)) /\ Referenced(u)' = Referenced(u)
                    /\ Closed(u, ctx)' = Closed(u, ctx)
    BY <1>0, GraphRests
  <1>2. ReachedFrom(Roots, Ids)' = ReachedFrom(Roots, Ids) BY <1>0, GraphRests
  <1>3. \A id : /\ Remapped(id)' = Remapped(id) /\ Source(id)' = Source(id)
                /\ NameOf(id)' = NameOf(id)
    BY <1>0 DEF NameOf, PublicName, Remapped, Moved, Source
  <1>4. Derivation' BY <1>0, <1>1 DEF ComponentsInv, Derivation, Referenced, Inline
  <1>5. Reconciliation'
    <2>1. \A id, c : Remapped(<<c, Source(id)[2]>>)' = Remapped(<<c, Source(id)[2]>>)
      BY <1>0 DEF Remapped, Moved, Source
    <2> QED BY <1>0, <1>1, <1>2, <1>3, <2>1 DEF ComponentsInv, Reconciliation, Variants
  <1>6. (Rejected /\ FailuresExplained)'
    BY <1>0 DEF ComponentsInv, Rejected, FailuresExplained
  <1>7. DirectionsKept'
    <2> SUFFICES ASSUME phase = "built", NEW id \in ReachedFrom(Roots, Ids)
                 PROVE  /\ NameOf(id)' \in DOMAIN published
                        /\ published[NameOf(id)'] =
                              [shape |-> graph[id[1]].kind,
                               object |-> Closed(id[1], id[2])',
                               refs |-> [c \in Referenced(id[1])' |-> NameOf(<<c, id[2]>>)']]
                        /\ id[2] = "plain" => NameOf(id)' = naming[id[1]]
      BY <1>0, <1>2 DEF DirectionsKept
    <2>1. [c \in Referenced(id[1])' |-> NameOf(<<c, id[2]>>)']
            = [c \in Referenced(id[1]) |-> NameOf(<<c, id[2]>>)]
      BY <1>1, <1>3
    <2> QED BY <1>1, <1>3, <2>1 DEF ComponentsInv, DirectionsKept
  <1> QED BY <1>4, <1>5, <1>6, <1>7 DEF ComponentsInv

LEMMA ComponentsInvInit == Init => ComponentsInv
  <1> SUFFICES ASSUME Init PROVE ComponentsInv OBVIOUS
  <1>1. ComponentsInit BY DEF Init
  <1>2. /\ phase = "operations" /\ owned = {} /\ derived = {} /\ violated = "no"
        /\ Len(stack) = 0 /\ document.raw \union document.reply \subseteq pending
    BY <1>1 DEF ComponentsInit
  <1>3. 1 .. Len(stack) = {} BY <1>2
  <1>4. Derivation BY <1>2, <1>3 DEF Derivation
  <1> QED BY <1>2, <1>4
          DEF ComponentsInv, Reconciliation, Rejected, DirectionsKept, FailuresExplained

Documented == Deriving /\ Merging /\ ComponentsInv

LEMMA DocumentedNext == Documented /\ [Next]_documentVars => Documented'
  <1> SUFFICES ASSUME Documented, [Next]_documentVars PROVE ComponentsInv'
    BY DerivingNext, MergingNext DEF Documented
  <1>1. CASE ComponentsNext BY <1>1, ComponentsStep DEF Documented
  <1>2. CASE UNCHANGED componentVars BY <1>2, ComponentsRest DEF Documented
  <1> QED BY <1>1, <1>2 DEF Next, documentVars

LEMMA DocumentedAlways == Spec => []Documented
  <1>1. Init => Documented BY DerivingInit, MergingInit, ComponentsInvInit DEF Documented
  <1> QED BY <1>1, DocumentedNext, PTL DEF Spec

(* For every type graph, cyclic ones included, every set of operations and  *)
(* every naming strategy: in a document that Build accepts each reference   *)
(* resolves to the schema of its own type in its own direction.             *)
THEOREM DirectionsAlwaysKept == Spec => []DirectionsKept
  <1>1. Documented => DirectionsKept BY DEF Documented, ComponentsInv
  <1> QED BY <1>1, DocumentedAlways, PTL

(* Merging and renaming never make Build refuse a document: where enums are *)
(* registered and names are component names, a failure is a rejected or an  *)
(* embedding type, or a clash of the strategy's names.                      *)
THEOREM FailuresAlwaysExplained == Spec => []FailuresExplained
  <1>1. Documented => FailuresExplained BY DEF Documented, ComponentsInv
  <1> QED BY <1>1, DocumentedAlways, PTL

-----------------------------------------------------------------------------
(* The validate tags of a field (schema.go, applyValidateTag).             *)

(* What a tag leaves behind on one position.                                *)
FormatKept(p) ==
    /\ Kind(p) = "int64" =>
           "int64" \in schema[p]["format"] \/ \E t \in rules[p] : t.rule = "format"
    /\ Kind(p) = "string" => "int64" \notin schema[p]["format"]

Taken(p, v) == WireValue(Kind(p), v) /\ ServerAccepts(p, v) /\ ~Skipped(p, v)

Allowed(p) ==
    \A v \in Values : Taken(p, v) =>
        \A k \in Keywords : \A a \in schema[p][k] : Satisfies(k, a, v)

Shown(p, t) == RuleVisible(p, t) \/ Unwritten(p, t)

Visible(p) == \A t \in rules[p] : Shown(p, t)

(* The generator is where the validator is, or has stayed for good at a map *)
(* or reference that the validator has left; deeper nothing is read yet.    *)
Followed ==
    /\ \/ target = position
       \/ target < position /\ Kind(target) \notin Scalars \union {"list"}
    /\ \A p \in Positions : position < p => rules[p] = {}

Tags ==
    /\ ConstraintsTypeOK
    /\ Followed
    /\ \A p \in Positions :
           /\ FormatKept(p)
           /\ ReadAlike(p) => Allowed(p)
           /\ p <= target => Visible(p)

(* An accepted int64 keeps its format, since no string class takes it.      *)
LEMMA PlainTaken ==
  ASSUME field \in Fields, NEW p \in Positions, FormatKept(p), SchemaIsPlainString(p),
         NEW v, Taken(p, v)
  PROVE  Kind(p) = "string" /\ v.wire = v.size
  <1>1. Kind(p) # "int64"
    <2> SUFFICES ASSUME Kind(p) = "int64" PROVE FALSE OBVIOUS
    <2>1. PICK t \in rules[p] : t.rule = "format"
      BY DEF SchemaIsPlainString, SchemaIsInt64String, FormatKept
    <2>2. Holds(p, t, v) BY DEF Taken, ServerAccepts
    <2>3. Kind(p) \in {"string", "ref"} BY <2>1, <2>2 DEF Holds
    <2> QED BY <2>3
  <1>2. Kind(p) = "string" BY <1>1 DEF SchemaIsPlainString, HasTypeString
  <1> QED BY <1>2 DEF Taken, WireValue

LEMMA Emitted ==
  ASSUME ConstraintsTypeOK, NEW p \in Positions, NEW set, Emit(p, set),
         NEW k \in Keywords
  PROVE  /\ \A a \in schema'[p][k] : a \in schema[p][k] \/ \E s \in set : s[1] = k /\ s[2] = a
         /\ (\E s \in set : s[1] = k) => schema'[p][k] # {}
         /\ schema[p][k] # {} => schema'[p][k] # {}
         /\ (\A s \in set : s[1] # k) => schema'[p][k] = schema[p][k]
         /\ \A a : (\A s \in set : s[1] = k => s[2] = a) /\ (\E s \in set : s[1] = k)
                     => schema'[p][k] = {a}
  <1>1. schema'[p][k] = IF \E s \in set : s[1] = k
                        THEN {s[2] : s \in {x \in set : x[1] = k}} ELSE schema[p][k]
    BY DEF Emit, ConstraintsTypeOK
  <1> QED BY <1>1

(* What each kind of token emits is what it enforces.                       *)
LEMMA BoundSatisfied ==
  ASSUME field \in Fields, NEW p \in Positions, FormatKept(p),
         NEW t \in Tokens, t.rule \in Bounds, NEW v \in Values, Taken(p, v), Holds(p, t, v)
  PROVE  /\ SchemaIsNumeric(p) => Satisfies(NumberKeyword(t.rule), t.arg, v)
         /\ ~SchemaIsNumeric(p) /\ ~SchemaIsInt64String(p) /\ Kind(p) # "ref" =>
                Satisfies(SizeBound(p, t)[1], SizeBound(p, t)[2], v)
  <1>1. t.arg \in Int /\ v.size \in Int /\ v.wire \in Int BY ConstraintsAssumption
  <1>2. /\ t.rule = "gt" => v.size > t.arg
        /\ t.rule = "gte" => v.size >= t.arg
        /\ t.rule = "lt" => v.size < t.arg
        /\ t.rule = "lte" => v.size <= t.arg
    BY DEF Holds
  <1>3. Satisfies(NumberKeyword(t.rule), t.arg, v)
    <2>1. CASE t.rule = "gt" BY <1>2, <2>1 DEF NumberKeyword, Satisfies
    <2>2. CASE t.rule = "gte" BY <1>2, <2>2 DEF NumberKeyword, Satisfies
    <2>3. CASE t.rule = "lt" BY <1>2, <2>3 DEF NumberKeyword, Satisfies
    <2>4. CASE t.rule = "lte" BY <1>2, <2>4 DEF NumberKeyword, Satisfies
    <2> QED BY <2>1, <2>2, <2>3, <2>4 DEF Bounds
  <1>4. ASSUME ~SchemaIsNumeric(p), ~SchemaIsInt64String(p), Kind(p) # "ref"
        PROVE  Satisfies(SizeBound(p, t)[1], SizeBound(p, t)[2], v)
    <2>1. \/ SizeKeywords(p) = [low |-> "minLength", high |-> "maxLength"] /\ v.wire = v.size
          \/ SizeKeywords(p) = [low |-> "minItems", high |-> "maxItems"]
          \/ SizeKeywords(p) = [low |-> "minProperties", high |-> "maxProperties"]
      BY <1>4, PlainTaken DEF SizeKeywords, SchemaIsPlainString
    <2>2. CASE t.rule = "gt" BY <1>1, <1>2, <2>1, <2>2 DEF SizeBound, Satisfies
    <2>3. CASE t.rule = "gte" BY <1>1, <1>2, <2>1, <2>3 DEF SizeBound, Satisfies
    <2>4. CASE t.rule = "lt" BY <1>1, <1>2, <2>1, <2>4 DEF SizeBound, Satisfies
    <2>5. CASE t.rule = "lte" BY <1>1, <1>2, <2>1, <2>5 DEF SizeBound, Satisfies
    <2> QED BY <2>2, <2>3, <2>4, <2>5 DEF Bounds
  <1> QED BY <1>3, <1>4

(* What one token may do to the schema of the position it applies to.       *)
Sound(p, t) ==
    /\ \A k \in Keywords : \A a \in schema'[p][k] :
           \/ a \in schema[p][k]
           \/ \A v \in Values : Taken(p, v) /\ Holds(p, t, v) => Satisfies(k, a, v)
    /\ \A k \in Keywords : schema[p][k] # {} => schema'[p][k] # {}
    /\ schema[p]["pattern"] # {} => schema'[p]["pattern"] = schema[p]["pattern"]
    /\ t.rule # "format" => schema'[p]["format"] = schema[p]["format"]
    /\ "int64" \in schema'[p]["format"] => "int64" \in schema[p]["format"]
    /\ notes[p] \subseteq notes'[p]
    /\ rejected = "yes" => rejected' = "yes"
    /\ Shown(p, t)'
    /\ \A q \in Positions \ {p} : schema'[q] = schema[q] /\ notes'[q] = notes[q]
    /\ DOMAIN schema' = Positions /\ DOMAIN schema'[p] = Keywords
    /\ notes' \in [Positions -> SUBSET Tokens]
    /\ rejected' \in {"yes", "no"}

LEMMA NoteSound ==
  ASSUME ConstraintsTypeOK, NEW p \in Positions, NEW t \in Tokens, Note(p, t)
  PROVE  Sound(p, t)
  <1>1. t \in notes'[p] BY DEF Note, ConstraintsTypeOK
  <1>2. Shown(p, t)' BY <1>1 DEF Shown, RuleVisible
  <1> QED BY <1>2 DEF Note, ConstraintsTypeOK, Sound

LEMMA SilentSound ==
  ASSUME ConstraintsTypeOK, NEW p \in Positions, NEW t \in Tokens, Silent,
         Shown(p, t)'
  PROVE  Sound(p, t)
  BY DEF Silent, ConstraintsTypeOK, Sound

LEMMA RejectedSound ==
  ASSUME ConstraintsTypeOK, NEW p \in Positions, NEW t \in Tokens,
         rejected' = "yes", UNCHANGED <<schema, notes>>
  PROVE  Sound(p, t)
  <1>1. Shown(p, t)' BY DEF Shown, RuleVisible
  <1> QED BY <1>1 DEF ConstraintsTypeOK, Sound

LEMMA EmitSound ==
  ASSUME ConstraintsTypeOK, NEW p \in Positions, NEW t \in Tokens, NEW set, Emit(p, set),
         \A s \in set : \A v \in Values :
             Taken(p, v) /\ Holds(p, t, v) => Satisfies(s[1], s[2], v),
         \A s \in set : \A u \in set : s[1] = "pattern" /\ u[1] = "pattern" => s[2] = u[2],
         \A s \in set : s[1] = "pattern" => schema[p]["pattern"] \subseteq {s[2]},
         \A s \in set : s[1] = "format" => t.rule = "format" /\ s[2] # "int64",
         Shown(p, t)'
  PROVE  Sound(p, t)
  <1>1. UNCHANGED <<notes, rejected>> BY DEF Emit
  <1>2. /\ DOMAIN schema' = Positions /\ DOMAIN schema'[p] = Keywords
        /\ \A q \in Positions \ {p} : schema'[q] = schema[q]
    BY DEF Emit, ConstraintsTypeOK
  <1>3. \A k \in Keywords : \A a \in schema'[p][k] :
           \/ a \in schema[p][k]
           \/ \A v \in Values : Taken(p, v) /\ Holds(p, t, v) => Satisfies(k, a, v)
    BY Emitted
  <1>4. \A k \in Keywords : schema[p][k] # {} => schema'[p][k] # {} BY Emitted
  <1>5. "pattern" \in Keywords /\ "format" \in Keywords BY DEF Keywords
  <1>6. schema[p]["pattern"] # {} => schema'[p]["pattern"] = schema[p]["pattern"]
    <2>1. CASE \A s \in set : s[1] # "pattern" BY <1>5, <2>1, Emitted
    <2>2. CASE \E s \in set : s[1] = "pattern"
      <3> PICK s \in set : s[1] = "pattern" BY <2>2
      <3>1. schema'[p]["pattern"] = {s[2]} BY <1>5, Emitted
      <3> QED BY <3>1
    <2> QED BY <2>1, <2>2
  <1>7. t.rule # "format" => schema'[p]["format"] = schema[p]["format"] BY <1>5, Emitted
  <1>8. "int64" \in schema'[p]["format"] => "int64" \in schema[p]["format"]
    BY <1>5, Emitted
  <1> QED BY <1>1, <1>2, <1>3, <1>4, <1>6, <1>7, <1>8 DEF Sound, ConstraintsTypeOK

LEMMA BoundSound ==
  ASSUME ConstraintsTypeOK, NEW p \in Positions, FormatKept(p), NEW t \in Tokens,
         t.rule \in Bounds, ApplyBound(p, t)
  PROVE  Sound(p, t)
  <1>0. field \in Fields BY DEF ConstraintsTypeOK
  <1> DEFINE Sizes == Keywords \ {"not", "enum", "uniqueItems", "pattern", "format"}
  <1>1. CASE SchemaIsNumeric(p)
    <2> DEFINE s == <<NumberKeyword(t.rule), t.arg>>
    <2>1. Emit(p, {s}) BY <1>1 DEF ApplyBound
    <2>2. s[1] \in Sizes BY DEF NumberKeyword, Bounds, Keywords
    <2>3. \A v \in Values : Taken(p, v) /\ Holds(p, t, v) => Satisfies(s[1], s[2], v)
      BY <1>0, <1>1, BoundSatisfied
    <2> HIDE DEF s
    <2>4. Shown(p, t)' BY <2>1, <2>2, Emitted DEF Shown, RuleVisible
    <2> QED BY <2>1, <2>2, <2>3, <2>4, EmitSound
  <1>2. CASE ~SchemaIsNumeric(p) /\ (SchemaIsInt64String(p) \/ Kind(p) = "ref")
    BY <1>2, NoteSound DEF ApplyBound
  <1>3. CASE ~SchemaIsNumeric(p) /\ ~(SchemaIsInt64String(p) \/ Kind(p) = "ref")
    <2> DEFINE s == SizeBound(p, t)
    <2>1. Emit(p, {s}) BY <1>3 DEF ApplyBound
    <2>2. s[1] \in Sizes BY DEF SizeBound, SizeKeywords, Bounds, Keywords
    <2>3. \A v \in Values : Taken(p, v) /\ Holds(p, t, v) => Satisfies(s[1], s[2], v)
      BY <1>0, <1>3, BoundSatisfied
    <2> HIDE DEF s
    <2>4. Shown(p, t)' BY <2>1, <2>2, Emitted DEF Shown, RuleVisible
    <2> QED BY <2>1, <2>2, <2>3, <2>4, EmitSound
  <1> QED BY <1>1, <1>2, <1>3

LEMMA LengthSound ==
  ASSUME ConstraintsTypeOK, NEW p \in Positions, FormatKept(p), NEW t \in Tokens,
         t.rule = "len", ApplyExactLength(p, t)
  PROVE  Sound(p, t)
  <1>0. field \in Fields BY DEF ConstraintsTypeOK
  <1> DEFINE Sizes == Keywords \ {"not", "enum", "uniqueItems", "pattern", "format"}
  <1>1. CASE SchemaIsNumeric(p) \/ SchemaIsInt64String(p) \/ Kind(p) = "ref"
    BY <1>1, NoteSound DEF ApplyExactLength
  <1>2. CASE ~(SchemaIsNumeric(p) \/ SchemaIsInt64String(p) \/ Kind(p) = "ref")
    <2> DEFINE l == <<SizeKeywords(p).low, t.arg>>
               h == <<SizeKeywords(p).high, t.arg>>
    <2>1. Emit(p, {l, h}) BY <1>2 DEF ApplyExactLength
    <2>2. l[1] \in Sizes /\ h[1] \in Sizes BY DEF SizeKeywords, Keywords
    <2>3. ASSUME NEW v \in Values, Taken(p, v), Holds(p, t, v)
          PROVE  Satisfies(l[1], l[2], v) /\ Satisfies(h[1], h[2], v)
      <3>1. t.arg \in Int /\ v.size \in Int /\ v.wire \in Int BY ConstraintsAssumption
      <3>2. v.size = t.arg BY <2>3 DEF Holds
      <3>3. \/ SizeKeywords(p) = [low |-> "minLength", high |-> "maxLength"] /\ v.wire = v.size
            \/ SizeKeywords(p) = [low |-> "minItems", high |-> "maxItems"]
            \/ SizeKeywords(p) = [low |-> "minProperties", high |-> "maxProperties"]
        BY <1>0, <1>2, <2>3, PlainTaken DEF SizeKeywords, SchemaIsPlainString
      <3> QED BY <3>1, <3>2, <3>3 DEF Satisfies
    <2> HIDE DEF l, h
    <2>4. Shown(p, t)' BY <2>1, <2>2, Emitted DEF Shown, RuleVisible
    <2> QED BY <2>1, <2>2, <2>3, <2>4, EmitSound
  <1> QED BY <1>1, <1>2

LEMMA NotEqualSound ==
  ASSUME ConstraintsTypeOK, NEW p \in Positions, NEW t \in Tokens,
         t.rule = "ne", ApplyNotEqual(p, t)
  PROVE  Sound(p, t)
  <1>1. CASE SchemaIsNumeric(p) \/ SchemaIsPlainString(p)
    <2> DEFINE s == <<"not", t.arg>>
    <2>0. ~Collection(p)
      <3>1. Kind(p) \in Scalars
        BY <1>1 DEF Scalars, SchemaIsNumeric, SchemaIsPlainString, HasTypeString
      <3> QED BY <3>1, ConstraintsAssumption DEF ConstraintsTypeOK, Collection, Kind
    <2>1. Emit(p, {s}) BY <1>1 DEF ApplyNotEqual
    <2>2. s[1] = "not" /\ "not" \in Keywords BY DEF Keywords
    <2>3. \A v \in Values : Taken(p, v) /\ Holds(p, t, v) => Satisfies(s[1], s[2], v)
      BY <2>0 DEF Holds, Satisfies
    <2> HIDE DEF s
    <2>4. Shown(p, t)' BY <2>1, <2>2, Emitted DEF Shown, RuleVisible
    <2> QED BY <2>1, <2>2, <2>3, <2>4, EmitSound
  <1>2. CASE ~(SchemaIsNumeric(p) \/ SchemaIsPlainString(p))
    BY <1>2, NoteSound DEF ApplyNotEqual
  <1> QED BY <1>1, <1>2

LEMMA OneOfSound ==
  ASSUME ConstraintsTypeOK, NEW p \in Positions, NEW t \in Tokens,
         t.rule = "oneof", ApplyOneOf(p, t)
  PROVE  Sound(p, t)
  <1>1. CASE t.arg = {} BY <1>1, RejectedSound DEF ApplyOneOf
  <1>2. CASE t.arg # {} /\ Kind(p) = "ref" BY <1>2, NoteSound DEF ApplyOneOf
  <1>3. CASE t.arg # {} /\ Kind(p) # "ref"
    <2> DEFINE s == <<"enum", t.arg>>
    <2>1. Emit(p, {s}) BY <1>3 DEF ApplyOneOf
    <2>2. s[1] = "enum" /\ "enum" \in Keywords BY DEF Keywords
    <2>3. \A v \in Values : Taken(p, v) /\ Holds(p, t, v) => Satisfies(s[1], s[2], v)
      BY DEF Holds, Satisfies
    <2> HIDE DEF s
    <2>4. Shown(p, t)' BY <2>1, <2>2, Emitted DEF Shown, RuleVisible
    <2> QED BY <2>1, <2>2, <2>3, <2>4, EmitSound
  <1> QED BY <1>1, <1>2, <1>3

LEMMA UniqueSound ==
  ASSUME ConstraintsTypeOK, NEW p \in Positions, NEW t \in Tokens,
         t.rule = "unique", ApplyUnique(p, t)
  PROVE  Sound(p, t)
  <1>1. CASE Kind(p) = "list"
    <2> DEFINE s == <<"uniqueItems", "true">>
    <2>1. Emit(p, {s}) BY <1>1 DEF ApplyUnique
    <2>2. s[1] = "uniqueItems" /\ "uniqueItems" \in Keywords BY DEF Keywords
    <2>3. \A v \in Values : Taken(p, v) /\ Holds(p, t, v) => Satisfies(s[1], s[2], v)
      BY DEF Holds, Satisfies
    <2> HIDE DEF s
    <2>4. Shown(p, t)' BY <2>1, <2>2, Emitted DEF Shown, RuleVisible
    <2> QED BY <2>1, <2>2, <2>3, <2>4, EmitSound
  <1>2. CASE Kind(p) # "list" BY <1>2, NoteSound DEF ApplyUnique
  <1> QED BY <1>1, <1>2

LEMMA FormatSound ==
  ASSUME ConstraintsTypeOK, NEW p \in Positions, NEW t \in Tokens,
         t.rule = "format", ApplyFormat(p, t)
  PROVE  Sound(p, t)
  <1>1. CASE HasTypeString(p)
    <2> DEFINE s == <<"format", t.arg>>
    <2>1. Emit(p, {s}) BY <1>1 DEF ApplyFormat
    <2>2. s[1] = "format" /\ "format" \in Keywords /\ s[2] # "int64"
      BY ConstraintsAssumption DEF Keywords
    <2>3. \A v \in Values : Satisfies(s[1], s[2], v) BY DEF Satisfies
    <2> HIDE DEF s
    <2>4. Shown(p, t)' BY <2>1, <2>2, Emitted DEF Shown, RuleVisible
    <2> QED BY <2>1, <2>2, <2>3, <2>4, EmitSound
  <1>2. CASE ~HasTypeString(p) BY <1>2, NoteSound DEF ApplyFormat
  <1> QED BY <1>1, <1>2

LEMMA PatternSound ==
  ASSUME ConstraintsTypeOK, NEW p \in Positions, FormatKept(p), NEW t \in Tokens,
         t.rule \in {"pattern", "digits"}, ApplyPattern(p, t)
  PROVE  Sound(p, t)
  <1>0. field \in Fields BY DEF ConstraintsTypeOK
  <1>1. CASE PatternFits(p, t.arg)
    <2> DEFINE s == <<"pattern", t.arg>>
    <2>1. Emit(p, {s}) BY <1>1 DEF ApplyPattern
    <2>2. s[1] = "pattern" /\ "pattern" \in Keywords /\ s[2] = t.arg BY DEF Keywords
    <2>3. ASSUME NEW v \in Values, Taken(p, v), Holds(p, t, v)
          PROVE  Satisfies(s[1], s[2], v)
      <3>1. Kind(p) = "string" BY <1>0, <1>1, <2>3, PlainTaken DEF PatternFits
      <3>2. t.arg \in v.classes BY <2>3, <3>1 DEF Holds
      <3> QED BY <3>2 DEF Satisfies
    <2>4. schema[p]["pattern"] \subseteq {s[2]} BY <1>1 DEF PatternFits
    <2> HIDE DEF s
    <2>5. schema'[p]["pattern"] = {t.arg} BY <2>1, <2>2, Emitted
    <2>6. Shown(p, t)' BY <2>5 DEF Shown, RuleVisible
    <2> QED BY <2>1, <2>2, <2>3, <2>4, <2>6, EmitSound
  <1>2. CASE ~PatternFits(p, t.arg) BY <1>2, NoteSound DEF ApplyPattern
  <1> QED BY <1>1, <1>2

LEMMA DigitsSound ==
  ASSUME ConstraintsTypeOK, NEW p \in Positions, FormatKept(p), NEW t \in Tokens,
         t.rule = "digits", ApplyDigits(p, t), field' = field
  PROVE  Sound(p, t)
  <1>1. CASE SchemaIsPlainString(p) BY <1>1, PatternSound DEF ApplyDigits
  <1>2. CASE ~SchemaIsPlainString(p)
    <2>1. Kind(p) # "string"
      BY <1>2 DEF SchemaIsPlainString, SchemaIsInt64String, HasTypeString, FormatKept
    <2>2. Kind(p)' # "string" BY <2>1 DEF Kind
    <2>3. Shown(p, t)' BY <2>2 DEF Shown, Unwritten
    <2> QED BY <1>2, <2>3, SilentSound DEF ApplyDigits
  <1> QED BY <1>1, <1>2

LEMMA CodeSound ==
  ASSUME ConstraintsTypeOK, NEW p \in Positions, FormatKept(p), NEW t \in Tokens,
         t.rule = "code", ApplyCode(p, t)
  PROVE  Sound(p, t)
  <1>0. field \in Fields BY DEF ConstraintsTypeOK
  <1>1. CASE PatternFits(p, t.arg.class)
    <2> DEFINE s == <<"pattern", t.arg.class>>
               l == <<"minLength", t.arg.length>>
               h == <<"maxLength", t.arg.length>>
    <2>1. Emit(p, {s, l, h}) BY <1>1 DEF ApplyCode
    <2>2. /\ s[1] = "pattern" /\ s[2] = t.arg.class
          /\ l[1] = "minLength" /\ h[1] = "maxLength"
          /\ {"pattern", "minLength", "maxLength"} \subseteq Keywords
      BY DEF Keywords
    <2>3. ASSUME NEW v \in Values, Taken(p, v), Holds(p, t, v)
          PROVE  /\ Satisfies(s[1], s[2], v)
                 /\ Satisfies(l[1], l[2], v) /\ Satisfies(h[1], h[2], v)
      <3>1. t.arg.length \in Int /\ v.size \in Int /\ v.wire \in Int
        BY ConstraintsAssumption
      <3>2. v.wire = v.size BY <1>0, <1>1, <2>3, PlainTaken DEF PatternFits
      <3>3. t.arg.class \in v.classes /\ v.size = t.arg.length BY <2>3 DEF Holds
      <3> QED BY <3>1, <3>2, <3>3 DEF Satisfies
    <2>4. schema[p]["pattern"] \subseteq {s[2]} BY <1>1 DEF PatternFits
    <2> HIDE DEF s, l, h
    <2>5. schema'[p]["pattern"] = {t.arg.class}
      <3> DEFINE set == {s, l, h}
      <3>1. /\ \A u \in set : u[1] = "pattern" => u[2] = t.arg.class
            /\ \E u \in set : u[1] = "pattern"
        BY <2>2
      <3>2. Emit(p, set) /\ "pattern" \in Keywords BY <2>1, <2>2
      <3> HIDE DEF set
      <3> QED BY <3>1, <3>2, Emitted
    <2>6. Shown(p, t)' BY <2>5 DEF Shown, RuleVisible
    <2> QED BY <2>1, <2>2, <2>3, <2>4, <2>6, EmitSound
  <1>2. CASE ~PatternFits(p, t.arg.class) BY <1>2, NoteSound DEF ApplyCode
  <1> QED BY <1>1, <1>2

LEMMA RangeSound ==
  ASSUME ConstraintsTypeOK, NEW p \in Positions, NEW t \in Tokens,
         t.rule = "range", ApplyNumericRange(p, t)
  PROVE  Sound(p, t)
  <1>1. CASE SchemaIsNumeric(p)
    <2> DEFINE l == <<"minimum", t.arg.low>>
               h == <<"maximum", t.arg.high>>
    <2>1. Emit(p, {l, h}) BY <1>1 DEF ApplyNumericRange
    <2>2. l[1] = "minimum" /\ h[1] = "maximum" /\ {"minimum", "maximum"} \subseteq Keywords
      BY DEF Keywords
    <2>3. ASSUME NEW v \in Values, Taken(p, v), Holds(p, t, v)
          PROVE  Satisfies(l[1], l[2], v) /\ Satisfies(h[1], h[2], v)
      <3>1. t.arg.low \in Int /\ t.arg.high \in Int /\ v.size \in Int
        BY ConstraintsAssumption
      <3>2. v.size \in t.arg.low .. t.arg.high BY <1>1, <2>3 DEF Holds, SchemaIsNumeric
      <3> QED BY <3>1, <3>2 DEF Satisfies
    <2> HIDE DEF l, h
    <2>4. Shown(p, t)' BY <2>1, <2>2, Emitted DEF Shown, RuleVisible
    <2> QED BY <2>1, <2>2, <2>3, <2>4, EmitSound
  <1>2. CASE ~SchemaIsNumeric(p) BY <1>2, NoteSound DEF ApplyNumericRange
  <1> QED BY <1>1, <1>2

LEMMA TokenSound ==
  ASSUME ConstraintsTypeOK, NEW p \in Positions, FormatKept(p), NEW t \in Tokens,
         t.rule # "dive", ApplyValidateToken(p, t), field' = field
  PROVE  Sound(p, t)
  <1>0. t.rule \in Rules BY ConstraintsAssumption
  <1>1. CASE t.rule \in Bounds
    BY <1>1, BoundSound DEF ApplyValidateToken, Bounds
  <1>2. CASE t.rule = "len"
    BY <1>2, LengthSound DEF ApplyValidateToken, Bounds
  <1>3. CASE t.rule = "ne"
    BY <1>3, NotEqualSound DEF ApplyValidateToken, Bounds
  <1>4. CASE t.rule = "oneof"
    BY <1>4, OneOfSound DEF ApplyValidateToken, Bounds
  <1>5. CASE t.rule = "unique"
    BY <1>5, UniqueSound DEF ApplyValidateToken, Bounds
  <1>6. CASE t.rule = "format"
    BY <1>6, FormatSound DEF ApplyValidateToken, Bounds
  <1>7. CASE t.rule = "pattern"
    BY <1>7, PatternSound DEF ApplyValidateToken, Bounds
  <1>8. CASE t.rule = "digits"
    BY <1>8, DigitsSound DEF ApplyValidateToken, Bounds
  <1>9. CASE t.rule = "code"
    BY <1>9, CodeSound DEF ApplyValidateToken, Bounds
  <1>10. CASE t.rule = "range"
    BY <1>10, RangeSound DEF ApplyValidateToken, Bounds
  <1>11. CASE t.rule = "note"
    BY <1>11, NoteSound DEF ApplyValidateToken, Bounds
  <1>12. CASE t.rule \in {"required", "omitempty"}
    <2>1. Shown(p, t)' BY <1>12 DEF Shown, RuleVisible, Unwritten
    <2> QED BY <1>12, <2>1, SilentSound DEF ApplyValidateToken, Bounds
  <1>13. CASE t.rule = "unmapped"
    BY <1>13, RejectedSound DEF ApplyValidateToken, Bounds
  <1> QED
    BY <1>0, <1>1, <1>2, <1>3, <1>4, <1>5, <1>6, <1>7, <1>8, <1>9, <1>10, <1>11, <1>12,
       <1>13 DEF Rules

LEMMA HoldsRests ==
  ASSUME field' = field, NEW p, NEW t, NEW v
  PROVE  Holds(p, t, v)' <=> Holds(p, t, v)
  BY DEF Holds, HasWireZero, Collection, Kind

(* A longer tag takes fewer values.                                         *)
LEMMA TakenBefore ==
  ASSUME NEW p \in Positions, NEW v, field' = field, rules[p] \subseteq rules'[p],
         Taken(p, v)'
  PROVE  Taken(p, v) /\ \A t \in rules'[p] : Holds(p, t, v)
  <1>1. WireValue(Kind(p), v) BY DEF Taken, WireValue, Kind
  <1>2. \A t \in rules'[p] : Holds(p, t, v) BY HoldsRests DEF Taken, ServerAccepts
  <1>3. ServerAccepts(p, v) BY <1>2 DEF ServerAccepts
  <1>4. ~Skipped(p, v) BY DEF Taken, Skipped, HasWireZero, Collection, Kind
  <1> QED BY <1>1, <1>2, <1>3, <1>4 DEF Taken

LEMMA FormatRests ==
  ASSUME NEW p \in Positions, FormatKept(p), field' = field,
         schema'[p] = schema[p], rules[p] \subseteq rules'[p]
  PROVE  FormatKept(p)'
  BY DEF FormatKept, Kind

(* The token applies where it is documented.                                *)
LEMMA AllowedKept ==
  ASSUME NEW p \in Positions, Allowed(p), NEW t, field' = field,
         rules'[p] = rules[p] \union {t}, Sound(p, t)
  PROVE  Allowed(p)'
  <1> SUFFICES ASSUME NEW v \in Values, Taken(p, v)', NEW k \in Keywords,
                      NEW a \in schema'[p][k]
               PROVE  Satisfies(k, a, v)
    BY DEF Allowed, Satisfies
  <1>1. Taken(p, v) /\ Holds(p, t, v) BY TakenBefore
  <1> QED BY <1>1 DEF Allowed, Sound

LEMMA AllowedRests ==
  ASSUME NEW p \in Positions, Allowed(p), field' = field,
         rules[p] \subseteq rules'[p], schema'[p] = schema[p]
  PROVE  Allowed(p)'
  <1> SUFFICES ASSUME NEW v \in Values, Taken(p, v)', NEW k \in Keywords,
                      NEW a \in schema'[p][k]
               PROVE  Satisfies(k, a, v)
    BY DEF Allowed, Satisfies
  <1>1. Taken(p, v) BY TakenBefore
  <1> QED BY <1>1 DEF Allowed

(* A token that is visible stays so whatever comes after it.                *)
LEMMA ShownKept ==
  ASSUME NEW p \in Positions, NEW u, Shown(p, u), NEW t, Sound(p, t), field' = field
  PROVE  Shown(p, u)'
  <1>1. CASE RuleVisible(p, u)
    <2>2. \A k \in Keywords : schema[p][k] # {} => schema'[p][k] # {} BY DEF Sound
    <2>3. \A a : schema[p]["pattern"] = {a} => schema'[p]["pattern"] = {a} BY DEF Sound
    <2>4. notes[p] \subseteq notes'[p] /\ (rejected = "yes" => rejected' = "yes")
      BY DEF Sound
    <2>6. {"not", "enum", "uniqueItems", "format"} \subseteq Keywords BY DEF Keywords
    <2>7. RuleVisible(p, u)' BY <1>1, <2>2, <2>3, <2>4, <2>6 DEF RuleVisible
    <2> QED BY <2>7 DEF Shown
  <1>2. CASE Unwritten(p, u) BY <1>2 DEF Shown, Unwritten, Kind
  <1> QED BY <1>1, <1>2 DEF Shown

LEMMA VisibleRests ==
  ASSUME NEW p \in Positions, Visible(p), field' = field, rules'[p] = rules[p],
         schema'[p] = schema[p], notes[p] \subseteq notes'[p],
         rejected = "yes" => rejected' = "yes"
  PROVE  Visible(p)'
  <1> SUFFICES ASSUME NEW t \in rules[p] PROVE Shown(p, t)' BY DEF Visible
  <1>1. Shown(p, t) BY DEF Visible
  <1>2. CASE RuleVisible(p, t) BY <1>2 DEF Shown, RuleVisible
  <1>3. CASE Unwritten(p, t) BY <1>3 DEF Shown, Unwritten, Kind
  <1> QED BY <1>1, <1>2, <1>3 DEF Shown

LEMMA TagsInit == Init => Tags
  <1> SUFFICES ASSUME Init PROVE Tags OBVIOUS
  <1>0. ConstraintsInit BY DEF Init
  <1>1. ConstraintsTypeOK
    <2>1. 1 \in Positions BY ConstraintsAssumption DEF Positions
    <2> QED BY <1>0, <2>1, ConstraintsAssumption
      DEF ConstraintsInit, ConstraintsTypeOK, NoKeywords
  <1>2. ASSUME NEW p \in Positions PROVE FormatKept(p) /\ Allowed(p) /\ Visible(p)
    <2>1. schema[p] = NoKeywords(Kind(p)) /\ rules[p] = {} BY <1>0 DEF ConstraintsInit
    <2>2. FormatKept(p) BY <2>1 DEF FormatKept, NoKeywords, Keywords
    <2>3. \A k \in Keywords : \A a \in schema[p][k] : k = "format"
      BY <2>1 DEF NoKeywords
    <2>4. \A a, v : Satisfies("format", a, v) BY DEF Satisfies
    <2>5. Allowed(p) BY <2>3, <2>4 DEF Allowed
    <2>6. Visible(p) BY <2>1 DEF Visible
    <2> QED BY <2>2, <2>5, <2>6
  <1>3. Followed BY <1>0 DEF ConstraintsInit, Followed, Positions
  <1> QED BY <1>1, <1>2, <1>3 DEF Tags

(* Where the readers are apart, the token binds deeper than it is           *)
(* documented: the rules above and the keywords below stay as they were.    *)
LEMMA TokenKeeps == ASSUME Tags, NEW t \in Tokens, Token(t) PROVE Tags'
  <1>1. ConstraintsTypeOK BY DEF Tags
  <1> PICK g \in Positions : g = target BY <1>1 DEF ConstraintsTypeOK
  <1> PICK p \in Positions : p = position BY <1>1 DEF ConstraintsTypeOK
  <1>2. /\ rules' = [rules EXCEPT ![p] = @ \union {t}] /\ t.rule # "dive"
        /\ ApplyValidateToken(g, t) /\ field' = field
        /\ target' = target /\ position' = position
        /\ length < MaxTokens /\ length' = length + 1
    BY DEF Token
  <1>3. Sound(g, t) BY <1>1, <1>2, TokenSound DEF Tags
  <1>4. ConstraintsTypeOK'
    <2>1. length' \in 0 .. MaxTokens
      BY <1>1, <1>2, ConstraintsAssumption DEF ConstraintsTypeOK
    <2>2. rules' \in [Positions -> SUBSET Tokens] BY <1>1, <1>2 DEF ConstraintsTypeOK
    <2>3. /\ DOMAIN schema' = Positions /\ DOMAIN schema'[g] = Keywords
          /\ \A q \in Positions \ {g} : schema'[q] = schema[q]
          /\ notes' \in [Positions -> SUBSET Tokens] /\ rejected' \in {"yes", "no"}
      BY <1>3 DEF Sound
    <2>4. \A q \in Positions : DOMAIN schema'[q] = Keywords
      BY <1>1, <2>3 DEF ConstraintsTypeOK
    <2> QED BY <1>1, <1>2, <2>1, <2>2, <2>3, <2>4 DEF ConstraintsTypeOK
  <1>6. /\ rules'[p] = rules[p] \union {t}
        /\ \A q \in Positions \ {p} : rules'[q] = rules[q]
    BY <1>1, <1>2 DEF ConstraintsTypeOK
  <1>7. /\ \A q \in Positions \ {g} : schema'[q] = schema[q] /\ notes'[q] = notes[q]
        /\ notes[g] \subseteq notes'[g]
        /\ rejected = "yes" => rejected' = "yes"
    BY <1>3 DEF Sound
  <1>8. g = p \/ (g < p /\ Kind(g) \notin Scalars \union {"list"}) BY DEF Tags, Followed
  <1>5. Followed'
    <2>1. ASSUME NEW q \in Positions, p < q PROVE rules'[q] = {}
      BY <1>6, <2>1 DEF Tags, Followed, Positions
    <2> QED BY <1>2, <1>8, <2>1 DEF Followed, Kind
  <1>9. ASSUME NEW q \in Positions PROVE FormatKept(q)'
    <2>1. FormatKept(q) BY DEF Tags
    <2>2. rules[q] \subseteq rules'[q] BY <1>6
    <2>3. CASE q # g BY <1>2, <1>7, <2>1, <2>2, <2>3, FormatRests
    <2>4. CASE q = g /\ t.rule # "format"
      <3>1. schema'[g]["format"] = schema[g]["format"] BY <1>3, <2>4 DEF Sound
      <3> QED BY <1>2, <2>1, <2>2, <2>4, <3>1 DEF FormatKept, Kind
    <2>5. CASE q = g /\ t.rule = "format"
      <3>1. "int64" \in schema'[g]["format"] => "int64" \in schema[g]["format"]
        BY <1>3 DEF Sound
      <3>2. Kind(g) = "int64" => g = p BY <1>8 DEF Scalars
      <3> QED BY <1>2, <1>6, <2>1, <2>5, <3>1, <3>2 DEF FormatKept, Kind
    <2> QED BY <2>3, <2>4, <2>5
  <1>10. ASSUME NEW q \in Positions, ReadAlike(q)' PROVE Allowed(q)'
    <2>1. ReadAlike(q) BY <1>2, <1>10 DEF ReadAlike
    <2>2. Allowed(q) BY <2>1 DEF Tags
    <2>3. q = g => q = p BY <2>1 DEF ReadAlike
    <2>4. CASE q = g BY <1>2, <1>3, <1>6, <2>2, <2>3, <2>4, AllowedKept
    <2>5. CASE q # g
      <3>1. rules[q] \subseteq rules'[q] /\ schema'[q] = schema[q] BY <1>6, <1>7, <2>5
      <3> QED BY <1>2, <2>2, <3>1, AllowedRests
    <2> QED BY <2>4, <2>5
  <1>11. ASSUME NEW q \in Positions, q <= target' PROVE Visible(q)'
    <2>1. Visible(q) BY <1>2, <1>11 DEF Tags
    <2>2. q = p => q = g BY <1>2, <1>8, <1>11 DEF Positions
    <2>3. CASE q = g
      <3> SUFFICES ASSUME NEW u \in rules'[g] PROVE Shown(g, u)' BY <2>3 DEF Visible
      <3>1. u = t \/ u \in rules[g] BY <1>6
      <3>2. CASE u = t BY <1>3, <3>2 DEF Sound
      <3>3. CASE u \in rules[g]
        <4>1. Shown(g, u) BY <2>1, <2>3, <3>3 DEF Visible
        <4> QED BY <1>2, <1>3, <4>1, ShownKept
      <3> QED BY <3>1, <3>2, <3>3
    <2>4. CASE q # g
      <3>1. /\ rules'[q] = rules[q] /\ schema'[q] = schema[q]
            /\ notes[q] \subseteq notes'[q]
        BY <1>6, <1>7, <2>2, <2>4
      <3> QED BY <1>2, <1>7, <2>1, <3>1, VisibleRests
    <2> QED BY <2>3, <2>4
  <1> QED BY <1>4, <1>5, <1>9, <1>10, <1>11 DEF Tags

LEMMA DiveKeeps == ASSUME Tags, NEW t \in Tokens, Dive(t) PROVE Tags'
  <1>1. ConstraintsTypeOK /\ Followed BY DEF Tags
  <1> PICK g \in Positions : g = target BY <1>1 DEF ConstraintsTypeOK
  <1> PICK p \in Positions : p = position BY <1>1 DEF ConstraintsTypeOK
  <1>2. /\ UNCHANGED <<field, rules, schema>>
        /\ length < MaxTokens /\ length' = length + 1
    BY DEF Dive
  <1>3. \/ Collection(p) /\ position' = p + 1 /\ rejected' = rejected
        \/ ~Collection(p) /\ position' = p /\ rejected' = "yes"
    BY DEF Dive
  <1>4. \/ Kind(g) = "list" /\ target' = g + 1 /\ notes' = notes
        \/ /\ Kind(g) # "list" /\ target' = g
           /\ notes' = [notes EXCEPT ![g] = @ \union {t}]
    BY DEF Dive
  <1>5. Kind(g) = "list" => g = p /\ Collection(p)
    <2>1. Kind(g) = "list" => g = p BY <1>1 DEF Followed
    <2>2. Kind(p) = "list" => Collection(p)
      BY <1>1, ConstraintsAssumption DEF ConstraintsTypeOK, Kind, Collection
    <2> QED BY <2>1, <2>2
  <1>6. g <= p BY <1>1 DEF Followed, Positions
  <1>7. position' \in Positions /\ target' \in Positions
    BY <1>3, <1>4, <1>5 DEF Collection
  <1>8. ConstraintsTypeOK'
    BY <1>1, <1>2, <1>3, <1>4, <1>7, ConstraintsAssumption DEF ConstraintsTypeOK
  <1>9. Followed'
    <2>1. ASSUME NEW q \in Positions, position' < q PROVE rules'[q] = {}
      BY <1>1, <1>2, <1>3, <2>1 DEF Followed, Positions
    <2>2. CASE Kind(g) = "list" BY <1>3, <1>4, <1>5, <2>1, <2>2 DEF Followed
    <2>3. CASE Kind(g) # "list" /\ position' = p
      BY <1>1, <1>2, <1>4, <2>1, <2>3 DEF Followed, Kind
    <2>4. CASE Kind(g) # "list" /\ position' = p + 1 /\ Collection(p)
      <3>1. Kind(g) \notin Scalars \union {"list"}
        <4>1. g # p => Kind(g) \notin Scalars BY <1>1 DEF Followed
        <4>2. Kind(p) \notin Scalars
          BY <1>1, <2>4, ConstraintsAssumption DEF ConstraintsTypeOK, Collection, Kind
        <4> QED BY <2>4, <4>1, <4>2
      <3>2. target' = g /\ g < position' BY <1>4, <1>6, <2>4 DEF Positions
      <3>3. Kind(g)' = Kind(g) BY <1>2 DEF Kind
      <3> QED BY <2>1, <3>1, <3>2, <3>3 DEF Followed
    <2> QED BY <1>3, <2>2, <2>3, <2>4
  <1>10. ASSUME NEW q \in Positions PROVE FormatKept(q)'
    BY <1>2, FormatRests DEF Tags
  <1>11. ASSUME NEW q \in Positions, ReadAlike(q)' PROVE Allowed(q)'
    <2>1. q = g => g = p
      <3> SUFFICES ASSUME q = g, g # p PROVE FALSE OBVIOUS
      <3>1. target' = g BY <1>4, <1>5
      <3>2. position' # g BY <1>1, <1>3, <1>6 DEF Positions
      <3> QED BY <1>11, <3>1, <3>2 DEF ReadAlike
    <2>2. ReadAlike(q) BY <2>1 DEF ReadAlike
    <2>3. Allowed(q) BY <2>2 DEF Tags
    <2> QED BY <1>2, <2>3, AllowedRests
  <1>12. ASSUME NEW q \in Positions, q <= target' PROVE Visible(q)'
    <2>1. CASE q <= target
      <3>1. Visible(q) BY <2>1 DEF Tags
      <3>2. notes[q] \subseteq notes'[q] BY <1>1, <1>4 DEF ConstraintsTypeOK
      <3> QED BY <1>2, <1>3, <3>1, <3>2, VisibleRests
    <2>2. CASE ~(q <= target)
      <3>1. q = g + 1 /\ g = p BY <1>4, <1>5, <1>12, <2>2 DEF Positions
      <3>2. rules[q] = {} BY <1>1, <3>1 DEF Followed, Positions
      <3> QED BY <1>2, <3>2 DEF Visible
    <2> QED BY <2>1, <2>2
  <1> QED BY <1>8, <1>9, <1>10, <1>11, <1>12 DEF Tags

LEMMA TagsRest == ASSUME Tags, UNCHANGED constraintVars PROVE Tags'
  <1>1. ConstraintsTypeOK' BY DEF Tags, ConstraintsTypeOK, constraintVars
  <1>2. Followed' BY DEF Tags, Followed, Kind, constraintVars
  <1>3. ASSUME NEW p \in Positions
        PROVE  /\ FormatKept(p)' /\ (ReadAlike(p)' => Allowed(p)')
               /\ (p <= target' => Visible(p)')
    <2>1. FormatKept(p)' BY FormatRests DEF Tags, constraintVars
    <2>2. ReadAlike(p)' => Allowed(p)'
      BY AllowedRests DEF Tags, ReadAlike, constraintVars
    <2>3. p <= target' => Visible(p)' BY VisibleRests DEF Tags, constraintVars
    <2> QED BY <2>1, <2>2, <2>3
  <1> QED BY <1>1, <1>2, <1>3 DEF Tags

LEMMA TagsNext == Tags /\ [Next]_documentVars => Tags'
  <1> SUFFICES ASSUME Tags, [Next]_documentVars PROVE Tags' OBVIOUS
  <1>1. CASE ConstraintsNext BY <1>1, DiveKeeps, TokenKeeps DEF ConstraintsNext
  <1>2. CASE UNCHANGED constraintVars BY <1>2, TagsRest
  <1> QED BY <1>1, <1>2 DEF Next, documentVars

LEMMA TagsAlways == Spec => []Tags
  BY TagsInit, TagsNext, PTL DEF Spec

(* Whatever tokens a validate tag puts together, over any fields and values, *)
(* the keywords applyValidateTag publishes allow what validator/v10 takes,   *)
(* at every position except a map or named collection that it dived into.    *)
THEOREM DocumentAllowsAccepted == Spec => []AcceptedIsDocumented
  <1>1. ASSUME Tags PROVE AcceptedIsDocumented
    <2> SUFFICES ASSUME NEW p \in Positions, ReadAlike(p), NEW k \in Keywords,
                        NEW a \in schema[p][k], NEW v \in Values, Taken(p, v)
                 PROVE  Satisfies(k, a, v)
      BY DEF AcceptedIsDocumented, AllowsAccepted, Taken
    <2> QED BY <1>1 DEF Tags, Allowed
  <1> QED BY <1>1, TagsAlways, PTL

(* As deep as the generator follows, a token that is enforced leaves a       *)
(* keyword, a note or a build error; the exceptions are required on elements *)
(* and number, numeric and boolean off strings.                              *)
THEOREM OnlyUnwrittenHidden == Spec => []EnforcedIsVisible
  <1>1. ASSUME Tags PROVE EnforcedIsVisible
    <2> SUFFICES ASSUME NEW p \in 1 .. target, NEW t \in rules[p]
                 PROVE  RuleVisible(p, t) \/ Unwritten(p, t)
      BY DEF EnforcedIsVisible
    <2>1. p \in Positions /\ p <= target
      BY <1>1, ConstraintsAssumption DEF Tags, ConstraintsTypeOK, Positions
    <2> QED BY <1>1, <2>1 DEF Tags, Visible, Shown
  <1> QED BY <1>1, TagsAlways, PTL

-----------------------------------------------------------------------------
(* Tags, components and files stay well formed for every instance.          *)
THEOREM TypeCorrect == Spec => []TypeOK
  <1>1. Tags /\ Deriving /\ Files => TypeOK BY DEF Tags, Deriving, Files, TypeOK
  <1> QED BY <1>1, TagsAlways, DerivingAlways, FilesAlways, PTL

=============================================================================
