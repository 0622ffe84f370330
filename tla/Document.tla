------------------------------ MODULE Document ------------------------------
(***************************************************************************)
(* How the published document comes about: the validate tags of a field    *)
(* become keywords (Constraints), the types of the operations become       *)
(* components (Components), and the generator publishes what Build         *)
(* accepted (Generator).  The three hand results on and share no state, so *)
(* a behaviour follows one of them and the others rest.                    *)
(***************************************************************************)
EXTENDS Constraints, Components, Generator

VARIABLE part    \* the part of the generator this behaviour follows

documentVars == <<part, constraintVars, componentVars, generatorVars>>

RestingField == CHOOSE f \in Fields : TRUE
RestingGraph == CHOOSE g \in Graphs : TRUE
RestingOperations == CHOOSE d \in Documents : TRUE
RestingNames == CHOOSE m \in Namings : TRUE

Init ==
    /\ part \in {"tags", "components", "files"}
    /\ part # "tags" => field = RestingField
    /\ part # "components" =>
           graph = RestingGraph /\ document = RestingOperations /\ naming = RestingNames
    /\ part # "files" => refused = [r \in Runs |-> "no"]
    /\ ConstraintsInit
    /\ ComponentsInit
    /\ GeneratorInit

Next ==
    /\ \/ part = "tags" /\ ConstraintsNext /\ UNCHANGED <<componentVars, generatorVars>>
       \/ part = "components" /\ ComponentsNext /\ UNCHANGED <<constraintVars, generatorVars>>
       \/ part = "files" /\ GeneratorNext /\ UNCHANGED <<constraintVars, componentVars>>
    /\ UNCHANGED part

\* The generator is one sequential program that is not stopped from outside
\* (a killed run counts as ended).
Spec == Init /\ [][Next]_documentVars /\ WF_documentVars(Next)

----------------------------------------------------------------------------
(* Properties.                                                             *)

\* Types of the three parts.
TypeOK == ConstraintsTypeOK /\ ComponentsTypeOK /\ GeneratorTypeOK

\* Deriving, comparing twins until nothing changes and naming come to an end
\* for every type graph, cyclic ones included, and so does every run of the
\* generator.
DocumentEnds ==
    /\ part = "components" ~> phase \in {"built", "failed"}
    /\ part = "files" ~> \A r \in Runs : step[r] \in {"exit 0", "exit 1", "killed"}

=============================================================================
