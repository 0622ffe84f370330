----------------------------- MODULE Generator -----------------------------
(***************************************************************************)
(* cmd/openapi: a run of the document generator compiles the real route    *)
(* tree over inert dependencies, renders the document and replaces         *)
(* internal/server/openapi.json, which the server embeds.  The replacement *)
(* goes through a temporary file and a rename.  Runs may overlap, fail at  *)
(* any call and be killed at any instant.                                  *)
(*                                                                         *)
(* The directory is external: a map from names to the files of the runs,   *)
(* in which rename is atomic.  Two histories stand beside it: whose file   *)
(* another run took by its name, and whose deferred Remove failed.         *)
(***************************************************************************)
EXTENDS Integers

CONSTANTS
    Runs,        \* runs of the generator, each with its own document
    TempNames,   \* the names CreateTemp may pick
    Original,    \* the content of the file before any run
    Nothing      \* no content, no name

ASSUME GeneratorAssumption ==
    /\ Original \notin Runs /\ Nothing \notin Runs \union TempNames
    /\ Original # Nothing

VARIABLES
    step,        \* run -> its place in main
    temp,        \* run -> the name of its temporary file
    written,     \* run -> how much of its document its own file holds
    directory,   \* temporary name -> the run whose file it names, or Nothing
    spec,        \* openapi.json: the run whose file it is, and who put it there
    robbed,      \* runs whose file another run removed or renamed by name
    stuck,       \* runs whose deferred Remove failed
    refused      \* run -> "yes" when Build or OpenAPI refuses its document

generatorVars == <<step, temp, written, directory, spec, robbed, stuck, refused>>

Steps == {"compile", "create", "chmod", "write", "close", "rename", "remove",
          "remove failed", "exit 0", "exit 1", "killed"}

Go(r, s) == step' = [step EXCEPT ![r] = s]

GeneratorInit ==
    /\ step = [r \in Runs |-> "compile"]
    /\ temp = [r \in Runs |-> Nothing]
    /\ written = [r \in Runs |-> "none"]
    /\ directory = [n \in TempNames |-> Nothing]
    /\ spec = [of |-> Original, by |-> Original]
    /\ robbed = {}
    /\ stuck = {}
    /\ refused \in [Runs -> {"yes", "no"}]

\* RouterForDocs panics on a tree Build refuses (MustBuild), on a validator
\* that does not register, and on a constructor that touches the inert
\* database; OpenAPI refuses a document without title or version.
Compile(r) ==
    /\ step[r] = "compile"
    /\ Go(r, IF refused[r] = "yes" THEN "exit 1" ELSE "create")
    /\ UNCHANGED <<temp, written, directory, spec, robbed, stuck, refused>>

\* os.CreateTemp takes any name that is free at the moment, one that another
\* run has given up and may still come back to included.
CreateTemp(r) ==
    /\ step[r] = "create"
    /\ \/ \E n \in TempNames :
              /\ directory[n] = Nothing
              /\ temp' = [temp EXCEPT ![r] = n]
              /\ directory' = [directory EXCEPT ![n] = r]
              /\ Go(r, "chmod")
       \/ Go(r, "exit 1") /\ UNCHANGED <<temp, directory>>
    /\ UNCHANGED <<written, spec, robbed, stuck, refused>>

\* Mutant: a failure leaves without the deferred Remove.
ChmodForgets(r) ==
    /\ step[r] = "chmod"
    /\ Go(r, "write") \/ Go(r, "exit 1")
    /\ UNCHANGED <<temp, written, directory, spec, robbed, stuck, refused>>

Chmod(r) ==
    /\ step[r] = "chmod"
    /\ Go(r, "write") \/ Go(r, "remove failed")
    /\ UNCHANGED <<temp, written, directory, spec, robbed, stuck, refused>>

\* Mutant: the error of a short write is overlooked.
WriteUnchecked(r) ==
    /\ step[r] = "write"
    /\ Go(r, "close")
    /\ \E amount \in {"part", "whole"} : written' = [written EXCEPT ![r] = amount]
    /\ UNCHANGED <<temp, directory, spec, robbed, stuck, refused>>

\* A write that fails may have written some of the document.
Write(r) ==
    /\ step[r] = "write"
    /\ \/ Go(r, "close") /\ written' = [written EXCEPT ![r] = "whole"]
       \/ Go(r, "remove failed") /\ written' = [written EXCEPT ![r] = "part"]
    /\ UNCHANGED <<temp, directory, spec, robbed, stuck, refused>>

Close(r) ==
    /\ step[r] = "close"
    /\ Go(r, "rename") \/ Go(r, "remove failed")
    /\ UNCHANGED <<temp, written, directory, spec, robbed, stuck, refused>>

\* The file the name stands for replaces openapi.json in one step, whosever it
\* is by now.
Rename(r) ==
    /\ step[r] = "rename"
    /\ \/ /\ directory[temp[r]] # Nothing
          /\ spec' = [of |-> directory[temp[r]], by |-> r]
          /\ robbed' = robbed \union ({directory[temp[r]]} \ {r})
          /\ directory' = [directory EXCEPT ![temp[r]] = Nothing]
          /\ Go(r, "remove")
       \/ Go(r, "remove failed") /\ UNCHANGED <<spec, robbed, directory>>
    /\ UNCHANGED <<temp, written, stuck, refused>>

\* The deferred os.Remove goes by name, and runs on success too; its error is
\* dropped.
Remove(r) ==
    /\ \/ step[r] = "remove" /\ Go(r, "exit 0")
       \/ step[r] = "remove failed" /\ Go(r, "exit 1")
    /\ \/ /\ directory' = [directory EXCEPT ![temp[r]] = Nothing]
          /\ robbed' = robbed \union ({directory[temp[r]]} \ {r, Nothing})
          /\ UNCHANGED stuck
       \/ stuck' = stuck \union {r} /\ UNCHANGED <<directory, robbed>>
    /\ UNCHANGED <<temp, written, spec, refused>>

\* The process dies; deferred calls do not run.
Killed(r) ==
    /\ step[r] \notin {"exit 0", "exit 1", "killed"}
    /\ Go(r, "killed")
    /\ written' = IF step[r] = "write" THEN [written EXCEPT ![r] = "part"] ELSE written
    /\ UNCHANGED <<temp, directory, spec, robbed, stuck, refused>>

RunStep(r) ==
    \/ Compile(r) \/ CreateTemp(r) \/ Chmod(r) \/ Write(r) \/ Close(r) \/ Rename(r)
    \/ Remove(r) \/ Killed(r)

GeneratorNext == \E r \in Runs : RunStep(r)

----------------------------------------------------------------------------
(* Properties.                                                             *)

\* Types of the variables.
GeneratorTypeOK ==
    /\ step \in [Runs -> Steps]
    /\ temp \in [Runs -> TempNames \union {Nothing}]
    /\ written \in [Runs -> {"none", "part", "whole"}]
    /\ directory \in [TempNames -> Runs \union {Nothing}]
    /\ spec.of \in Runs \union {Original} /\ spec.by \in Runs \union {Original}
    /\ robbed \in SUBSET Runs
    /\ stuck \in SUBSET Runs
    /\ refused \in [Runs -> {"yes", "no"}]

\* The server never embeds half a document or a refused one: whatever fails,
\* whoever is killed and however runs overlap, openapi.json is the original or
\* the file of a run that was accepted, and it holds the whole document, unless
\* the run that put it there had lost its own file: another run, handed the
\* same name before, removed it by that name, and a third was handed the name
\* again.
PublishedWhole ==
    spec.of # Original =>
        /\ refused[spec.of] = "no"
        /\ written[spec.of] = "whole" \/ spec.by \in robbed

\* The steps at which a run may have a file under its temporary name.
Working == {"chmod", "write", "close", "rename", "remove failed"}

FileTraced(n) ==
    \A r \in Runs :
        directory[n] = r =>
            /\ temp[r] = n
            /\ step[r] \in Working \union {"killed"} \/ (step[r] = "exit 1" /\ r \in stuck)

RunReady(r) ==
    /\ step[r] \in Working \union {"remove"} => temp[r] \in TempNames
    /\ step[r] \in Working => directory[temp[r]] = r \/ r \in robbed
    /\ step[r] \in {"close", "rename", "remove", "exit 0"} => written[r] = "whole"
    /\ step[r] \notin {"compile", "exit 1", "killed"} => refused[r] = "no"
    /\ temp[r] # Nothing => refused[r] = "no"

\* A published file is its publisher's own and no longer written, unless the
\* publisher was robbed.
PublisherDone ==
    /\ spec.by \in Runs => step[spec.by] \in {"remove", "exit 0", "killed"}
    /\ spec.by \notin robbed => spec.of = spec.by

\* Why: a run that was not robbed finds its own file under its name, and it
\* reaches the rename only with an accepted document written to the end.
GeneratorInv ==
    /\ PublishedWhole
    /\ PublisherDone
    /\ \A n \in TempNames : FileTraced(n)
    /\ \A r \in Runs : RunReady(r)

\* A run that ends by itself leaves its temporary file behind only when its
\* Remove failed too, and never when it reports success.
NoLitter ==
    \A n \in TempNames :
        directory[n] # Nothing /\ step[directory[n]] \in {"exit 0", "exit 1"} =>
            step[directory[n]] = "exit 1" /\ directory[n] \in stuck

=============================================================================
