---------------------------- MODULE Transaction ----------------------------
(***************************************************************************)
(* PostgresStore.WithTransaction (internal/db/db.go): runInTransaction     *)
(* begins a transaction on a connection of the pool, runs the callback and *)
(* lets a deferred closure commit or roll back.  The callback is           *)
(* application code: it may write, ignore a statement that failed, return  *)
(* an error or panic.  Postgres may refuse a COMMIT, and the reply to one  *)
(* may be lost.                                                            *)
(***************************************************************************)
EXTENDS Integers, FiniteSets

CONSTANTS
    Callers,    \* concurrent calls of WithTransaction
    Rows,       \* what a callback may write
    PoolMax     \* connections in the pool

ASSUME PoolAssumption == IsFiniteSet(Callers) /\ PoolMax \in Nat \ {0}

VARIABLES
    pc,         \* caller -> its place in runInTransaction
    fn,         \* caller -> how its callback ended
    staged,     \* caller -> the writes its transaction acknowledged
    broken,     \* caller -> has a statement failed, or the connection gone
    durable,    \* caller -> its rows that are committed
    outcome,    \* caller -> what WithTransaction gave its caller
    free        \* idle connections of the pool

vars == <<pc, fn, staged, broken, durable, outcome, free>>

Ends == {"none", "nil", "error", "panic"}

(* One type invariant for the calls and the pool.                           *)
TypeOK ==
    /\ pc \in [Callers -> {"begin", "running", "deferred", "done"}]
    /\ fn \in [Callers -> Ends]
    /\ staged \in [Callers -> SUBSET Rows]
    /\ broken \in [Callers -> BOOLEAN]
    /\ durable \in [Callers -> SUBSET Rows]
    /\ outcome \in [Callers -> Ends]
    /\ free \in 0..PoolMax

-----------------------------------------------------------------------------
(* beginner.Begin takes a connection out of the pool ...                    *)
Begin(c) ==
    /\ pc[c] = "begin"
    /\ free > 0
    /\ free' = free - 1
    /\ pc' = [pc EXCEPT ![c] = "running"]
    /\ UNCHANGED <<fn, staged, broken, durable, outcome>>

(* ... or fails, and the callback never runs.                               *)
BeginFails(c) ==
    /\ pc[c] = "begin"
    /\ pc' = [pc EXCEPT ![c] = "done"]
    /\ outcome' = [outcome EXCEPT ![c] = "error"]
    /\ UNCHANGED <<fn, staged, broken, durable, free>>

(* A statement of the callback is acknowledged.                             *)
Write(c, row) ==
    /\ pc[c] = "running"
    /\ ~broken[c]
    /\ staged' = [staged EXCEPT ![c] = staged[c] \cup {row}]
    /\ UNCHANGED <<pc, fn, broken, durable, outcome, free>>

(* A statement fails, the context ends or the connection is lost: Postgres  *)
(* takes nothing more from this transaction.                                *)
StatementFails(c) ==
    /\ pc[c] = "running"
    /\ broken' = [broken EXCEPT ![c] = TRUE]
    /\ UNCHANGED <<pc, fn, staged, durable, outcome, free>>

(* The callback returns or panics, whatever its statements reported.        *)
CallbackEnds(c, end) ==
    /\ pc[c] = "running"
    /\ end # "none"
    /\ pc' = [pc EXCEPT ![c] = "deferred"]
    /\ fn' = [fn EXCEPT ![c] = end]
    /\ UNCHANGED <<staged, broken, durable, outcome, free>>

-----------------------------------------------------------------------------
(* The deferred closure.                                                    *)

(* Mutant of Commits: with an unnamed return the closure reads the nil      *)
(* error of Begin and commits what the callback rejected.                   *)
CommitsUnlessPanic(c) == fn[c] # "panic"

(* The closure reads the named result: only nil is committed.               *)
Commits(c) == fn[c] = "nil"

(* Mutant of RollBack: the connection is not given back.                    *)
RollBackLeaks(c) ==
    /\ pc[c] = "deferred"
    /\ ~Commits(c)
    /\ outcome' = [outcome EXCEPT ![c] = fn[c]]
    /\ pc' = [pc EXCEPT ![c] = "done"]
    /\ UNCHANGED <<fn, staged, broken, durable, free>>

(* tx.Rollback, whose failure is only logged, then the callback's error is  *)
(* returned or its panic continues.  Either way the connection goes back.   *)
RollBack(c) ==
    /\ pc[c] = "deferred"
    /\ ~Commits(c)
    /\ outcome' = [outcome EXCEPT ![c] = fn[c]]
    /\ pc' = [pc EXCEPT ![c] = "done"]
    /\ free' = free + 1
    /\ UNCHANGED <<fn, staged, broken, durable>>

(* tx.Commit succeeds; the result stays what the callback returned.         *)
Commit(c) ==
    /\ pc[c] = "deferred"
    /\ Commits(c)
    /\ ~broken[c]
    /\ durable' = [durable EXCEPT ![c] = staged[c]]
    /\ outcome' = [outcome EXCEPT ![c] = fn[c]]
    /\ pc' = [pc EXCEPT ![c] = "done"]
    /\ free' = free + 1
    /\ UNCHANGED <<fn, staged, broken>>

(* tx.Commit reports an error: Postgres refused it (always, when an earlier *)
(* statement failed), or took it and the reply was lost.                    *)
CommitFails(c, took) ==
    /\ pc[c] = "deferred"
    /\ Commits(c)
    /\ took => ~broken[c]
    /\ durable' = [durable EXCEPT ![c] = IF took THEN staged[c] ELSE {}]
    /\ outcome' = [outcome EXCEPT ![c] = "error"]
    /\ pc' = [pc EXCEPT ![c] = "done"]
    /\ free' = free + 1
    /\ UNCHANGED <<fn, staged, broken>>

-----------------------------------------------------------------------------
Init ==
    /\ pc = [c \in Callers |-> "begin"]
    /\ fn = [c \in Callers |-> "none"]
    /\ staged = [c \in Callers |-> {}]
    /\ broken = [c \in Callers |-> FALSE]
    /\ durable = [c \in Callers |-> {}]
    /\ outcome = [c \in Callers |-> "none"]
    /\ free = PoolMax

CallbackReturns(c) == \E end \in Ends : CallbackEnds(c, end)

Deferred(c) ==
    \/ RollBack(c) \/ Commit(c)
    \/ \E took \in BOOLEAN : CommitFails(c, took)

Next ==
    \E c \in Callers :
        \/ Begin(c) \/ BeginFails(c)
        \/ \E row \in Rows : Write(c, row)
        \/ StatementFails(c) \/ CallbackReturns(c)
        \/ Deferred(c)

Spec == Init /\ [][Next]_vars

(* Callbacks end, deferred closures run, and the pool hands out connections *)
(* in the order they were asked for; Begin need not ever fail.              *)
FairSpec ==
    Spec /\ \A c \in Callers :
               WF_vars(Begin(c)) /\ WF_vars(CallbackReturns(c)) /\ WF_vars(Deferred(c))

-----------------------------------------------------------------------------
(* What a caller may conclude.  nil: every write the callback made is       *)
(* committed, also when it ignored a failed statement.  A panic, or an      *)
(* error of the callback: none is.  Only an error of Commit leaves it open, *)
(* and then it is still all or nothing.                                     *)
OutcomeHonest ==
    \A c \in Callers :
        /\ durable[c] \in {{}, staged[c]}
        /\ outcome[c] = "nil" => ~broken[c] /\ durable[c] = staged[c]
        /\ fn[c] # "nil" => durable[c] = {}
        /\ pc[c] = "done" /\ fn[c] = "panic" => outcome[c] = "panic"
        /\ pc[c] = "done" /\ fn[c] = "error" => outcome[c] = "error"

(* What makes it inductive: nothing is durable or reported before the end,  *)
(* and a callback that has not ended has no result.                         *)
TransactionInv ==
    /\ OutcomeHonest
    /\ \A c \in Callers :
          /\ pc[c] # "done" => outcome[c] = "none" /\ durable[c] = {}
          /\ pc[c] \in {"begin", "running"} => fn[c] = "none"
          /\ pc[c] = "deferred" => fn[c] # "none"

(* No path through the closure keeps a connection, panics included.         *)
ConnectionsReturned ==
    free + Cardinality({c \in Callers : pc[c] \in {"running", "deferred"}}) = PoolMax

(* With more callers than connections every call still ends, without Begin  *)
(* ever giving up.                                                          *)
EveryCallEnds == \A c \in Callers : pc[c] = "begin" ~> pc[c] = "done"
=============================================================================
