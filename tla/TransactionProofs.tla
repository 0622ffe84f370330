------------------------- MODULE TransactionProofs -------------------------
(***************************************************************************)
(* Proofs about Transaction, for any number of callers, rows and           *)
(* connections: a caller can trust what WithTransaction returns, and no    *)
(* connection is lost.                                                     *)
(***************************************************************************)
EXTENDS Transaction, FiniteSetTheorems, TLAPS

(* The calls that hold a connection.                                       *)
Holders == {c \in Callers : pc[c] \in {"running", "deferred"}}

(* The part of the type invariant that needs no count of connections.      *)
CallsOK ==
    /\ pc \in [Callers -> {"begin", "running", "deferred", "done"}]
    /\ fn \in [Callers -> Ends]
    /\ staged \in [Callers -> SUBSET Rows]
    /\ broken \in [Callers -> BOOLEAN]
    /\ durable \in [Callers -> SUBSET Rows]
    /\ outcome \in [Callers -> Ends]
    /\ free \in Nat

(* A caller that takes a connection is one holder more, one that ends its  *)
(* deferred closure one holder less.                                       *)
LEMMA HoldersMove ==
    ASSUME CallsOK, NEW c \in Callers, NEW to \in {"begin", "running", "deferred", "done"},
           pc' = [pc EXCEPT ![c] = to]
    PROVE  /\ IsFiniteSet(Holders) /\ Cardinality(Holders) \in Nat
           /\ pc[c] = "begin" /\ to = "running" =>
                Cardinality(Holders') = Cardinality(Holders) + 1
           /\ pc[c] = "deferred" /\ to = "done" =>
                Cardinality(Holders') = Cardinality(Holders) - 1
           /\ pc[c] \in {"running", "deferred"} <=> to \in {"running", "deferred"} =>
                Holders' = Holders
<1>1. IsFiniteSet(Holders) /\ Cardinality(Holders) \in Nat
  BY PoolAssumption, FS_Subset, FS_CardinalityType DEF Holders
<1>2. ASSUME pc[c] = "begin", to = "running"
      PROVE  Cardinality(Holders') = Cardinality(Holders) + 1
  <2>1. Holders' = Holders \cup {c} /\ c \notin Holders
    BY <1>2 DEF Holders, CallsOK
  <2> QED  BY <1>1, <2>1, FS_AddElement
<1>3. ASSUME pc[c] = "deferred", to = "done"
      PROVE  Cardinality(Holders') = Cardinality(Holders) - 1
  <2>1. Holders' = Holders \ {c} /\ c \in Holders
    BY <1>3 DEF Holders, CallsOK
  <2> QED  BY <1>1, <2>1, FS_RemoveElement
<1>4. ASSUME pc[c] \in {"running", "deferred"} <=> to \in {"running", "deferred"}
      PROVE  Holders' = Holders
  BY <1>4 DEF Holders, CallsOK
<1> QED  BY <1>1, <1>2, <1>3, <1>4

-----------------------------------------------------------------------------
(* Connections are conserved by every step of a call.                      *)
LEMMA PoolStep ==
    ASSUME CallsOK, ConnectionsReturned, [Next]_vars
    PROVE  CallsOK' /\ ConnectionsReturned'
<1>1. ASSUME NEW c \in Callers, Begin(c)
      PROVE  CallsOK' /\ ConnectionsReturned'
  <2>1. CallsOK'
    BY <1>1 DEF Begin, CallsOK
  <2>2. Cardinality(Holders') = Cardinality(Holders) + 1 /\ Cardinality(Holders) \in Nat
    BY <1>1, HoldersMove DEF Begin
  <2>3. free + Cardinality(Holders) = PoolMax /\ free' = free - 1
    BY <1>1 DEF Begin, ConnectionsReturned, Holders
  <2>4. free' + Cardinality(Holders') = PoolMax
    BY <2>2, <2>3, PoolAssumption DEF CallsOK
  <2> QED  BY <2>1, <2>4 DEF ConnectionsReturned, Holders
<1>2. ASSUME NEW c \in Callers, BeginFails(c)
      PROVE  CallsOK' /\ ConnectionsReturned'
  <2>1. CallsOK' /\ free' = free
    BY <1>2 DEF BeginFails, CallsOK, Ends
  <2>2. Holders' = Holders
    BY <1>2, HoldersMove DEF BeginFails
  <2> QED  BY <2>1, <2>2 DEF ConnectionsReturned, Holders
<1>3. ASSUME NEW c \in Callers, CallbackReturns(c)
      PROVE  CallsOK' /\ ConnectionsReturned'
  <2>1. CallsOK' /\ free' = free
    BY <1>3 DEF CallbackReturns, CallbackEnds, CallsOK, Ends
  <2>2. Holders' = Holders
    BY <1>3, HoldersMove DEF CallbackReturns, CallbackEnds
  <2> QED  BY <2>1, <2>2 DEF ConnectionsReturned, Holders
<1>4. ASSUME NEW c \in Callers,
             StatementFails(c) \/ \E row \in Rows : Write(c, row)
      PROVE  CallsOK' /\ ConnectionsReturned'
  <2>1. CallsOK'
    <3>1. CASE StatementFails(c)
      BY <3>1 DEF StatementFails, CallsOK
    <3>2. ASSUME NEW row \in Rows, Write(c, row)
          PROVE  CallsOK'
      BY <3>2 DEF Write, CallsOK
    <3> QED  BY <1>4, <3>1, <3>2
  <2>2. Holders' = Holders /\ free' = free
    BY <1>4 DEF StatementFails, Write, Holders
  <2> QED  BY <2>1, <2>2 DEF ConnectionsReturned, Holders
<1>5. ASSUME NEW c \in Callers, Deferred(c)
      PROVE  CallsOK' /\ ConnectionsReturned'
  <2>1. CallsOK'
    BY <1>5 DEF Deferred, RollBack, Commit, CommitFails, CallsOK, Ends
  <2>2. /\ pc[c] = "deferred" /\ pc' = [pc EXCEPT ![c] = "done"]
        /\ free' = free + 1
    BY <1>5 DEF Deferred, RollBack, Commit, CommitFails
  <2>3. Cardinality(Holders') = Cardinality(Holders) - 1 /\ Cardinality(Holders) \in Nat
    BY <2>2, HoldersMove
  <2>4. free + Cardinality(Holders) = PoolMax
    BY DEF ConnectionsReturned, Holders
  <2>5. free' + Cardinality(Holders') = PoolMax
    BY <2>2, <2>3, <2>4, PoolAssumption DEF CallsOK
  <2> QED  BY <2>1, <2>5 DEF ConnectionsReturned, Holders
<1>6. CASE UNCHANGED vars
  <2>1. Holders' = Holders
    BY <1>6 DEF vars, Holders
  <2> QED  BY <1>6, <2>1 DEF vars, CallsOK, ConnectionsReturned, Holders
<1> QED  BY <1>1, <1>2, <1>3, <1>4, <1>5, <1>6 DEF Next

(* The count holds at the start and ever after.                            *)
LEMMA PoolInductive == Spec => [](CallsOK /\ ConnectionsReturned)
<1>1. Init => CallsOK /\ ConnectionsReturned
  <2> SUFFICES ASSUME Init
               PROVE  CallsOK /\ ConnectionsReturned
    OBVIOUS
  <2>1. CallsOK
    BY PoolAssumption DEF Init, CallsOK, Ends
  <2>2. Holders = {}
    BY DEF Init, Holders
  <2>3. Cardinality(Holders) = 0
    BY <2>2, FS_EmptySet
  <2> QED  BY <2>1, <2>3, PoolAssumption DEF Init, ConnectionsReturned, Holders
<1> QED  BY <1>1, PoolStep, PTL DEF Spec

(* runInTransaction gives every connection back, on each of its paths.     *)
THEOREM NoConnectionLost == Spec => []ConnectionsReturned
  BY PoolInductive, PTL

(* Every call and the pool stay well formed; in particular the pool never  *)
(* hands out a connection it does not have, nor takes one back twice.      *)
THEOREM TypeCorrect == Spec => []TypeOK
<1>1. CallsOK /\ ConnectionsReturned => TypeOK
  <2> SUFFICES ASSUME CallsOK, ConnectionsReturned
               PROVE  TypeOK
    OBVIOUS
  <2>1. IsFiniteSet(Holders)
    BY PoolAssumption, FS_Subset DEF Holders
  <2>2. Cardinality(Holders) \in Nat
    BY <2>1, FS_CardinalityType
  <2>3. free + Cardinality(Holders) = PoolMax
    BY DEF ConnectionsReturned, Holders
  <2>4. free \in 0..PoolMax
    BY <2>2, <2>3, PoolAssumption DEF CallsOK
  <2> QED  BY <2>4 DEF CallsOK, TypeOK
<1> QED  BY <1>1, PoolInductive, PTL

-----------------------------------------------------------------------------
(* Every step keeps the promise about outcomes.                            *)
LEMMA OutcomeStep ==
    ASSUME TypeOK, TransactionInv, [Next]_vars
    PROVE  TransactionInv'
<1> USE DEF TransactionInv, OutcomeHonest, TypeOK, Ends
<1>1. ASSUME NEW c \in Callers, Begin(c)
      PROVE  TransactionInv'
  BY <1>1 DEF Begin
<1>2. ASSUME NEW c \in Callers, BeginFails(c)
      PROVE  TransactionInv'
  BY <1>2 DEF BeginFails
<1>3. ASSUME NEW c \in Callers, NEW row \in Rows, Write(c, row)
      PROVE  TransactionInv'
  BY <1>3 DEF Write
<1>4. ASSUME NEW c \in Callers, StatementFails(c)
      PROVE  TransactionInv'
  BY <1>4 DEF StatementFails
<1>5. ASSUME NEW c \in Callers, NEW end \in Ends, CallbackEnds(c, end)
      PROVE  TransactionInv'
  BY <1>5 DEF CallbackEnds
<1>6. ASSUME NEW c \in Callers, RollBack(c)
      PROVE  TransactionInv'
  BY <1>6 DEF RollBack, Commits
<1>7. ASSUME NEW c \in Callers, Commit(c)
      PROVE  TransactionInv'
  BY <1>7 DEF Commit, Commits
<1>8. ASSUME NEW c \in Callers, NEW took \in BOOLEAN, CommitFails(c, took)
      PROVE  TransactionInv'
  BY <1>8 DEF CommitFails, Commits
<1>9. CASE UNCHANGED vars
  BY <1>9 DEF vars
<1> QED
  BY <1>1, <1>2, <1>3, <1>4, <1>5, <1>6, <1>7, <1>8, <1>9
     DEF Next, CallbackReturns, Deferred

(* runInTransaction reports and commits nothing before its deferred        *)
(* closure, which knows how the callback ended.                            *)
THEOREM TransactionInvariant == Spec => []TransactionInv
<1>1. Init => TransactionInv
  BY DEF Init, TransactionInv, OutcomeHonest
<1> QED  BY <1>1, OutcomeStep, TypeCorrect, PTL DEF Spec

(* nil means committed, an error of the callback or a panic means rolled   *)
(* back, and nothing is ever committed in part.                            *)
THEOREM OutcomesHonest == Spec => []OutcomeHonest
<1>1. TransactionInv => OutcomeHonest
  BY DEF TransactionInv
<1> QED  BY <1>1, TransactionInvariant, PTL
=============================================================================
