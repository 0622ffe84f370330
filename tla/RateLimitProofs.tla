-------------------------- MODULE RateLimitProofs --------------------------
(***************************************************************************)
(* Proofs about RateLimit, for every set of keys, callers and sweepers,    *)
(* every budget, window length, statement delay and clock skew.            *)
(***************************************************************************)
EXTENDS RateLimit, TLAPS

USE ConstantsAssumption, NullAssumption

(* A wait computed by RetryAfter at any instant covers what is left of the *)
(* window at that instant and is never shorter than a second.              *)
LEMMA RetryAfterCovers ==
    ASSUME NEW e \in Int, NEW t \in Int
    PROVE  /\ RetryAfter(e, t) \in Int
           /\ RetryAfter(e, t) >= e - t
           /\ RetryAfter(e, t) >= Second
<1> DEFINE r == e - t
<1>1. r \in Int /\ r % Second \in 0 .. (Second - 1)
  OBVIOUS
<1>2. r = Second * (r \div Second) + (r % Second)
  OBVIOUS
<1>3. CASE r <= 0
  BY <1>3 DEF RetryAfter
<1>4. CASE r > 0 /\ r % Second = 0
  <2>1. r \div Second >= 1
    BY <1>2, <1>4
  <2>2. r >= Second
    BY <2>1, <1>2, <1>4
  <2> QED  BY <1>4, <2>2 DEF RetryAfter
<1>5. CASE r > 0 /\ r % Second # 0
  BY <1>1, <1>5 DEF RetryAfter
<1> QED  BY <1>1, <1>3, <1>4, <1>5

(* The row an upsert leaves is a counter that closes after its NOW().      *)
LEMMA UpsertRowType ==
    ASSUME TypeOK, NEW k \in Keys, NEW t \in Instants, NEW secs \in Nat \ {0},
           ~UpsertFails(k, t)
    PROVE  /\ UpsertRow(k, t, secs) \in Row
           /\ UpsertRow(k, t, secs).value \in Int
           /\ UpsertRow(k, t, secs).expires \in Instants
           /\ UpsertRow(k, t, secs).expires > t
<1>1. CASE Present(k) /\ ~Restarts(table[k], t)
  <2>1. table[k] \in Row
    BY <1>1 DEF TypeOK, Present
  <2>2. /\ table[k].value \in Int
        /\ table[k].expires \in Instants
        /\ table[k].expires > t
    BY <1>1, <2>1 DEF Row, Counts, Instants, UpsertFails, Restarts
  <2> QED  BY <1>1, <2>1, <2>2 DEF UpsertRow, Row, Counts
<1>2. CASE ~(Present(k) /\ ~Restarts(table[k], t))
  <2>1. secs * Second \in Nat /\ secs * Second > 0
    OBVIOUS
  <2> QED  BY <1>2, <2>1 DEF UpsertRow, Row, Counts, Instants
<1> QED  BY <1>1, <1>2

(* What a call and a DELETE carry in each of their states.                 *)
LEMMA CallFields ==
    ASSUME TypeOK, NEW c \in Callers
    PROVE  /\ call[c] \in Calls
           /\ call[c].pc \in {"idle", "sent", "answered", "blocked"}
           /\ call[c].pc = "idle" => call[c] = Idle
           /\ call[c].pc = "sent" => call[c] \in Sent
           /\ call[c].pc = "answered" => call[c] \in Answered
           /\ call[c].pc = "blocked" => call[c] \in Blocked
  BY DEF TypeOK, Calls, Idle, Sent, Answered, Blocked

(* A DELETE under way carries its NOW() and its snapshot.                  *)
LEMMA SweepFields ==
    ASSUME TypeOK, NEW d \in Sweepers
    PROVE  /\ sweep[d] \in Sweeps
           /\ sweep[d].pc \in {"idle", "flush", "purge"}
           /\ sweep[d].pc = "idle" => sweep[d] = Idle
           /\ sweep[d].pc # "idle" =>
                 sweep[d] \in [pc : {"flush", "purge"}, now : Instants,
                               seen : SUBSET Keys]
  BY DEF TypeOK, Sweeps, Idle

(* The history record of a charge is a window.                             *)
LEMMA ChargedWindowType ==
    ASSUME TypeOK, NEW k \in Buckets, NEW t \in Instants, NEW row \in Row,
           row.expires \in Instants, row.value \in Int
    PROVE  ChargedWindow(k, t, row) \in Window
  BY DEF TypeOK, ChargedWindow, Window, Instants

-----------------------------------------------------------------------------
(* Type correctness: rows stay rows, replies carry integers and instants,  *)
(* whatever is stored under a key and whichever statements fail.           *)
LEMMA TypeStep ==
    ASSUME TypeOK, [Next]_vars
    PROVE  TypeOK'
<1>1. ASSUME NEW c \in Callers, NEW k \in Keys, NEW secs \in Windows,
             IncrementBegin(c, k, secs)
      PROVE  TypeOK'
  <2> DEFINE new == [pc |-> "sent", key |-> k, secs |-> secs, now |-> clock,
                     prior |-> IF Waited(c, k) THEN call[c].expires ELSE 0]
  <2>1. Waited(c, k) => call[c].expires \in Instants
    BY CallFields DEF Waited, Blocked
  <2>2. new \in Sent
    BY <1>1, <2>1 DEF IncrementBegin, ValidWindow, Sent, TypeOK, Instants
  <2>3. call' \in [Callers -> Calls]
    BY <1>1, <2>2 DEF IncrementBegin, TypeOK, Calls
  <2> QED  BY <1>1, <2>3 DEF IncrementBegin, TypeOK
<1>2. ASSUME NEW c \in Callers, IncrementApply(c)
      PROVE  TypeOK'
  <2> DEFINE k   == call[c].key
             t   == call[c].now
             row == UpsertRow(k, t, call[c].secs)
  <2>1. call[c] \in Sent
    BY <1>2, CallFields DEF IncrementApply
  <2>2. k \in Keys /\ t \in Instants /\ call[c].secs \in Nat \ {0}
        /\ call[c].prior \in Instants
    BY <2>1 DEF Sent
  <2>3. row \in Row /\ row.value \in Int /\ row.expires \in Instants
    BY <1>2, <2>2, UpsertRowType DEF IncrementApply
  <2>4. table' \in [Keys -> Row \cup {NoRow}]
    BY <1>2, <2>2, <2>3 DEF IncrementApply, TypeOK
  <2>5. [pc |-> "answered", key |-> k, hits |-> row.value,
         expires |-> row.expires, prior |-> call[c].prior] \in Answered
    BY <2>2, <2>3 DEF Answered
  <2>6. call' \in [Callers -> Calls]
    BY <1>2, <2>5 DEF IncrementApply, TypeOK, Calls
  <2>7. k \in Buckets => ChargedWindow(k, t, row) \in Window
    BY <2>2, <2>3, ChargedWindowType
  <2>8. window' \in [Buckets -> Window \cup {NoWindow}]
    BY <1>2, <2>7 DEF IncrementApply, TypeOK
  <2> QED  BY <1>2, <2>4, <2>6, <2>8 DEF IncrementApply, TypeOK
<1>3. ASSUME NEW c \in Callers, IncrementFails(c) \/ ReplyLost(c)
      PROVE  TypeOK'
  BY <1>3 DEF IncrementFails, ReplyLost, TypeOK, Calls
<1>4. ASSUME NEW c \in Callers, NEW skew \in Skews, Decide(c, skew)
      PROVE  TypeOK'
  <2>1. call[c] \in Answered
    BY <1>4, CallFields DEF Decide
  <2>2. RetryAfter(call[c].expires, clock + skew) \in Int
    BY <2>1, RetryAfterCovers DEF Answered, Instants, TypeOK
  <2>3. [pc |-> "blocked", key |-> call[c].key, expires |-> call[c].expires,
         until |-> clock + RetryAfter(call[c].expires, clock + skew),
         prior |-> call[c].prior] \in Blocked
    BY <2>1, <2>2 DEF Answered, Blocked, Instants, TypeOK
  <2>4. call' \in [Callers -> Calls]
    BY <1>4, <2>3 DEF Decide, TypeOK, Calls
  <2> QED  BY <1>4, <2>4 DEF Decide, TypeOK
<1>5. ASSUME NEW k \in Keys, NEW v \in Values \cup {NonInteger},
             NEW ttl \in TTLs, Set(k, v, ttl)
      PROVE  TypeOK'
  <2>1. ttl > 0 => clock + ttl * Second \in Instants
    BY DEF TypeOK, Instants
  <2>2. [value |-> v,
         expires |-> IF ttl > 0 THEN clock + ttl * Second ELSE Never] \in Row
    BY <2>1 DEF Row, Counts
  <2> QED  BY <1>5, <2>2 DEF Set, TypeOK
<1>6. ASSUME NEW d \in Sweepers, NEW ks \in SUBSET Keys, FlushBegin(d, ks)
      PROVE  TypeOK'
  BY <1>6 DEF FlushBegin, TypeOK, Sweeps
<1>7. ASSUME NEW d \in Sweepers, PruneBegin(d)
      PROVE  TypeOK'
  BY <1>7 DEF PruneBegin, TypeOK, Sweeps
<1>8. ASSUME NEW d \in Sweepers, DeleteApply(d)
      PROVE  TypeOK'
  <2>1. table' \in [Keys -> Row \cup {NoRow}]
    BY <1>8 DEF DeleteApply, TypeOK
  <2>2. ASSUME NEW e \in Sweepers
        PROVE  sweep'[e] \in Sweeps
    BY <1>8, <2>2, SweepFields DEF DeleteApply, Sweeps
  <2>3. sweep' \in [Sweepers -> Sweeps]
    BY <1>8, <2>2 DEF DeleteApply
  <2>4. window' \in [Buckets -> Window \cup {NoWindow}]
    BY <1>8 DEF DeleteApply, TypeOK
  <2> QED  BY <1>8, <2>1, <2>3, <2>4 DEF DeleteApply, TypeOK
<1>9. ASSUME NEW d \in Sweepers, DeleteFails(d)
      PROVE  TypeOK'
  BY <1>9 DEF DeleteFails, TypeOK, Sweeps
<1>10. CASE Crash
  BY <1>10 DEF Crash, TypeOK, Calls, Sweeps
<1>11. CASE Tick
  BY <1>11 DEF Tick, TypeOK, Instants
<1>12. CASE UNCHANGED vars
  BY <1>12 DEF vars, TypeOK
<1> QED
  BY <1>1, <1>2, <1>3, <1>4, <1>5, <1>6, <1>7, <1>8, <1>9, <1>10, <1>11,
     <1>12 DEF Next

(* Every row, call, DELETE and window the limiter and the cache reach is   *)
(* well formed, for any keys, callers, clocks and stored values.           *)
THEOREM TypeCorrect == Spec => []TypeOK
<1>1. Init => TypeOK
  BY DEF Init, TypeOK, Instants, Calls, Sweeps
<1>2. TypeOK /\ [Next]_vars => TypeOK'
  BY TypeStep
<1> QED  BY <1>1, <1>2, PTL DEF Spec

-----------------------------------------------------------------------------
(* A bucket's row is a counter with an expiry, never the NonInteger value  *)
(* or the unlimited lifetime that Set may store under an ordinary key.     *)
LEMMA BucketRow ==
    ASSUME TypeOK, CountsEveryHit, NEW k \in Buckets, Present(k)
    PROVE  /\ window[k] \in Window
           /\ table[k].value \in Nat
           /\ table[k].expires \in Nat
           /\ table[k].value = window[k].charged
           /\ table[k].expires = window[k].close
  BY DEF TypeOK, CountsEveryHit, Window, Instants

(* One upsert on a bucket keeps the count exact and grants the attempt     *)
(* exactly when it is among the first Limit of its window; a window it     *)
(* opens starts no earlier than Lag before the close of the previous one.  *)
LEMMA UpsertOnBucket ==
    ASSUME TypeOK, LimiterInv, NEW k \in Buckets, NEW t \in Instants,
           NEW secs \in Nat \ {0}, ~UpsertFails(k, t), clock <= t + Lag
    PROVE  LET row == UpsertRow(k, t, secs)
               new == ChargedWindow(k, t, row)
           IN  /\ new \in Window
               /\ row.value = new.charged
               /\ row.expires = new.close
               /\ new.granted = IF new.charged <= Limit THEN new.charged ELSE Limit
               /\ (window[k] # NoWindow /\ new.charged = 1 /\ new # window[k])
                     => new.open + Lag >= window[k].close
               /\ (Present(k) /\ ~Lapsed(table[k], t))
                     => row.expires = table[k].expires
<1> DEFINE row == UpsertRow(k, t, secs)
           new == ChargedWindow(k, t, row)
<1>0. /\ k \in Keys /\ row \in Row /\ row.value \in Int
      /\ row.expires \in Instants /\ row.expires > t
  BY UpsertRowType
<1>1. new \in Window
  BY <1>0, ChargedWindowType
<1>2. CASE Present(k) /\ ~Restarts(table[k], t)
  <2>1. /\ window[k] \in Window /\ window[k] # NoWindow
        /\ table[k].value = window[k].charged
        /\ table[k].expires = window[k].close
    BY <1>2, BucketRow DEF LimiterInv
  <2>2. row = [value |-> table[k].value + 1, expires |-> table[k].expires]
    BY <1>2 DEF UpsertRow
  <2>3. window[k].granted = IF window[k].charged <= Limit
                            THEN window[k].charged ELSE Limit
    BY <2>1 DEF LimiterInv, FirstLimitGranted
  <2>4. new = [open |-> window[k].open, close |-> window[k].close,
               charged |-> window[k].charged + 1,
               granted |-> window[k].granted
                             + (IF window[k].charged + 1 <= Limit THEN 1 ELSE 0)]
    BY <1>2, <2>1, <2>2 DEF ChargedWindow, Allowed
  <2>5. window[k].charged \in Nat /\ window[k].granted \in Nat
        /\ window[k].open \in Nat /\ window[k].close \in Nat
    BY <2>1 DEF Window, Instants
  <2>6. new.charged # 1
    BY <2>1, <2>4, <2>5 DEF LimiterInv, WindowsCharged
  <2> QED
    BY <1>1, <2>1, <2>2, <2>3, <2>4, <2>5, <2>6
<1>3. CASE Present(k) /\ Restarts(table[k], t)
  <2>1. /\ window[k] \in Window /\ window[k] # NoWindow
        /\ table[k].expires = window[k].close
        /\ table[k].expires \in Nat /\ table[k].expires <= t
    BY <1>3, BucketRow DEF LimiterInv, Restarts
  <2>2. row = [value |-> 1, expires |-> t + secs * Second]
    BY <1>3 DEF UpsertRow
  <2>3. row.expires # table[k].expires
    BY <1>0, <2>1 DEF Instants
  <2>4. new = [open |-> t, close |-> row.expires, charged |-> 1,
               granted |-> IF 1 <= Limit THEN 1 ELSE 0]
    BY <2>2, <2>3 DEF ChargedWindow, Allowed
  <2>5. Lapsed(table[k], t)
    BY <2>1 DEF Lapsed
  <2> QED
    BY <1>1, <2>1, <2>2, <2>4, <2>5 DEF Instants
<1>4. CASE ~Present(k)
  <2>1. row = [value |-> 1, expires |-> t + secs * Second]
    BY <1>4 DEF UpsertRow
  <2>2. new = [open |-> t, close |-> row.expires, charged |-> 1,
               granted |-> IF 1 <= Limit THEN 1 ELSE 0]
    BY <1>4, <2>1 DEF ChargedWindow, Allowed
  <2>3. window[k] # NoWindow => window[k].close <= clock /\ window[k].close \in Nat
    BY <1>4 DEF LimiterInv, PurgedHasClosed, TypeOK, Window, Instants
  <2> QED
    BY <1>1, <1>4, <2>1, <2>2, <2>3 DEF Instants, TypeOK
<1> QED  BY <1>2, <1>3, <1>4

-----------------------------------------------------------------------------
(* Every step preserves the inductive invariant.                           *)
LEMMA LimiterStep ==
    ASSUME TypeOK, LimiterInv, [Next]_vars
    PROVE  LimiterInv'
<1>1. ASSUME NEW c \in Callers, NEW k \in Keys, NEW secs \in Windows,
             IncrementBegin(c, k, secs)
      PROVE  LimiterInv'
  <2>1. ASSUME Waited(c, k)
        PROVE  call[c].expires \in Nat /\ call[c].expires <= clock
    <3>1. call[c] \in Blocked
      BY <2>1, CallFields DEF Waited
    <3>2. PICK s \in Skews : call[c].until + s >= call[c].expires
      BY <2>1 DEF Waited, LimiterInv, CallsTimely
    <3>3. clock >= call[c].until + s
      BY <2>1 DEF Waited
    <3> QED  BY <3>1, <3>2, <3>3 DEF Blocked, Instants, TypeOK
  <2>2. CallsTimely'
    BY <1>1, <2>1 DEF IncrementBegin, LimiterInv, CallsTimely, TypeOK, Instants
  <2> QED
    BY <1>1, <2>2 DEF IncrementBegin, LimiterInv, CountsEveryHit, Present,
       FirstLimitGranted, PurgedHasClosed, WindowsCharged, SweepsTimely
<1>2. ASSUME NEW c \in Callers, IncrementApply(c)
      PROVE  LimiterInv'
  <2> DEFINE k   == call[c].key
             t   == call[c].now
             row == UpsertRow(k, t, call[c].secs)
             new == ChargedWindow(k, t, row)
  <2>1. /\ k \in Keys /\ t \in Instants /\ call[c].secs \in Nat \ {0}
        /\ call[c].prior \in Instants
    BY <1>2, CallFields DEF IncrementApply, Sent
  <2>2. t <= clock /\ clock <= t + Lag /\ call[c].prior <= t
    BY <1>2 DEF IncrementApply, LimiterInv, CallsTimely
  <2>3. row \in Row /\ row.expires \in Instants /\ row.expires > t
    BY <1>2, <2>1, UpsertRowType DEF IncrementApply
  <2>4. table' = [table EXCEPT ![k] = row] /\ row # NoRow
    BY <1>2, <2>3 DEF IncrementApply
  <2>5. k \in Buckets =>
          /\ new \in Window /\ new # NoWindow
          /\ row.value = new.charged /\ row.expires = new.close
          /\ new.granted = IF new.charged <= Limit THEN new.charged ELSE Limit
    BY <1>2, <2>1, <2>2, UpsertOnBucket DEF IncrementApply
  <2>6. window' = IF k \in Buckets THEN [window EXCEPT ![k] = new] ELSE window
    BY <1>2 DEF IncrementApply
  <2>7. CountsEveryHit'
    BY <2>1, <2>4, <2>5, <2>6
       DEF LimiterInv, CountsEveryHit, Present, TypeOK
  <2>8. FirstLimitGranted'
    BY <2>5, <2>6 DEF LimiterInv, FirstLimitGranted, TypeOK
  <2>9. PurgedHasClosed'
    BY <1>2, <2>1, <2>4, <2>6
       DEF LimiterInv, PurgedHasClosed, Present, TypeOK, IncrementApply
  <2>10. WindowsCharged'
    <3>1. k \in Buckets => new.charged >= 1
      <4>1. window[k] \in Window /\ window[k] # NoWindow /\ k \in Buckets
            => window[k].charged + 1 >= 1
        BY DEF Window
      <4> QED  BY <4>1 DEF ChargedWindow, TypeOK
    <3> QED  BY <2>5, <2>6, <3>1 DEF LimiterInv, WindowsCharged, TypeOK
  <2>11. CallsTimely'
    <3>1. call' = [call EXCEPT ![c] =
                     [pc |-> "answered", key |-> k, hits |-> row.value,
                      expires |-> row.expires, prior |-> call[c].prior]]
          /\ clock' = clock
      BY <1>2 DEF IncrementApply
    <3>2. row.expires > call[c].prior
      BY <2>1, <2>2, <2>3 DEF Instants
    <3> QED  BY <3>1, <3>2 DEF LimiterInv, CallsTimely, TypeOK
  <2>12. SweepsTimely'
    BY <1>2 DEF IncrementApply, LimiterInv, SweepsTimely
  <2> QED  BY <2>7, <2>8, <2>9, <2>10, <2>11, <2>12 DEF LimiterInv
<1>3. ASSUME NEW c \in Callers, IncrementFails(c) \/ ReplyLost(c)
      PROVE  LimiterInv'
  <2>1. CallsTimely'
    BY <1>3 DEF IncrementFails, ReplyLost, LimiterInv, CallsTimely, TypeOK, Idle
  <2> QED
    BY <1>3, <2>1 DEF IncrementFails, ReplyLost, LimiterInv, CountsEveryHit,
       Present, FirstLimitGranted, PurgedHasClosed, WindowsCharged, SweepsTimely
<1>4. ASSUME NEW c \in Callers, NEW skew \in Skews, Decide(c, skew)
      PROVE  LimiterInv'
  <2>1. call[c] \in Answered /\ call[c].expires > call[c].prior
    BY <1>4, CallFields DEF Decide, LimiterInv, CallsTimely
  <2> DEFINE wait == RetryAfter(call[c].expires, clock + skew)
  <2>2. wait \in Int /\ wait >= call[c].expires - (clock + skew)
    <3>1. call[c].expires \in Int /\ clock + skew \in Int
      BY <2>1 DEF Answered, Instants, TypeOK
    <3> QED  BY <3>1, RetryAfterCovers
  <2>3. (clock + wait) + skew >= call[c].expires
    BY <2>1, <2>2 DEF Answered, Instants, TypeOK
  <2>4. CallsTimely'
    <3> HIDE DEF wait
    <3>1. call' = [call EXCEPT ![c] =
                     IF Allowed(call[c].hits) THEN Idle
                     ELSE [pc |-> "blocked", key |-> call[c].key,
                           expires |-> call[c].expires, until |-> clock + wait,
                           prior |-> call[c].prior]]
          /\ clock' = clock
      BY <1>4 DEF Decide, wait
    <3>2. ASSUME NEW e \in Callers, e # c
          PROVE  call'[e] = call[e]
      BY <3>1, <3>2 DEF TypeOK
    <3>3. \/ call'[c] = Idle
          \/ /\ call'[c].pc = "blocked"
             /\ call'[c].expires > call'[c].prior
             /\ call'[c].until + skew >= call'[c].expires
      BY <2>1, <2>3, <3>1 DEF TypeOK
    <3> QED  BY <3>1, <3>2, <3>3 DEF LimiterInv, CallsTimely, Idle
  <2> QED
    BY <1>4, <2>4 DEF Decide, LimiterInv, CountsEveryHit, Present,
       FirstLimitGranted, PurgedHasClosed, WindowsCharged, SweepsTimely
<1>5. ASSUME NEW k \in Keys, NEW v \in Values \cup {NonInteger},
             NEW ttl \in TTLs, Set(k, v, ttl)
      PROVE  LimiterInv'
  <2>1. \A b \in Buckets : table'[b] = table[b]
    BY <1>5 DEF Set, TypeOK
  <2> QED
    BY <1>5, <2>1 DEF Set, LimiterInv, CountsEveryHit, Present,
       FirstLimitGranted, PurgedHasClosed, WindowsCharged, CallsTimely,
       SweepsTimely
<1>6. ASSUME NEW d \in Sweepers,
             PruneBegin(d) \/ DeleteFails(d)
                \/ \E ks \in SUBSET Keys : FlushBegin(d, ks)
      PROVE  LimiterInv'
  <2>1. SweepsTimely'
    BY <1>6 DEF PruneBegin, DeleteFails, FlushBegin, LimiterInv, SweepsTimely,
       TypeOK, Idle, Instants
  <2> QED
    BY <1>6, <2>1 DEF PruneBegin, DeleteFails, FlushBegin, LimiterInv,
       CountsEveryHit, Present, FirstLimitGranted, PurgedHasClosed,
       WindowsCharged, CallsTimely
<1>7. ASSUME NEW d \in Sweepers, DeleteApply(d)
      PROVE  LimiterInv'
  <2>1. /\ table' = [k \in Keys |-> IF k \in Doomed(d) THEN NoRow ELSE table[k]]
        /\ window' = [k \in Buckets |->
                        IF sweep[d].pc = "flush" /\ k \in Doomed(d)
                        THEN NoWindow ELSE window[k]]
        /\ clock' = clock /\ call' = call
        /\ sweep[d].pc \in {"flush", "purge"}
    BY <1>7 DEF DeleteApply
  <2>2. CountsEveryHit' /\ FirstLimitGranted' /\ WindowsCharged'
    BY <2>1 DEF LimiterInv, CountsEveryHit, FirstLimitGranted, WindowsCharged,
       Present
  <2>3. PurgedHasClosed'
    <3>1. ASSUME NEW k \in Buckets, ~Present(k)', window'[k] # NoWindow
          PROVE  window'[k].close <= clock'
      <4>1. window'[k] = window[k] /\ window[k] # NoWindow
        BY <2>1, <3>1
      <4>2. CASE ~Present(k)
        BY <2>1, <4>1, <4>2 DEF LimiterInv, PurgedHasClosed
      <4>3. CASE Present(k)
        <5>1. k \in Doomed(d) /\ sweep[d].pc = "purge"
          BY <2>1, <3>1, <4>3, <4>1 DEF Present
        <5>2. Lapsed(table[k], sweep[d].now)
          BY <5>1 DEF Doomed
        <5>3. /\ table[k].expires = window[k].close
              /\ window[k].close \in Nat
          BY <4>3, BucketRow DEF LimiterInv, Window, Instants
        <5>4. sweep[d].now <= clock /\ sweep[d].now \in Nat /\ clock \in Nat
          BY <5>1, SweepFields DEF LimiterInv, SweepsTimely, Instants, TypeOK
        <5> QED  BY <2>1, <4>1, <5>2, <5>3, <5>4 DEF Lapsed
      <4> QED  BY <4>2, <4>3
    <3> QED  BY <3>1 DEF PurgedHasClosed
  <2>4. CallsTimely'
    BY <2>1 DEF LimiterInv, CallsTimely
  <2>5. SweepsTimely'
    BY <1>7, <2>1 DEF DeleteApply, LimiterInv, SweepsTimely, Idle
  <2> QED  BY <2>2, <2>3, <2>4, <2>5 DEF LimiterInv
<1>8. CASE Crash
  BY <1>8 DEF Crash, LimiterInv, CountsEveryHit, Present, FirstLimitGranted,
     PurgedHasClosed, WindowsCharged, CallsTimely, SweepsTimely, Idle
<1>9. CASE Tick
  <2>1. CallsTimely'
    <3>1. ASSUME NEW c \in Callers, call[c].pc = "sent"
          PROVE  call[c].now \in Nat /\ call[c].now <= clock /\ clock < call[c].now + Lag
      BY <1>9, <3>1, CallFields DEF Tick, LimiterInv, CallsTimely, Sent, Instants
    <3> QED  BY <1>9, <3>1 DEF Tick, LimiterInv, CallsTimely, TypeOK, Instants
  <2>2. PurgedHasClosed'
    <3>1. \A k \in Buckets : window[k] # NoWindow => window[k].close \in Nat
      BY DEF TypeOK, Window, Instants
    <3> QED  BY <1>9, <3>1 DEF Tick, LimiterInv, PurgedHasClosed, Present, TypeOK,
                Instants
  <2>3. SweepsTimely'
    <3>1. \A d \in Sweepers : sweep[d].pc # "idle" => sweep[d].now \in Nat
      BY SweepFields DEF Instants
    <3> QED  BY <1>9, <3>1 DEF Tick, LimiterInv, SweepsTimely, TypeOK, Instants
  <2> QED
    BY <1>9, <2>1, <2>2, <2>3 DEF Tick, LimiterInv, CountsEveryHit, Present,
       FirstLimitGranted, WindowsCharged
<1>10. CASE UNCHANGED vars
  BY <1>10 DEF vars, LimiterInv, CountsEveryHit, Present, FirstLimitGranted,
     PurgedHasClosed, WindowsCharged, CallsTimely, SweepsTimely
<1> QED
  BY <1>1, <1>2, <1>3, <1>4, <1>5, <1>6, <1>7, <1>8, <1>9, <1>10 DEF Next

(* The inductive invariant holds in every state of the specification.      *)
LEMMA LimiterInductive == Spec => [](TypeOK /\ LimiterInv)
<1>1. Init => LimiterInv
  BY DEF Init, LimiterInv, CountsEveryHit, Present, FirstLimitGranted,
     PurgedHasClosed, WindowsCharged, CallsTimely, SweepsTimely, Idle
<1>2. TypeOK /\ LimiterInv /\ [Next]_vars => LimiterInv'
  BY LimiterStep
<1> QED  BY <1>1, <1>2, TypeCorrect, PTL DEF Spec

(* What counting, budgets and Retry-After rest on: counts and windows of   *)
(* buckets agree, and no statement under way is older than its delay.      *)
THEOREM LimiterInvariant == Spec => []LimiterInv
<1> QED  BY LimiterInductive, PTL

(* Every hit is counted exactly once (cache.sql): the row of a bucket      *)
(* holds the number of charges of its window, for any number of callers.   *)
THEOREM HitsCounted == Spec => []CountsEveryHit
<1>1. LimiterInv => CountsEveryHit
  BY DEF LimiterInv
<1> QED  BY <1>1, LimiterInductive, PTL

(* Limiter.Allow admits exactly the first Limit charges of every window.   *)
THEOREM BudgetExact == Spec => []FirstLimitGranted
<1>1. LimiterInv => FirstLimitGranted
  BY DEF LimiterInv
<1> QED  BY <1>1, LimiterInductive, PTL

(* Whoever waits for Retry-After and the largest skew is never rejected    *)
(* twice by one window, for every skew, statement delay and length of a    *)
(* second.                                                                 *)
THEOREM RetryAfterHonoured == Spec => []RetryAfterSuffices
<1>1. LimiterInv => RetryAfterSuffices
  BY DEF LimiterInv, CallsTimely, RetryAfterSuffices
<1> QED  BY <1>1, LimiterInductive, PTL

-----------------------------------------------------------------------------
(* A retry never moves the close of a live window (cache.sql: "a blocked   *)
(* caller cannot extend their own penalty window by retrying").            *)
THEOREM PenaltyFixed == Spec => PenaltyNotExtended
<1> DEFINE Kept == \A k \in Buckets :
                     (Present(k) /\ ~Lapsed(table[k], clock) /\ Present(k)')
                        => table'[k].expires = table[k].expires
<1>1. ASSUME TypeOK, LimiterInv, [Next]_vars
      PROVE  Kept
  <2> SUFFICES ASSUME NEW k \in Buckets, Present(k), ~Lapsed(table[k], clock),
                      Present(k)'
               PROVE  table'[k].expires = table[k].expires
    OBVIOUS
  <2>1. ASSUME NEW c \in Callers, IncrementApply(c)
        PROVE  table'[k].expires = table[k].expires
    <3>1. /\ call[c].key \in Keys /\ call[c].now \in Instants
          /\ call[c].secs \in Nat \ {0}
      BY <1>1, <2>1, CallFields DEF IncrementApply, Sent
    <3>2. call[c].now <= clock /\ clock <= call[c].now + Lag
      BY <1>1, <2>1 DEF IncrementApply, LimiterInv, CallsTimely
    <3>3. ~Lapsed(table[k], call[c].now)
      <4>1. table[k].expires \in Nat
        BY <1>1, BucketRow DEF LimiterInv
      <4> QED  BY <1>1, <3>1, <3>2, <4>1 DEF Lapsed, Instants, TypeOK
    <3>4. k = call[c].key =>
            UpsertRow(k, call[c].now, call[c].secs).expires = table[k].expires
      BY <1>1, <2>1, <3>1, <3>2, <3>3, UpsertOnBucket DEF IncrementApply
    <3> QED  BY <1>1, <2>1, <3>1, <3>4 DEF IncrementApply, TypeOK
  <2>2. ASSUME NEW d \in Sweepers, DeleteApply(d)
        PROVE  table'[k].expires = table[k].expires
    BY <1>1, <2>2 DEF DeleteApply, Present
  <2>3. ASSUME NEW j \in Keys, NEW v, NEW ttl, Set(j, v, ttl)
        PROVE  table'[k].expires = table[k].expires
    BY <1>1, <2>3 DEF Set, TypeOK
  <2>4. CASE Crash
    BY <2>4 DEF Crash, Present
  <2>5. CASE table' = table
    BY <2>5
  <2> QED
    BY <1>1, <2>1, <2>2, <2>3, <2>4, <2>5 DEF Next, vars, IncrementBegin,
       IncrementFails, ReplyLost, Decide, FlushBegin, PruneBegin, DeleteFails, Tick
<1>2. TypeOK /\ LimiterInv /\ [Next]_vars => [Kept]_vars
  BY <1>1
<1> QED  BY <1>2, LimiterInductive, PTL DEF Spec, PenaltyNotExtended

(* A bucket's budget is never handed out again before its window closed,   *)
(* up to the delay of one statement, with purges racing late upserts.      *)
THEOREM WindowsDisjoint == Spec => WindowsDoNotOverlap
<1> DEFINE Spaced == \A k \in Buckets :
                       ( /\ window[k] # NoWindow
                         /\ window'[k] # NoWindow
                         /\ window'[k] # window[k]
                         /\ window'[k].charged = 1 )
                          => window'[k].open + Lag >= window[k].close
<1>1. ASSUME TypeOK, LimiterInv, [Next]_vars
      PROVE  Spaced
  <2> SUFFICES ASSUME NEW k \in Buckets,
                      window[k] # NoWindow, window'[k] # NoWindow,
                      window'[k] # window[k], window'[k].charged = 1
               PROVE  window'[k].open + Lag >= window[k].close
    OBVIOUS
  <2>1. ASSUME NEW c \in Callers, IncrementApply(c)
        PROVE  window'[k].open + Lag >= window[k].close
    <3>1. /\ call[c].key \in Keys /\ call[c].now \in Instants
          /\ call[c].secs \in Nat \ {0}
      BY <1>1, <2>1, CallFields DEF IncrementApply, Sent
    <3>2. clock <= call[c].now + Lag
      BY <1>1, <2>1 DEF IncrementApply, LimiterInv, CallsTimely
    <3> DEFINE new == ChargedWindow(k, call[c].now,
                                    UpsertRow(k, call[c].now, call[c].secs))
    <3>3. k = call[c].key /\ window'[k] = new
      BY <1>1, <2>1 DEF IncrementApply, TypeOK
    <3> QED
      BY <1>1, <2>1, <3>1, <3>2, <3>3, UpsertOnBucket DEF IncrementApply
  <2>2. ASSUME NEW d \in Sweepers, DeleteApply(d)
        PROVE  window'[k].open + Lag >= window[k].close
    BY <1>1, <2>2 DEF DeleteApply
  <2>3. CASE Crash
    BY <2>3 DEF Crash
  <2>4. CASE window' = window
    BY <2>4
  <2> QED
    BY <1>1, <2>1, <2>2, <2>3, <2>4 DEF Next, vars, IncrementBegin,
       IncrementFails, ReplyLost, Decide, Set, FlushBegin, PruneBegin,
       DeleteFails, Tick
<1>2. TypeOK /\ LimiterInv /\ [Next]_vars => [Spaced]_vars
  BY <1>1
<1> QED  BY <1>2, LimiterInductive, PTL DEF Spec, WindowsDoNotOverlap

(* PruneExpired only removes rows that no read serves, although the rows   *)
(* may have been restarted since it took its snapshot.                     *)
THEOREM PurgeUnseen == Spec => PurgeInvisible
<1> DEFINE Unseen == (\E d \in Sweepers : sweep[d].pc = "purge" /\ DeleteApply(d))
                        => \A k \in Keys : Get(k, clock) = Get(k, clock)'
<1>1. ASSUME TypeOK, LimiterInv
      PROVE  Unseen
  <2> SUFFICES ASSUME NEW d \in Sweepers, sweep[d].pc = "purge",
                      DeleteApply(d), NEW k \in Keys
               PROVE  Get(k, clock) = Get(k, clock)'
    OBVIOUS
  <2>1. /\ table' = [j \in Keys |-> IF j \in Doomed(d) THEN NoRow ELSE table[j]]
        /\ clock' = clock
    BY DEF DeleteApply
  <2>2. CASE k \in Doomed(d)
    <3>1. table[k] \in Row /\ Lapsed(table[k], sweep[d].now)
      BY <1>1, <2>2 DEF Doomed, Present, TypeOK
    <3>2. sweep[d].now \in Nat /\ clock \in Nat /\ sweep[d].now <= clock
      BY <1>1, SweepFields DEF LimiterInv, SweepsTimely, TypeOK, Instants
    <3>3. Lapsed(table[k], clock)
      BY <3>1, <3>2 DEF Lapsed, Row, Instants
    <3> QED  BY <2>1, <2>2, <3>3 DEF Get, Present
  <2>3. CASE k \notin Doomed(d)
    BY <2>1, <2>3 DEF Get, Present
  <2> QED  BY <2>2, <2>3
<1>2. TypeOK /\ LimiterInv /\ [Next]_vars => [Unseen]_vars
  BY <1>1
<1> QED  BY <1>2, LimiterInductive, PTL DEF Spec, PurgeInvisible
=============================================================================
