----------------------------- MODULE RateLimit -----------------------------
(***************************************************************************)
(* The shared cache table and the fixed-window rate limiter on top of it:  *)
(* internal/db/cache/cache.go, internal/db/cache/ratelimit.go and the SQL  *)
(* statements of internal/db/queries/cache.sql.                            *)
(*                                                                         *)
(* Every query is one autocommitted statement.  Postgres fixes NOW() when  *)
(* the statement starts, and the statement may then wait (for a row lock,  *)
(* for the scheduler) before it takes effect, so an upsert or a DELETE is  *)
(* two steps here: it is sent with the instant it will use as NOW(), and   *)
(* it is applied atomically up to Lag ticks later.  Time is counted in     *)
(* ticks, Second of them to a second, so that rounding to whole seconds    *)
(* can be observed.                                                        *)
(***************************************************************************)
EXTENDS Integers

CONSTANTS
    Keys,        \* every key of the cache table
    Buckets,     \* the keys built by Key(scope, identifier)
    Callers,     \* concurrent requests that increment a counter
    Sweepers,    \* concurrent DELETE statements: Flush, FlushPattern, Prune
    Second,      \* ticks in one second
    Windows,     \* the windowSeconds arguments callers pass
    TTLs,        \* the ttlSeconds arguments callers pass to Set
    MaxTTL,      \* maxTTLSeconds
    Limit,       \* the budget of every bucket
    MaxInt,      \* the largest INT of Postgres, 2^31 - 1 in production
    Values,      \* the JSON integers stored by Set
    Skews,       \* application clock minus database clock, in ticks
    Lag,         \* bound: ticks between a statement's NOW() and its effect
    MaxClock,    \* bound: the last instant explored
    NonInteger,  \* any JSON value that does not cast to INT
    Never,       \* expires_at IS NULL
    NoRow,       \* no row under this key
    NoWindow     \* no window was opened since the bucket was last cleared

Instants == Nat
Counts   == Int \cup {NonInteger}
Row      == [value : Counts, expires : Instants \cup {Never}]
Window   == [open : Instants, close : Instants, charged : Nat, granted : Nat]

ASSUME ConstantsAssumption ==
    /\ Buckets \subseteq Keys
    /\ Second \in Nat \ {0}
    /\ Windows \subseteq Int /\ TTLs \subseteq Int /\ MaxTTL \in Nat
    /\ Limit \in Nat /\ MaxInt \in Nat \ {0} /\ Values \subseteq Int
    /\ Skews \subseteq Int /\ Lag \in Nat /\ MaxClock \in Nat
    /\ NonInteger \notin Int /\ Never \notin Int

ASSUME NullAssumption == NoRow \notin Row /\ NoWindow \notin Window

VARIABLES
    clock,    \* the database's clock
    table,    \* key -> its row in the UNLOGGED table, or NoRow
    call,     \* caller -> where its Allow / Increment call stands
    sweep,    \* sweeper -> where its DELETE statement stands
    window    \* history: bucket -> the last window opened on it, or NoWindow

vars == <<clock, table, call, sweep, window>>

-----------------------------------------------------------------------------
(* The states of a call and of a DELETE.  A call carries in prior the close *)
(* of the window that last rejected it, when the caller then waited for as  *)
(* long as it was told to, and 0 otherwise.                                 *)

Idle == [pc |-> "idle"]

Sent     == [pc : {"sent"}, key : Keys, secs : Nat \ {0}, now : Instants,
             prior : Instants]
Answered == [pc : {"answered"}, key : Keys, hits : Int, expires : Instants,
             prior : Instants]
Blocked  == [pc : {"blocked"}, key : Keys, expires : Instants, until : Int,
             prior : Instants]
Calls    == {Idle} \cup Sent \cup Answered \cup Blocked

Sweeps   == {Idle} \cup [pc : {"flush", "purge"}, now : Instants,
                         seen : SUBSET Keys]

(* One type invariant: rows, calls, sweeps and windows have their shapes.   *)
TypeOK ==
    /\ clock \in Instants
    /\ table \in [Keys -> Row \cup {NoRow}]
    /\ call \in [Callers -> Calls]
    /\ sweep \in [Sweepers -> Sweeps]
    /\ window \in [Buckets -> Window \cup {NoWindow}]

-----------------------------------------------------------------------------
(* What a statement sees of a row at the instant t it uses as NOW().        *)

Present(k) == table[k] # NoRow

(* The complement of GetCacheEntry's predicate: expires_at <= NOW().        *)
Lapsed(row, t) == row.expires # Never /\ row.expires <= t

(* Cache.Get / GetPattern: the value served at t, NoRow standing for a miss *)
Get(k, t) == IF Present(k) /\ ~Lapsed(table[k], t) THEN table[k].value ELSE NoRow

(* Mutant of Restarts: the comparison with NOW() is the wrong way round.    *)
RestartsLive(row, t) == row.expires = Never \/ row.expires >= t

(* IncrementCacheCounter restarts a window that lapsed or that never ends.  *)
Restarts(row, t) == row.expires = Never \/ row.expires <= t

(* (cache.value)::TEXT::INT + 1 raises when the value does not cast, or     *)
(* when the sum leaves the INT range; the statement then changes nothing.   *)
UpsertFails(k, t) ==
    /\ Present(k)
    /\ ~Restarts(table[k], t)
    /\ table[k].value = NonInteger \/ table[k].value >= MaxInt

(* Mutant of UpsertRow: every hit moves the expiry, as a sliding window.    *)
UpsertRowSliding(k, t, secs) ==
    [value |-> IF Present(k) /\ ~Restarts(table[k], t)
               THEN table[k].value + 1 ELSE 1,
     expires |-> t + secs * Second]

(* The row left by IncrementCacheCounter, also what RETURNING reports.      *)
UpsertRow(k, t, secs) ==
    IF Present(k) /\ ~Restarts(table[k], t)
    THEN [value |-> table[k].value + 1, expires |-> table[k].expires]
    ELSE [value |-> 1, expires |-> t + secs * Second]

(* Mutant of Allowed: the count is taken to be the hits before this one.     *)
AllowedOneMore(hits) == hits - 1 <= Limit

(* Decision.Allowed.                                                        *)
Allowed(hits) == hits <= Limit

(* Mutant of RetryAfter: the second is not added to what was cut off.       *)
RetryAfterTruncated(expires, t) ==
    LET remaining == expires - t
    IN  IF remaining <= 0 THEN Second ELSE remaining - (remaining % Second)

(* Window.RetryAfter: what is left of the window at t, rounded up to whole  *)
(* seconds and never below one.                                             *)
RetryAfter(expires, t) ==
    LET remaining == expires - t
    IN  IF remaining <= 0 THEN Second
        ELSE IF remaining % Second = 0 THEN remaining
        ELSE remaining - (remaining % Second) + Second

(* The guard of IncrementWindow; a call outside it returns ErrInvalidTTL    *)
(* without reaching the database.                                           *)
ValidWindow(secs) == secs > 0 /\ secs <= MaxTTL

(* The guard of Set: 0 is the entry that never expires.                     *)
ValidTTL(secs) == secs >= 0 /\ secs <= MaxTTL

-----------------------------------------------------------------------------
(* Limiter.Allow and Limiter.Assert.                                        *)

(* A caller that was told to wait comes back on the same bucket after at    *)
(* least Retry-After, allowing for an application clock that runs ahead.    *)
Waited(c, k) ==
    /\ call[c].pc = "blocked"
    /\ call[c].key = k
    /\ clock >= call[c].until
    /\ \A s \in Skews : clock >= call[c].until + s

(* The call reaches the database, which fixes the statement's NOW().        *)
IncrementBegin(c, k, secs) ==
    /\ call[c].pc \in {"idle", "blocked"}
    /\ ValidWindow(secs)
    /\ call' = [call EXCEPT ![c] =
                  [pc |-> "sent", key |-> k, secs |-> secs, now |-> clock,
                   prior |-> IF Waited(c, k) THEN call[c].expires ELSE 0]]
    /\ UNCHANGED <<clock, table, sweep, window>>

(* History: the charge opens a window when no row was there or its          *)
(* expires_at changed, and otherwise belongs to the window of the row.      *)
ChargedWindow(k, t, row) ==
    LET grant == IF Allowed(row.value) THEN 1 ELSE 0
    IN  IF Present(k) /\ table[k].expires = row.expires /\ window[k] # NoWindow
        THEN [open |-> window[k].open, close |-> window[k].close,
              charged |-> window[k].charged + 1,
              granted |-> window[k].granted + grant]
        ELSE [open |-> t, close |-> row.expires, charged |-> 1,
              granted |-> grant]

(* The upsert takes effect with the NOW() it started with.                  *)
IncrementApply(c) ==
    /\ call[c].pc = "sent"
    /\ LET k   == call[c].key
           t   == call[c].now
           row == UpsertRow(k, t, call[c].secs)
       IN  /\ ~UpsertFails(k, t)
           /\ table' = [table EXCEPT ![k] = row]
           /\ call' = [call EXCEPT ![c] =
                         [pc |-> "answered", key |-> k, hits |-> row.value,
                          expires |-> row.expires, prior |-> call[c].prior]]
           /\ window' = IF k \in Buckets
                        THEN [window EXCEPT ![k] = ChargedWindow(k, t, row)]
                        ELSE window
    /\ UNCHANGED <<clock, sweep>>

(* The upsert raises, the connection fails or the context ends before the   *)
(* statement takes effect: Allow returns the error, nothing is charged.     *)
IncrementFails(c) ==
    /\ call[c].pc = "sent"
    /\ call' = [call EXCEPT ![c] = Idle]
    /\ UNCHANGED <<clock, table, sweep, window>>

(* The statement took effect but its reply is lost: Allow returns an error  *)
(* for an attempt that was charged.                                         *)
ReplyLost(c) ==
    /\ call[c].pc = "answered"
    /\ call' = [call EXCEPT ![c] = Idle]
    /\ UNCHANGED <<clock, table, sweep, window>>

(* Allow decides.  time.Now() is read from the application's clock after    *)
(* the reply, and only for a rejected attempt.                              *)
Decide(c, skew) ==
    /\ call[c].pc = "answered"
    /\ call' = [call EXCEPT ![c] =
                  IF Allowed(call[c].hits)
                  THEN Idle
                  ELSE [pc |-> "blocked", key |-> call[c].key,
                        expires |-> call[c].expires,
                        until |-> clock + RetryAfter(call[c].expires, clock + skew),
                        prior |-> call[c].prior]]
    /\ UNCHANGED <<clock, table, sweep, window>>

-----------------------------------------------------------------------------
(* The other cache operations.                                              *)

(* Cache.Set, by the owners of keys the limiter does not build.  The upsert *)
(* looks at nothing of the row it replaces, so it is one step.              *)
Set(k, v, ttl) ==
    /\ k \notin Buckets
    /\ ValidTTL(ttl)
    /\ table' = [table EXCEPT ![k] =
                   [value |-> v,
                    expires |-> IF ttl > 0 THEN clock + ttl * Second ELSE Never]]
    /\ UNCHANGED <<clock, call, sweep, window>>

(* Flush, Limiter.Clear and FlushPattern: a DELETE by key.  Its snapshot    *)
(* holds the rows there when it starts; with no keys nothing is sent.       *)
FlushBegin(d, ks) ==
    /\ sweep[d].pc = "idle"
    /\ ks # {}
    /\ sweep' = [sweep EXCEPT ![d] =
                   [pc |-> "flush", now |-> clock,
                    seen |-> {k \in ks : Present(k)}]]
    /\ UNCHANGED <<clock, table, call, window>>

(* PruneExpired: the snapshot holds the rows lapsed at NOW().               *)
PruneBegin(d) ==
    /\ sweep[d].pc = "idle"
    /\ sweep' = [sweep EXCEPT ![d] =
                   [pc |-> "purge", now |-> clock,
                    seen |-> {k \in Keys : Present(k) /\ Lapsed(table[k], clock)}]]
    /\ UNCHANGED <<clock, table, call, window>>

(* Mutant of Doomed: rows updated since the snapshot are not tested again.   *)
DoomedUntested(d) == {k \in sweep[d].seen : Present(k)}

(* The rows a DELETE removes: those of its snapshot nobody else deleted; a  *)
(* row updated in the meantime is tested again, with the same NOW().        *)
Doomed(d) ==
    {k \in sweep[d].seen :
        /\ Present(k)
        /\ sweep[d].pc = "purge" => Lapsed(table[k], sweep[d].now)}

(* The DELETE takes effect.  A deleted row leaves every other snapshot: a   *)
(* row inserted later under its key is another row.  Clearing a bucket ends *)
(* its window; purging does not.                                            *)
DeleteApply(d) ==
    /\ sweep[d].pc \in {"flush", "purge"}
    /\ table' = [k \in Keys |-> IF k \in Doomed(d) THEN NoRow ELSE table[k]]
    /\ sweep' = [e \in Sweepers |->
                   IF e = d THEN Idle
                   ELSE IF sweep[e].pc = "idle" THEN sweep[e]
                   ELSE [pc |-> sweep[e].pc, now |-> sweep[e].now,
                         seen |-> sweep[e].seen \ Doomed(d)]]
    /\ window' = [k \in Buckets |->
                    IF sweep[d].pc = "flush" /\ k \in Doomed(d)
                    THEN NoWindow ELSE window[k]]
    /\ UNCHANGED <<clock, call>>

(* The DELETE fails and removes nothing.                                    *)
DeleteFails(d) ==
    /\ sweep[d].pc \in {"flush", "purge"}
    /\ sweep' = [sweep EXCEPT ![d] = Idle]
    /\ UNCHANGED <<clock, table, call, window>>

(* Postgres crashes and recovers: the UNLOGGED table comes back empty and   *)
(* every statement under way fails.  Rate-limit budgets start afresh.       *)
Crash ==
    /\ table' = [k \in Keys |-> NoRow]
    /\ call' = [c \in Callers |-> IF call[c].pc = "sent" THEN Idle ELSE call[c]]
    /\ sweep' = [d \in Sweepers |-> Idle]
    /\ window' = [k \in Buckets |-> NoWindow]
    /\ UNCHANGED clock

(* Time passes.  No statement is under way for more than Lag ticks.         *)
Tick ==
    /\ clock < MaxClock
    /\ \A c \in Callers : call[c].pc = "sent" => clock < call[c].now + Lag
    /\ clock' = clock + 1
    /\ UNCHANGED <<table, call, sweep, window>>

-----------------------------------------------------------------------------
Init ==
    /\ clock = 0
    /\ table = [k \in Keys |-> NoRow]
    /\ call = [c \in Callers |-> Idle]
    /\ sweep = [d \in Sweepers |-> Idle]
    /\ window = [k \in Buckets |-> NoWindow]

Next ==
    \/ \E c \in Callers, k \in Keys, secs \in Windows : IncrementBegin(c, k, secs)
    \/ \E c \in Callers : IncrementApply(c)
    \/ \E c \in Callers : IncrementFails(c)
    \/ \E c \in Callers : ReplyLost(c)
    \/ \E c \in Callers, skew \in Skews : Decide(c, skew)
    \/ \E k \in Keys, v \in Values \cup {NonInteger}, ttl \in TTLs : Set(k, v, ttl)
    \/ \E d \in Sweepers, ks \in SUBSET Keys : FlushBegin(d, ks)
    \/ \E d \in Sweepers : PruneBegin(d)
    \/ \E d \in Sweepers : DeleteApply(d)
    \/ \E d \in Sweepers : DeleteFails(d)
    \/ Crash
    \/ Tick

Spec == Init /\ [][Next]_vars

-----------------------------------------------------------------------------
(* cache.sql says that "every hit is counted exactly once": whatever        *)
(* callers, clears, purges and crashes interleave, a bucket's row holds the *)
(* number of charges made in the window it closes.                          *)
CountsEveryHit ==
    \A k \in Buckets :
        Present(k) => /\ window[k] # NoWindow
                      /\ table[k].value = window[k].charged
                      /\ table[k].expires = window[k].close

(* A window admits exactly its first Limit charges: never more, however the *)
(* callers race, and never fewer while the budget lasts.                    *)
FirstLimitGranted ==
    \A k \in Buckets :
        window[k] # NoWindow =>
            window[k].granted = IF window[k].charged <= Limit
                                THEN window[k].charged ELSE Limit

(* A caller that waits for the Retry-After it was given, and for as long as *)
(* its clock may be ahead of the database's, is not rejected again by the   *)
(* window that rejected it, whatever the rounding and the delay of its      *)
(* statement.                                                               *)
RetryAfterSuffices ==
    \A c \in Callers :
        call[c].pc = "blocked" => call[c].expires > call[c].prior

(* The rest of what the three invariants above need to be inductive.  A     *)
(* bucket whose row is gone although its window was not cleared was purged, *)
(* so that window has closed.                                               *)
PurgedHasClosed ==
    \A k \in Buckets :
        (~Present(k) /\ window[k] # NoWindow) => window[k].close <= clock

(* Only a charge opens a window.                                            *)
WindowsCharged ==
    \A k \in Buckets : window[k] # NoWindow => window[k].charged >= 1

(* A statement's NOW() is at most Lag ticks old and not before the close of *)
(* the window its caller waited for; a reply closes after that window, and  *)
(* the wait handed out with a rejection covers what is left of the window.  *)
CallsTimely ==
    \A c \in Callers :
        /\ call[c].pc = "sent" =>
              /\ call[c].now <= clock
              /\ clock <= call[c].now + Lag
              /\ call[c].prior <= call[c].now
        /\ call[c].pc = "answered" => call[c].expires > call[c].prior
        /\ call[c].pc = "blocked" =>
              /\ call[c].expires > call[c].prior
              /\ \E s \in Skews : call[c].until + s >= call[c].expires

(* A DELETE never uses a NOW() of the future.                               *)
SweepsTimely ==
    \A d \in Sweepers : sweep[d].pc # "idle" => sweep[d].now <= clock

(* The inductive invariant of the proofs.                                   *)
LimiterInv ==
    /\ CountsEveryHit
    /\ FirstLimitGranted
    /\ PurgedHasClosed
    /\ WindowsCharged
    /\ CallsTimely
    /\ SweepsTimely

(* "A blocked caller cannot extend their own penalty window by retrying":   *)
(* as long as a bucket's row is live and stays, its expiry does not move.   *)
PenaltyNotExtended ==
    [][\A k \in Buckets :
          (Present(k) /\ ~Lapsed(table[k], clock) /\ Present(k)')
             => table'[k].expires = table[k].expires]_vars

(* Consecutive windows of a bucket that nobody cleared overlap by no more   *)
(* than the delay of a statement, so the budget is not handed out early:    *)
(* even when a purge removes the row of the window that a late upsert       *)
(* would have counted in.                                                   *)
WindowsDoNotOverlap ==
    [][\A k \in Buckets :
          ( /\ window[k] # NoWindow
            /\ window'[k] # NoWindow
            /\ window'[k] # window[k]
            /\ window'[k].charged = 1 )
             => window'[k].open + Lag >= window[k].close]_vars

(* "Reads already ignore them": purging never changes what any read of the  *)
(* cache returns, whichever increments ran since the purge took its         *)
(* snapshot.                                                                *)
PurgeInvisible ==
    [][(\E d \in Sweepers : sweep[d].pc = "purge" /\ DeleteApply(d))
          => \A k \in Keys : Get(k, clock) = Get(k, clock)']_vars
=============================================================================
