---------------------------- MODULE MCRateLimit ----------------------------
(***************************************************************************)
(* Small instances of RateLimit.  A second is two ticks, so windows close  *)
(* between whole seconds of a reader's clock, and the INT range ends at 3, *)
(* so the counter reaches it.  The invalid windows and lifetimes 0, 3 and  *)
(* -1 are offered to the guards that must refuse them.                     *)
(***************************************************************************)
EXTENDS RateLimit

CONSTANTS c1, c2, d1, bucket, plain

BothKeys   == {bucket, plain}
OneBucket  == {bucket}
TwoCallers == {c1, c2}
OneSweeper == {d1}

MCWindows == {0, 1, 3}
MCTTLs    == {-1, 0, 1, 3}
MCValues  == {2}
MCSkews   == {-1, 0, 1}

\* Key k has a row, or is named by a statement under way.
Uses(k) ==
    \/ table[k] # NoRow
    \/ \E c \in Callers : call[c].pc # "idle" /\ call[c].key = k
    \/ \E d \in Sweepers : sweep[d].pc # "idle" /\ k \in sweep[d].seen

\* Keys do not interact, so a behaviour is about one of them: two callers and a
\* sweeper on the bucket, or one caller and the sweeper on the plain key, which
\* stops a tick earlier.
OneKeyAtATime ==
    /\ ~(Uses(bucket) /\ Uses(plain))
    /\ Uses(plain) => window[bucket] = NoWindow /\ clock < MaxClock
    /\ \A c \in Callers : call[c].pc # "idle" /\ call[c].key = plain => c = c1
=============================================================================
