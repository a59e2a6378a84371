---------------------------- MODULE TokenBucket ----------------------------
(***************************************************************************)
(* The arithmetic of ratelimit.Limiter (src/internal/ratelimit): one token *)
(* bucket as a record, and what Allow and fullAt do to it while they hold  *)
(* the bucket's mutex.                                                     *)
(*                                                                         *)
(* Time is counted in ticks, the resolution of the clock.  Tokens are      *)
(* counted in fractions so that the arithmetic stays in the integers: a    *)
(* token is Unit fractions and Rate fractions arrive at each tick, so the  *)
(* code's `rate` is Rate/Unit tokens a tick.  The float64 of the code is   *)
(* read as an exact number; the one conversion that loses something, the   *)
(* time.Duration of the refusal, is kept (RetryAfter).                     *)
(*                                                                         *)
(* New and NewKeyed return nil for a rate or a burst that is not positive, *)
(* and a nil limiter admits everything: a limiter exists only with both    *)
(* positive, which is BucketAssumption.                                    *)
(***************************************************************************)
EXTENDS Integers

CONSTANTS
    Rate,    \* fractions of a token that arrive at each tick
    Burst,   \* capacity of the bucket, in tokens
    Unit,    \* fractions that make one token
    Second   \* ticks in a second, the least wait a refusal reports

ASSUME BucketAssumption ==
    /\ Rate \in Nat \ {0}
    /\ Burst \in Nat \ {0}
    /\ Unit \in Nat \ {0}
    /\ Second \in Nat \ {0}

Capacity == Burst * Unit

Bucket == [tokens : 0 .. Capacity, last : Int]

\* A new bucket starts empty: "refuses a legitimate first request".
newAtEmpty(now) == [tokens |-> 0, last |-> now]

\* A new bucket starts full.
newAt(now) == [tokens |-> Capacity, last |-> now]

\* The refill forgets the capacity.
advanceUncapped(b, now) ==
    [tokens |-> IF now > b.last THEN b.tokens + (now - b.last) * Rate ELSE b.tokens,
     last |-> now]

\* The refill does not move the reading it measures from, once capped.
advanceNoRebase(b, now) ==
    LET refilled == b.tokens + (now - b.last) * Rate
    IN  IF now <= b.last THEN b
        ELSE IF refilled > Capacity THEN [b EXCEPT !.tokens = Capacity]
        ELSE [tokens |-> refilled, last |-> now]

\* Refill for the time since the last reading, up to the capacity.  A reading
\* that is not later than the last one leaves the level and re-bases.
advanceLocked(b, now) ==
    LET refilled == b.tokens + (now - b.last) * Rate
    IN  [tokens |-> IF now <= b.last THEN b.tokens
                    ELSE IF refilled > Capacity THEN Capacity
                    ELSE refilled,
         last |-> now]

Admits(b) == b.tokens >= Unit

Spend(b) == [b EXCEPT !.tokens = @ - Unit]

\* The refusal reports the wait for a whole token, not for what is missing.
RetryAfterWholeToken(b) ==
    LET wait == Unit \div Rate IN IF wait < Second THEN Second ELSE wait

\* What a refusal reports: the time the missing fractions take to arrive, cut
\* to whole ticks by the conversion to time.Duration, and at least a second.
RetryAfter(b) ==
    LET wait == (Unit - b.tokens) \div Rate IN IF wait < Second THEN Second ELSE wait

Full(b) == b.tokens >= Capacity
=============================================================================
