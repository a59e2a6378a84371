------------------------------ MODULE Limiter ------------------------------
(***************************************************************************)
(* One ratelimit.Limiter used on its own, as broker.Config.GlobalLimit is: *)
(* every Allow takes the mutex, reads the clock, refills and answers in    *)
(* one critical section, so a call is one step however many goroutines     *)
(* make it.                                                                *)
(*                                                                         *)
(* The clock is the environment's.  The code defends against a clock that  *)
(* went backwards, so it may do that here.  `forward` is how far the clock *)
(* has moved forwards in all: the time that can have earned tokens.        *)
(***************************************************************************)
EXTENDS TokenBucket

CONSTANT MaxForward   \* bound on forward: how much time a behaviour spans

ASSUME LimiterAssumption == MaxForward \in Nat

VARIABLES
    bucket,     \* Limiter.tokens and Limiter.last
    clock,      \* what l.now() returns
    answer,     \* what the last Allow returned
    forward,    \* ticks the clock has moved forwards since the start
    seen,       \* forward at the last reading of the clock
    window,     \* a period an observer watches: when it began, admissions in it
    sinceFull   \* admissions since a reading last found the bucket full

vars == <<bucket, clock, answer, forward, seen, window, sinceFull>>

Init ==
    /\ clock = 0
    /\ bucket = newAt(0)
    /\ answer = [ok |-> TRUE, wait |-> 0]
    /\ forward = 0
    /\ seen = 0
    /\ window = [from |-> 0, admitted |-> 0]
    /\ sinceFull = 0

\* Limiter.Allow.
Allow ==
    LET b == advanceLocked(bucket, clock)
        spent == IF Full(b) THEN 0 ELSE sinceFull
    IN  /\ seen' = forward
        /\ \/ /\ Admits(b)
              /\ bucket' = Spend(b)
              /\ answer' = [ok |-> TRUE, wait |-> 0]
              /\ window' = [window EXCEPT !.admitted = @ + 1]
              /\ sinceFull' = spent + 1
           \/ /\ ~Admits(b)
              /\ bucket' = b
              /\ answer' = [ok |-> FALSE, wait |-> RetryAfter(b)]
              /\ sinceFull' = spent
              /\ UNCHANGED window
        /\ UNCHANGED <<clock, forward>>

\* The clock moves forwards.
Tick ==
    /\ forward < MaxForward
    /\ clock' = clock + 1
    /\ forward' = forward + 1
    /\ UNCHANGED <<bucket, answer, seen, window, sinceFull>>

\* The clock is set back.
StepBack ==
    /\ clock > 0
    /\ clock' \in 0 .. (clock - 1)
    /\ UNCHANGED <<bucket, answer, forward, seen, window, sinceFull>>

\* The observer starts to watch a new period now.
Watch ==
    /\ window' = [from |-> forward, admitted |-> 0]
    /\ UNCHANGED <<bucket, clock, answer, forward, seen, sinceFull>>

Next == Allow \/ Tick \/ StepBack \/ Watch

Spec == Init /\ [][Next]_vars
-----------------------------------------------------------------------------
TypeOK ==
    /\ bucket \in Bucket
    /\ clock \in Int
    /\ answer \in [ok : BOOLEAN, wait : Nat]
    /\ forward \in Nat
    /\ seen \in Nat
    /\ window \in [from : Nat, admitted : Nat]
    /\ sinceFull \in Nat

\* In any period, however it is chosen and whatever the clock does, no more is
\* admitted than one burst and what the period itself earned: the sustained
\* rate advanceLocked and Allow promise the CA.
WindowBound ==
    window.admitted * Unit <= Capacity + Rate * (forward - window.from)

\* A refusal means a whole burst was admitted since the bucket was last full:
\* a fleet restarting together gets its burst, and a clock that went backwards
\* takes no token away.
BurstBeforeRefusal ==
    ~answer.ok => sinceFull >= Burst

\* What a refusal tells the client is right to the tick: the next Allow, if it
\* comes later than the reported wait, is admitted, and if it comes before a
\* wait that was not rounded up to a second, is refused.
RetryAfterIsExact ==
    [][Allow /\ ~answer.ok =>
         /\ clock > bucket.last + answer.wait => answer'.ok
         /\ (answer.wait > Second /\ clock < bucket.last + answer.wait) => ~answer'.ok
      ]_vars
=============================================================================
