--------------------------- MODULE LimiterProofs ---------------------------
(***************************************************************************)
(* What Limiter promises for every rate, burst, token size and clock: the  *)
(* type invariant, the bound on any period, the burst before a refusal,    *)
(* and the exactness of the reported wait.                                 *)
(***************************************************************************)
EXTENDS Limiter, TLAPS
-----------------------------------------------------------------------------
(***************************************************************************)
(* Lemmas about the arithmetic of one bucket: what a refill gives, that a  *)
(* refill in two goes gives what it gives in one, and what a refusal says. *)
(* KeyedLimiterProofs and AdmissionProofs take them from here.             *)
(***************************************************************************)

\* The capacity of a bucket is a positive number of fractions, a token at least.
LEMMA CapacityIsPositive == Capacity \in Nat /\ Capacity >= Unit
  <1>1. Burst \in Nat /\ Burst >= 1 /\ Unit \in Nat
    BY BucketAssumption
  <1>2. \A u \in Nat, n \in Nat : n >= 1 => n * u \in Nat /\ n * u >= u
    <2> SUFFICES ASSUME NEW u \in Nat, NEW n \in Nat, n >= 1
                 PROVE  n * u \in Nat /\ n * u >= u
      OBVIOUS
    <2>2. n * u = (n - 1) * u + u
      OBVIOUS
    <2>3. n - 1 \in Nat
      OBVIOUS
    <2>4. (n - 1) * u \in Nat
      BY <2>3
    <2> QED
      BY <2>2, <2>4
  <1> QED
    BY <1>1, <1>2 DEF Capacity

\* Time that passes earns no less than nothing, and more time no less than less.
LEMMA EarnedMonotone ==
  ASSUME NEW m \in Int, NEW n \in Int, m <= n
  PROVE  Rate * m <= Rate * n /\ Rate * m \in Int /\ Rate * n \in Int
  <1>1. Rate \in Nat
    BY BucketAssumption
  <1>2. Rate * n = Rate * m + Rate * (n - m)
    BY <1>1
  <1>3. n - m \in Nat /\ Rate * (n - m) \in Nat
    BY <1>1
  <1> QED
    BY <1>1, <1>2, <1>3

\* advanceLocked keeps a bucket a bucket, takes nothing from it and adds at
\* most what the time since the last reading earns.
LEMMA AdvanceBounds ==
  ASSUME NEW b \in Bucket, NEW now \in Int
  PROVE  /\ advanceLocked(b, now) \in Bucket
         /\ advanceLocked(b, now).last = now
         /\ advanceLocked(b, now).tokens >= b.tokens
         /\ now <= b.last => advanceLocked(b, now).tokens = b.tokens
         /\ now > b.last => advanceLocked(b, now).tokens <= b.tokens + Rate * (now - b.last)
         /\ \/ now <= b.last
            \/ advanceLocked(b, now).tokens = Capacity
            \/ advanceLocked(b, now).tokens = b.tokens + Rate * (now - b.last)
  <1> DEFINE earned == (now - b.last) * Rate
  <1>1. Rate \in Nat /\ Capacity \in Nat
    BY BucketAssumption, CapacityIsPositive
  <1>2. b.tokens \in 0 .. Capacity /\ b.last \in Int
    BY DEF Bucket
  <1>3. earned \in Int /\ earned = Rate * (now - b.last)
    BY <1>1, <1>2
  <1>4. now > b.last => earned \in Nat
    <2>1. SUFFICES ASSUME now > b.last PROVE earned \in Nat
      OBVIOUS
    <2>2. Rate * 0 <= Rate * (now - b.last)
      BY <2>1, <1>2, EarnedMonotone
    <2> QED
      BY <2>2, <1>1, <1>3
  <1> HIDE DEF earned
  <1>5. advanceLocked(b, now) =
          [tokens |-> IF now <= b.last THEN b.tokens
                      ELSE IF b.tokens + earned > Capacity THEN Capacity
                      ELSE b.tokens + earned,
           last |-> now]
    BY DEF advanceLocked, earned
  <1> QED
    BY <1>1, <1>2, <1>3, <1>4, <1>5 DEF Bucket
-----------------------------------------------------------------------------

\* Division by the rate rounds down: the whole ticks of a wait earn no more
\* than what was missing, and one tick more earns it all.
LEMMA DivisionRoundsDown ==
  ASSUME NEW m \in Nat
  PROVE  /\ m \div Rate \in Nat
         /\ Rate * (m \div Rate) <= m
         /\ m < Rate * ((m \div Rate) + 1)
  BY BucketAssumption

\* A refusal waits a number of ticks: at least a second, and at least the time
\* the missing fractions take to arrive, cut to whole ticks.
LEMMA RetryAfterBounds ==
  ASSUME NEW b \in Bucket, ~Admits(b)
  PROVE  /\ RetryAfter(b) \in Nat
         /\ RetryAfter(b) >= (Unit - b.tokens) \div Rate
         /\ RetryAfter(b) > Second => RetryAfter(b) = (Unit - b.tokens) \div Rate
         /\ Unit - b.tokens \in Nat
  <1>1. Unit - b.tokens \in Nat
    BY BucketAssumption, CapacityIsPositive DEF Bucket, Admits
  <1>2. (Unit - b.tokens) \div Rate \in Nat
    BY <1>1, DivisionRoundsDown
  <1> QED
    BY <1>1, <1>2, BucketAssumption DEF RetryAfter
-----------------------------------------------------------------------------
\* A reading in between changes nothing: the refill up to it and the refill since
\* are together the refill of the whole time.
LEMMA AdvanceComposes ==
  ASSUME NEW b \in Bucket, NEW now \in Int, NEW later \in Int, b.last <= now, now <= later
  PROVE  advanceLocked(advanceLocked(b, now), later) = advanceLocked(b, later)
  <1> DEFINE first == (now - b.last) * Rate
             then == (later - now) * Rate
             whole == (later - b.last) * Rate
  <1>1. Rate \in Nat /\ Capacity \in Nat /\ b.tokens \in 0 .. Capacity /\ b.last \in Int
    BY BucketAssumption, CapacityIsPositive DEF Bucket
  <1>2. /\ first \in Int /\ then \in Int /\ whole \in Int
        /\ whole = first + then
        /\ now = b.last => first = 0
        /\ later = now => then = 0
    BY <1>1
  <1>3. first >= 0 /\ then >= 0
    <2>1. Rate * 0 <= Rate * (now - b.last) /\ Rate * 0 <= Rate * (later - now)
      BY <1>1, EarnedMonotone
    <2> QED
      BY <1>1, <2>1
  <1> HIDE DEF first, then, whole
  <1>4. advanceLocked(b, now) =
          [tokens |-> IF now <= b.last THEN b.tokens
                      ELSE IF b.tokens + first > Capacity THEN Capacity
                      ELSE b.tokens + first,
           last |-> now]
    BY DEF advanceLocked, first
  <1>5. advanceLocked(b, later) =
          [tokens |-> IF later <= b.last THEN b.tokens
                      ELSE IF b.tokens + whole > Capacity THEN Capacity
                      ELSE b.tokens + whole,
           last |-> later]
    BY DEF advanceLocked, whole
  <1> DEFINE c == advanceLocked(b, now)
  <1>6. c.last = now /\ c.tokens = IF b.tokens + first > Capacity THEN Capacity ELSE b.tokens + first
    BY <1>1, <1>2, <1>4
  <1>7. advanceLocked(c, later) =
          [tokens |-> IF later <= now THEN c.tokens
                      ELSE IF c.tokens + then > Capacity THEN Capacity
                      ELSE c.tokens + then,
           last |-> later]
    BY <1>6 DEF advanceLocked, then
  <1> HIDE DEF c
  <1>8. advanceLocked(c, later).tokens = advanceLocked(b, later).tokens
    BY <1>1, <1>2, <1>3, <1>5, <1>6, <1>7
  <1>9. advanceLocked(c, later) = advanceLocked(b, later)
    BY <1>5, <1>7, <1>8
  <1> QED
    BY <1>9 DEF c

\* Two buckets with one level now have one level ever after.
LEMMA SameLevelStays ==
  ASSUME NEW b \in Bucket, NEW c \in Bucket, NEW now \in Int, NEW later \in Int,
         b.last <= now, c.last <= now, now <= later,
         advanceLocked(b, now).tokens = advanceLocked(c, now).tokens
  PROVE  advanceLocked(b, later) = advanceLocked(c, later)
  <1>1. advanceLocked(b, now) = advanceLocked(c, now)
    BY DEF advanceLocked
  <1>2. /\ advanceLocked(advanceLocked(b, now), later) = advanceLocked(b, later)
        /\ advanceLocked(advanceLocked(c, now), later) = advanceLocked(c, later)
    BY AdvanceComposes
  <1> QED
    BY <1>1, <1>2

\* A new bucket is a full one.
LEMMA NewIsFull ==
  ASSUME NEW now \in Int
  PROVE  /\ newAt(now) \in Bucket
         /\ newAt(now).last = now
         /\ newAt(now).tokens = Capacity
  BY CapacityIsPositive DEF newAt, Bucket

\* A bucket that is full stays full.
LEMMA FullStays ==
  ASSUME NEW b \in Bucket, NEW now \in Int, b.tokens = Capacity
  PROVE  advanceLocked(b, now).tokens = Capacity
  <1>1. advanceLocked(b, now) \in Bucket /\ advanceLocked(b, now).tokens >= b.tokens
    BY AdvanceBounds
  <1> QED
    BY <1>1, CapacityIsPositive DEF Bucket

\* Taking a token that is there leaves a bucket.
LEMMA SpendBounds ==
  ASSUME NEW b \in Bucket, Admits(b)
  PROVE  /\ Spend(b) \in Bucket
         /\ Spend(b).last = b.last
         /\ Spend(b).tokens = b.tokens - Unit
  <1>1. /\ Unit \in Nat /\ Capacity \in Nat /\ b.tokens \in 0 .. Capacity /\ b.last \in Int
        /\ b = [tokens |-> b.tokens, last |-> b.last]
    BY BucketAssumption, CapacityIsPositive DEF Bucket
  <1>2. Spend(b) = [tokens |-> b.tokens - Unit, last |-> b.last]
    BY <1>1 DEF Spend
  <1> QED
    BY <1>1, <1>2 DEF Admits, Bucket

\* A wait that earns what is missing of a token is long enough: at any reading of
\* the clock that much later there is one.
LEMMA EarningsAdmit ==
  ASSUME NEW b \in Bucket, NEW now \in Int, now > b.last,
         Rate * (now - b.last) >= Unit - b.tokens
  PROVE  Admits(advanceLocked(b, now))
  <1>0. b.last \in Int /\ ~(now <= b.last)
    BY DEF Bucket
  <1>1. \/ advanceLocked(b, now).tokens = Capacity
        \/ advanceLocked(b, now).tokens = b.tokens + Rate * (now - b.last)
    BY <1>0, AdvanceBounds
  <1>2. b.tokens \in Int /\ Unit \in Int /\ Capacity >= Unit /\ Rate * (now - b.last) \in Int
    BY BucketAssumption, CapacityIsPositive DEF Bucket
  <1>3. advanceLocked(b, now).tokens >= Unit
    BY <1>1, <1>2, CapacityIsPositive
  <1> QED
    BY <1>3 DEF Admits

\* What a refusal says is true: whoever comes later than it said finds a token,
\* if nobody took it.
LEMMA WaitEarns ==
  ASSUME NEW b \in Bucket, ~Admits(b), NEW now \in Int, now > b.last + RetryAfter(b)
  PROVE  Admits(advanceLocked(b, now))
  <1> DEFINE missing == Unit - b.tokens
             cut == missing \div Rate
  <1>1. /\ missing \in Nat /\ RetryAfter(b) \in Nat /\ RetryAfter(b) >= cut
        /\ b.last \in Int /\ Rate \in Nat
    BY RetryAfterBounds, BucketAssumption DEF Bucket
  <1>2. cut \in Nat /\ missing < Rate * (cut + 1)
    BY <1>1, DivisionRoundsDown
  <1> HIDE DEF missing, cut
  <1>3. now > b.last /\ cut + 1 <= now - b.last
    BY <1>1, <1>2
  <1>4. Rate * (cut + 1) <= Rate * (now - b.last) /\ Rate * (now - b.last) \in Int
    BY <1>1, <1>2, <1>3, EarnedMonotone
  <1>5. Rate * (now - b.last) >= missing
    BY <1>1, <1>2, <1>4
  <1>6. Rate * (now - b.last) >= Unit - b.tokens
    BY <1>5 DEF missing
  <1> QED
    BY <1>3, <1>6, EarningsAdmit
-----------------------------------------------------------------------------
(***************************************************************************)
(* The inductive invariant.  WindowBound alone is not inductive: it has to *)
(* say where the tokens in the bucket come from.  Between two readings the *)
(* clock may move on, or back, so what is known is relative to the last    *)
(* reading (`seen`), and a period that began after it holds no admission.  *)
(***************************************************************************)

\* The clock cannot have run ahead of the last reading by more than it moved.
ReadingIsBehind ==
    /\ seen <= forward
    /\ window.from <= forward
    /\ clock - bucket.last <= forward - seen

\* What was admitted in the period and what is left come out of one burst and
\* the ticks of the period the limiter has accounted for.
WindowAccounted ==
    /\ seen < window.from => window.admitted = 0
    /\ seen >= window.from =>
         window.admitted * Unit + bucket.tokens <= Capacity + Rate * (seen - window.from)

\* Nothing but admissions takes tokens from a full bucket.
SpentAccounted == sinceFull * Unit + bucket.tokens >= Capacity

\* The last answer, if it was a refusal, still describes the bucket.
RefusalDescribesBucket ==
    ~answer.ok => ~Admits(bucket) /\ answer.wait = RetryAfter(bucket)

IInv ==
    /\ TypeOK
    /\ ReadingIsBehind
    /\ WindowAccounted
    /\ SpentAccounted
    /\ RefusalDescribesBucket

\* The start: a full bucket, nothing admitted.
LEMMA InitIInv == Init => IInv
  <1> SUFFICES ASSUME Init PROVE IInv
    OBVIOUS
  <1>1. Capacity \in Nat
    BY CapacityIsPositive
  <1>2. bucket = [tokens |-> Capacity, last |-> 0]
    BY DEF Init, newAt
  <1>3. Rate * 0 = 0 /\ 0 * Unit = 0
    BY BucketAssumption
  <1> QED
    BY <1>1, <1>2, <1>3 DEF Init, IInv, TypeOK, Bucket, ReadingIsBehind,
       WindowAccounted, SpentAccounted, RefusalDescribesBucket

\* One more admission costs one more token.
LEMMA OneMore == \A n \in Int : (n + 1) * Unit = n * Unit + Unit /\ n * Unit \in Int
  BY BucketAssumption

\* Allow: the reading earns at most the ticks since the last one, and the
\* token it may take pays for the admission.
LEMMA AllowIInv == IInv /\ Allow => IInv'
  <1> SUFFICES ASSUME IInv, Allow PROVE IInv'
    OBVIOUS
  <1> DEFINE b == advanceLocked(bucket, clock)
             spent == IF Full(b) THEN 0 ELSE sinceFull
             elapsed == clock - bucket.last
  <1>1. /\ bucket \in Bucket /\ clock \in Int /\ forward \in Nat /\ seen \in Nat
        /\ window.from \in Nat /\ window.admitted \in Nat /\ sinceFull \in Nat
        /\ window \in [from : Nat, admitted : Nat]
        /\ bucket.tokens \in 0 .. Capacity /\ bucket.last \in Int
    BY DEF IInv, TypeOK, Bucket
  <1>2. Capacity \in Nat /\ Unit \in Nat /\ Unit >= 1 /\ Rate \in Nat
    BY CapacityIsPositive, BucketAssumption
  <1>3. /\ b \in Bucket /\ b.last = clock /\ b.tokens \in 0 .. Capacity
        /\ b.tokens >= bucket.tokens
        /\ clock <= bucket.last => b.tokens = bucket.tokens
        /\ clock > bucket.last => b.tokens <= bucket.tokens + Rate * elapsed
    BY <1>1, AdvanceBounds DEF Bucket
  <1> HIDE DEF b
  <1>4. elapsed <= forward - seen /\ seen <= forward /\ window.from <= forward
    BY <1>1 DEF IInv, ReadingIsBehind
  \* The level after the reading, accounted to the present.
  <1>5. window.admitted * Unit + b.tokens <= Capacity + Rate * (forward - window.from)
    <2>1. CASE seen < window.from
      <3>1. window.admitted * Unit = 0
        BY <2>1, <1>2 DEF IInv, WindowAccounted
      <3>2. Rate * 0 <= Rate * (forward - window.from) /\ Rate * (forward - window.from) \in Int
        BY <1>1, <1>4, EarnedMonotone
      <3> QED
        BY <3>1, <3>2, <1>2, <1>3
    <2>2. CASE seen >= window.from
      <3>1. window.admitted * Unit + bucket.tokens <= Capacity + Rate * (seen - window.from)
        BY <2>2 DEF IInv, WindowAccounted
      <3>2. b.tokens <= bucket.tokens + Rate * (forward - seen)
        <4>1. Rate * 0 <= Rate * (forward - seen) /\ Rate * (forward - seen) \in Int
          BY <1>1, <1>4, EarnedMonotone
        <4>2. Rate * elapsed <= Rate * (forward - seen) /\ Rate * elapsed \in Int
          BY <1>1, <1>4, EarnedMonotone
        <4> HIDE DEF elapsed
        <4> QED
          BY <4>1, <4>2, <1>1, <1>2, <1>3
      <3>3. Rate * (seen - window.from) + Rate * (forward - seen) = Rate * (forward - window.from)
        BY <1>1, <1>2
      <3>4. /\ Rate * (seen - window.from) \in Int /\ Rate * (forward - seen) \in Int
            /\ window.admitted * Unit \in Int
        BY <1>1, <1>2
      <3> QED
        BY <3>1, <3>2, <3>3, <3>4, <1>1, <1>2, <1>3
    <2>3. seen < window.from \/ seen >= window.from
      BY <1>1
    <2> QED
      BY <2>1, <2>2, <2>3
  <1>6. spent \in Nat /\ spent * Unit + b.tokens >= Capacity
    <2>1. CASE Full(b)
      BY <2>1, <1>2, <1>3 DEF Full
    <2>2. CASE ~Full(b)
      <3>1. sinceFull * Unit + bucket.tokens >= Capacity /\ sinceFull * Unit \in Int
        BY <1>1, <1>2 DEF IInv, SpentAccounted
      <3> QED
        BY <3>1, <2>2, <1>1, <1>2, <1>3
    <2> QED
      BY <2>1, <2>2
  <1> HIDE DEF spent
  <1>7. seen' = forward /\ clock' = clock /\ forward' = forward
    BY DEF Allow
  <1>8. CASE Admits(b)
    <2>1. /\ bucket' = Spend(b)
          /\ answer' = [ok |-> TRUE, wait |-> 0]
          /\ window' = [window EXCEPT !.admitted = @ + 1]
          /\ sinceFull' = spent + 1
      BY <1>8 DEF Allow, b, spent
    <2>2. bucket' \in Bucket /\ bucket'.tokens = b.tokens - Unit /\ bucket'.last = clock
      BY <2>1, <1>8, <1>2, <1>3 DEF Admits, Spend, Bucket
    <2>3. /\ window' \in [from : Nat, admitted : Nat] /\ window'.from = window.from
          /\ window'.admitted = window.admitted + 1
      BY <2>1, <1>1
    <2>4. TypeOK'
      BY <2>1, <2>2, <2>3, <1>1, <1>6, <1>7 DEF TypeOK
    <2>5. ReadingIsBehind'
      BY <2>2, <2>3, <1>1, <1>4, <1>7 DEF ReadingIsBehind
    <2>6. WindowAccounted'
      <3>1. window'.admitted * Unit = window.admitted * Unit + Unit /\ window.admitted * Unit \in Int
        BY <2>3, <1>1, OneMore
      <3>2. Rate * (forward - window.from) \in Int
        BY <1>1, <1>2
      <3>3. window'.admitted * Unit + bucket'.tokens <= Capacity + Rate * (forward - window.from)
        BY <3>1, <3>2, <2>2, <1>2, <1>3, <1>5
      <3> QED
        BY <3>3, <2>3, <1>4, <1>7, <1>1 DEF WindowAccounted
    <2>7. SpentAccounted'
      <3>1. sinceFull' * Unit = spent * Unit + Unit /\ spent * Unit \in Int
        BY <2>1, <1>6, OneMore
      <3> QED
        BY <3>1, <2>2, <1>2, <1>3, <1>6 DEF SpentAccounted
    <2>8. RefusalDescribesBucket'
      BY <2>1 DEF RefusalDescribesBucket
    <2> QED
      BY <2>4, <2>5, <2>6, <2>7, <2>8 DEF IInv
  <1>9. CASE ~Admits(b)
    <2>1. /\ bucket' = b
          /\ answer' = [ok |-> FALSE, wait |-> RetryAfter(b)]
          /\ window' = window
          /\ sinceFull' = spent
      BY <1>9 DEF Allow, b, spent
    <2>2. RetryAfter(b) \in Nat
      BY <1>3, <1>9, RetryAfterBounds
    <2>3. TypeOK'
      BY <2>1, <2>2, <1>1, <1>3, <1>6, <1>7 DEF TypeOK
    <2>4. ReadingIsBehind'
      BY <2>1, <1>1, <1>3, <1>4, <1>7 DEF ReadingIsBehind
    <2>5. WindowAccounted'
      BY <2>1, <1>4, <1>5, <1>7, <1>1 DEF WindowAccounted
    <2>6. SpentAccounted'
      BY <2>1, <1>6 DEF SpentAccounted
    <2>7. RefusalDescribesBucket'
      BY <2>1, <1>9 DEF RefusalDescribesBucket, Admits, RetryAfter
    <2> QED
      BY <2>3, <2>4, <2>5, <2>6, <2>7 DEF IInv
  <1> QED
    BY <1>8, <1>9

\* The clock and the observer leave the bucket alone.
LEMMA EnvironmentIInv == IInv /\ (Tick \/ StepBack \/ Watch \/ UNCHANGED vars) => IInv'
  <1> SUFFICES ASSUME IInv, Tick \/ StepBack \/ Watch \/ UNCHANGED vars PROVE IInv'
    OBVIOUS
  <1>1. bucket' = bucket /\ answer' = answer /\ seen' = seen /\ sinceFull' = sinceFull
    BY DEF Tick, StepBack, Watch, vars
  <1>2. SpentAccounted' /\ RefusalDescribesBucket'
    BY <1>1 DEF IInv, SpentAccounted, RefusalDescribesBucket, Admits, RetryAfter
  <1>3. CASE Tick
    BY <1>1, <1>2, <1>3 DEF IInv, Tick, TypeOK, Bucket, ReadingIsBehind, WindowAccounted
  <1>4. CASE StepBack
    BY <1>1, <1>2, <1>4 DEF IInv, StepBack, TypeOK, Bucket, ReadingIsBehind, WindowAccounted
  <1>5. CASE Watch
    <2>1. window' = [from |-> forward, admitted |-> 0] /\ clock' = clock /\ forward' = forward
      BY <1>5 DEF Watch
    <2>2. TypeOK' /\ ReadingIsBehind'
      BY <2>1, <1>1 DEF IInv, TypeOK, ReadingIsBehind
    <2>3. seen <= forward /\ bucket.tokens \in 0 .. Capacity
      BY DEF IInv, TypeOK, Bucket, ReadingIsBehind
    <2>4. WindowAccounted'
      <3>1. 0 * Unit = 0 /\ Rate * 0 = 0 /\ Capacity \in Nat
        BY BucketAssumption, CapacityIsPositive
      <3>2. seen >= forward => seen = forward
        BY <2>3 DEF IInv, TypeOK
      <3>3. seen \in Nat /\ forward \in Nat
        BY DEF IInv, TypeOK
      <3> QED
        BY <3>1, <3>2, <3>3, <2>1, <2>3, <1>1 DEF WindowAccounted
    <2> QED
      BY <2>2, <2>4, <1>2 DEF IInv
  <1>6. CASE UNCHANGED vars
    BY <1>1, <1>2, <1>6 DEF IInv, vars, TypeOK, ReadingIsBehind, WindowAccounted
  <1> QED
    BY <1>3, <1>4, <1>5, <1>6
-----------------------------------------------------------------------------
\* Every behaviour of the limiter keeps the accounting.
THEOREM Accounting == Spec => []IInv
  <1>1. Init => IInv
    BY InitIInv
  <1>2. IInv /\ [Next]_vars => IInv'
    BY AllowIInv, EnvironmentIInv DEF Next
  <1> QED
    BY <1>1, <1>2, PTL DEF Spec

\* Type correctness, for every rate, burst and clock.
THEOREM TypeCorrect == Spec => []TypeOK
  <1>1. IInv => TypeOK
    BY DEF IInv
  <1> QED
    BY <1>1, Accounting, PTL

\* In any period no more is admitted than a burst and what the period earned.
THEOREM WindowIsBounded == Spec => []WindowBound
  <1>1. IInv => WindowBound
    <2> SUFFICES ASSUME IInv PROVE WindowBound
      OBVIOUS
    <2>1. /\ window.from \in Nat /\ window.admitted \in Nat /\ seen \in Nat /\ forward \in Nat
          /\ bucket.tokens \in Nat /\ Capacity \in Nat /\ seen <= forward /\ window.from <= forward
      BY CapacityIsPositive DEF IInv, TypeOK, Bucket, ReadingIsBehind
    <2>2. Rate * 0 = 0 /\ 0 * Unit = 0 /\ window.admitted * Unit \in Int
      BY <2>1, BucketAssumption
    <2>3. CASE seen < window.from
      <3>1. window.admitted = 0
        BY <2>3 DEF IInv, WindowAccounted
      <3>2. Rate * 0 <= Rate * (forward - window.from) /\ Rate * (forward - window.from) \in Int
        BY <2>1, EarnedMonotone
      <3> QED
        BY <3>1, <3>2, <2>1, <2>2 DEF WindowBound
    <2>4. CASE seen >= window.from
      <3>1. window.admitted * Unit + bucket.tokens <= Capacity + Rate * (seen - window.from)
        BY <2>4 DEF IInv, WindowAccounted
      <3>2. /\ Rate * (seen - window.from) <= Rate * (forward - window.from)
            /\ Rate * (seen - window.from) \in Int /\ Rate * (forward - window.from) \in Int
        BY <2>1, EarnedMonotone
      <3> QED
        BY <3>1, <3>2, <2>1, <2>2 DEF WindowBound
    <2> QED
      BY <2>1, <2>3, <2>4
  <1> QED
    BY <1>1, Accounting, PTL

\* No refusal before a whole burst was admitted since the bucket was full.
THEOREM BurstIsAvailable == Spec => []BurstBeforeRefusal
  <1>1. IInv => BurstBeforeRefusal
    <2> SUFFICES ASSUME IInv, ~answer.ok PROVE sinceFull >= Burst
      BY DEF BurstBeforeRefusal
    <2>1. bucket.tokens \in Nat /\ sinceFull \in Nat /\ Burst \in Nat /\ Unit \in Nat
      BY CapacityIsPositive, BucketAssumption DEF IInv, TypeOK, Bucket
    <2>2. bucket.tokens < Unit
      BY <2>1 DEF IInv, RefusalDescribesBucket, Admits
    <2>3. sinceFull * Unit + bucket.tokens >= Burst * Unit
      BY DEF IInv, SpentAccounted, Capacity
    <2>4. (sinceFull + 1) * Unit = sinceFull * Unit + Unit
      BY <2>1
    <2>5. (sinceFull + 1) * Unit > Burst * Unit
      BY <2>1, <2>2, <2>3, <2>4
    <2>6. ASSUME sinceFull + 1 <= Burst PROVE FALSE
      <3>1. Burst * Unit = (sinceFull + 1) * Unit + (Burst - (sinceFull + 1)) * Unit
        BY <2>1
      <3>2. Burst - (sinceFull + 1) \in Nat
        BY <2>1, <2>6
      <3>3. (Burst - (sinceFull + 1)) * Unit \in Nat
        BY <3>2, <2>1
      <3> QED
        BY <3>1, <3>3, <2>1, <2>5
    <2> QED
      BY <2>1, <2>6
  <1> QED
    BY <1>1, Accounting, PTL

\* The wait a refusal reports is right to the tick, both ways.
THEOREM RetryAfterIsRight == Spec => RetryAfterIsExact
  <1> DEFINE Exact ==
        Allow /\ ~answer.ok =>
          /\ clock > bucket.last + answer.wait => answer'.ok
          /\ (answer.wait > Second /\ clock < bucket.last + answer.wait) => ~answer'.ok
  <1>1. IInv /\ [Next]_vars => [Exact]_vars
    <2> SUFFICES ASSUME IInv, Allow, ~answer.ok PROVE Exact
      OBVIOUS
    <2> DEFINE b == advanceLocked(bucket, clock)
               missing == Unit - bucket.tokens
               ticks == missing \div Rate
               elapsed == clock - bucket.last
    <2>1. bucket \in Bucket /\ clock \in Int /\ bucket.last \in Int /\ bucket.tokens \in Nat
      BY DEF IInv, TypeOK, Bucket
    <2>2. ~Admits(bucket) /\ answer.wait = RetryAfter(bucket)
      BY DEF IInv, RefusalDescribesBucket
    <2>3. /\ answer.wait \in Nat /\ answer.wait >= ticks /\ missing \in Nat
          /\ answer.wait > Second => answer.wait = ticks
      BY <2>1, <2>2, RetryAfterBounds
    <2>4. ticks \in Nat /\ Rate * ticks <= missing /\ missing < Rate * (ticks + 1)
      BY <2>3, DivisionRoundsDown
    <2>5. Rate \in Nat /\ Rate >= 1 /\ Unit \in Nat /\ Unit >= 1 /\ Capacity \in Nat /\ Capacity >= Unit
      BY BucketAssumption, CapacityIsPositive
    <2>6. /\ b.tokens \in 0 .. Capacity
          /\ clock <= bucket.last => b.tokens = bucket.tokens
          /\ clock > bucket.last => b.tokens <= bucket.tokens + Rate * elapsed
          /\ \/ clock <= bucket.last
             \/ b.tokens = Capacity
             \/ b.tokens = bucket.tokens + Rate * elapsed
      BY <2>1, AdvanceBounds DEF Bucket
    <2>7. Admits(b) <=> answer'.ok
      BY DEF Allow
    <2>8. ASSUME clock > bucket.last + answer.wait PROVE answer'.ok
      <3>1. ticks + 1 <= elapsed
        BY <2>8, <2>1, <2>3, <2>4
      <3>2. Rate * (ticks + 1) <= Rate * elapsed /\ Rate * elapsed \in Int /\ Rate * (ticks + 1) \in Int
        BY <3>1, <2>1, <2>4, EarnedMonotone
      <3>3. clock > bucket.last
        BY <2>8, <2>1, <2>3
      <3> HIDE DEF b, ticks, elapsed
      <3>4. b.tokens >= Unit
        BY <3>2, <3>3, <2>1, <2>4, <2>5, <2>6
      <3> QED
        BY <3>4, <2>7 DEF Admits
    <2>9. ASSUME answer.wait > Second, clock < bucket.last + answer.wait PROVE ~answer'.ok
      <3>1. elapsed <= ticks - 1
        BY <2>9, <2>1, <2>3, <2>4
      <3>2. /\ Rate * elapsed <= Rate * (ticks - 1) /\ Rate * elapsed \in Int
            /\ Rate * (ticks - 1) \in Int
        BY <3>1, <2>1, <2>4, EarnedMonotone
      <3>3. Rate * (ticks - 1) = Rate * ticks - Rate
        BY <2>4, <2>5
      <3>4. bucket.tokens < Unit
        BY <2>1, <2>2, <2>5 DEF Admits
      <3> HIDE DEF b, ticks, elapsed
      <3>5. b.tokens < Unit
        BY <3>2, <3>3, <3>4, <2>1, <2>4, <2>5, <2>6
      <3> QED
        BY <3>5, <2>7, <2>5, <2>6 DEF Admits
    <2> QED
      BY <2>8, <2>9
  <1> QED
    BY <1>1, Accounting, PTL DEF Spec, RetryAfterIsExact
=============================================================================
