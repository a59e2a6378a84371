-------------------------- MODULE AdmissionProofs --------------------------
(***************************************************************************)
(* What the two limits of Broker.Issue promise together, for any number of *)
(* clients and callers and any rates: one caller's share is bounded, and a *)
(* client that honours Retry-After is admitted when it comes back.         *)
(***************************************************************************)
EXTENDS Admission, FiniteSetTheorems, TLAPS

\* The lemmas about one bucket, for each of the two.  They are about no behaviour
\* of a Limiter, so its variables stand for nothing here.
OwnFacts == INSTANCE LimiterProofs WITH
              Rate <- OwnRate, Burst <- OwnBurst, Unit <- OwnUnit, MaxForward <- 0,
              bucket <- 0, answer <- 0, forward <- 0, seen <- 0, window <- 0, sinceFull <- 0
SharedFacts == INSTANCE LimiterProofs WITH
                 Rate <- SharedRate, Burst <- SharedBurst, Unit <- SharedUnit, MaxForward <- 0,
                 bucket <- 0, answer <- 0, forward <- 0, seen <- 0, window <- 0, sinceFull <- 0

\* The requests of Watched's caller that its own limit let in and that are not
\* answered, and those of them that are not resolved either.
Flying == {k \in Clients : CallerOf[k] = Caller /\ stage[k] # "idle"}
Resolving == {k \in Clients : CallerOf[k] = Caller /\ stage[k] = "resolve"}

\* No reading of the clock is from the future.
ReadBefore ==
    /\ \A c \in Callers : own[c].last <= clock
    /\ shared.last <= clock
    /\ window.from <= clock

\* n admissions since the observer began are paid for by one full bucket and by
\* what the bucket b earned since then, up to its last reading; before b was read,
\* there are none.
Paid(b, from, n) ==
    IF b.last < from THEN n <= 0
    ELSE n * OwnUnit + b.tokens <= OwnBurst * OwnUnit + OwnRate * (b.last - from)

\* The bounds alone are not inductive: a request that was let in and is on its way
\* counts already.
ShareAccounted ==
    /\ IsFiniteSet(Flying)
    /\ Paid(own[Caller], window.from, window.resolved + Cardinality(Resolving))
    /\ Paid(own[Caller], window.from, window.asked + Cardinality(Flying))

\* From the time it was told the client's own limit would let it in, whenever it
\* comes, unless another connection of its caller took the token.
OwnPromise ==
    told.by # "nobody" /\ "own" \notin told.drawn /\ stage[Watched] = "idle" =>
      \A t \in Int : t >= clock /\ t >= told.earned /\ t > told.until =>
        Own!Admits(Own!advanceLocked(own[Caller], t))

\* And so would the shared one, unless another client took the token.
SharedPromise ==
    told.by = "shared" /\ "shared" \notin told.drawn =>
      \A t \in Int : t >= clock /\ t > told.until =>
        Shared!Admits(Shared!advanceLocked(shared, t))

IInv ==
    /\ TypeOK
    /\ ReadBefore
    /\ ShareAccounted
    /\ OwnPromise
    /\ SharedPromise
-----------------------------------------------------------------------------
\* The two rates, bursts and units are positive, so the lemmas about a bucket hold
\* of both limits.
LEMMA ConstantsArePositive ==
  /\ Second \in Nat \ {0}
  /\ OwnRate \in Nat \ {0} /\ OwnBurst \in Nat \ {0} /\ OwnUnit \in Nat \ {0}
  /\ SharedRate \in Nat \ {0} /\ SharedBurst \in Nat \ {0} /\ SharedUnit \in Nat \ {0}
  /\ CallerOf \in [Clients -> Callers] /\ Watched \in Clients /\ Caller \in Callers
  BY AdmissionAssumption DEF Caller

\* The two names of one definition: a limit's, and the lemmas'.
LEMMA OwnNames ==
  /\ Own!Bucket = OwnFacts!Bucket
  /\ Own!Capacity = OwnFacts!Capacity
  /\ \A b, t : Own!advanceLocked(b, t) = OwnFacts!advanceLocked(b, t)
  /\ \A b : Own!Admits(b) <=> OwnFacts!Admits(b)
  /\ \A b : Own!Spend(b) = OwnFacts!Spend(b)
  /\ \A b : Own!RetryAfter(b) = OwnFacts!RetryAfter(b)
  /\ \A t : Own!newAt(t) = OwnFacts!newAt(t)
  BY DEF Own!Bucket, OwnFacts!Bucket, Own!Capacity, OwnFacts!Capacity,
         Own!advanceLocked, OwnFacts!advanceLocked, Own!Admits, OwnFacts!Admits,
         Own!Spend, OwnFacts!Spend, Own!RetryAfter, OwnFacts!RetryAfter,
         Own!newAt, OwnFacts!newAt

LEMMA SharedNames ==
  /\ Shared!Bucket = SharedFacts!Bucket
  /\ Shared!Capacity = SharedFacts!Capacity
  /\ \A b, t : Shared!advanceLocked(b, t) = SharedFacts!advanceLocked(b, t)
  /\ \A b : Shared!Admits(b) <=> SharedFacts!Admits(b)
  /\ \A b : Shared!Spend(b) = SharedFacts!Spend(b)
  /\ \A b : Shared!RetryAfter(b) = SharedFacts!RetryAfter(b)
  /\ \A t : Shared!newAt(t) = SharedFacts!newAt(t)
  BY DEF Shared!Bucket, SharedFacts!Bucket, Shared!Capacity, SharedFacts!Capacity,
         Shared!advanceLocked, SharedFacts!advanceLocked, Shared!Admits, SharedFacts!Admits,
         Shared!Spend, SharedFacts!Spend, Shared!RetryAfter, SharedFacts!RetryAfter,
         Shared!newAt, SharedFacts!newAt

\* What the caller's own limit does with a bucket.
LEMMA OwnBucket ==
  ASSUME NEW b \in Own!Bucket, NEW t \in Int
  PROVE  /\ b.tokens \in Nat /\ b.tokens <= OwnBurst * OwnUnit /\ b.last \in Int
         /\ Own!advanceLocked(b, t) \in Own!Bucket
         /\ Own!advanceLocked(b, t).last = t
         /\ Own!advanceLocked(b, t).tokens >= b.tokens
         /\ t <= b.last => Own!advanceLocked(b, t).tokens = b.tokens
         /\ t > b.last => Own!advanceLocked(b, t).tokens <= b.tokens + OwnRate * (t - b.last)
  <1>1. b \in OwnFacts!Bucket
    BY OwnNames
  <1>2. /\ OwnFacts!advanceLocked(b, t) \in OwnFacts!Bucket
        /\ OwnFacts!advanceLocked(b, t).last = t
        /\ OwnFacts!advanceLocked(b, t).tokens >= b.tokens
        /\ t <= b.last => OwnFacts!advanceLocked(b, t).tokens = b.tokens
        /\ t > b.last => OwnFacts!advanceLocked(b, t).tokens <= b.tokens + OwnRate * (t - b.last)
    BY <1>1, OwnFacts!AdvanceBounds, ConstantsArePositive
  <1>3. OwnBurst * OwnUnit \in Int
    BY ConstantsArePositive
  <1>4. b.tokens \in 0 .. (OwnBurst * OwnUnit) /\ b.last \in Int
    BY DEF Own!Bucket, Own!Capacity
  <1> QED
    BY <1>2, <1>3, <1>4, OwnNames

LEMMA OwnSpends ==
  ASSUME NEW b \in Own!Bucket, Own!Admits(b)
  PROVE  /\ Own!Spend(b) \in Own!Bucket
         /\ Own!Spend(b).last = b.last
         /\ Own!Spend(b).tokens = b.tokens - OwnUnit
  <1>1. b \in OwnFacts!Bucket /\ OwnFacts!Admits(b)
    BY OwnNames
  <1>2. /\ OwnFacts!Spend(b) \in OwnFacts!Bucket
        /\ OwnFacts!Spend(b).last = b.last
        /\ OwnFacts!Spend(b).tokens = b.tokens - OwnUnit
    BY <1>1, OwnFacts!SpendBounds, ConstantsArePositive
  <1> QED
    BY <1>2, OwnNames

LEMMA OwnComposes ==
  ASSUME NEW b \in Own!Bucket, NEW now \in Int, NEW t \in Int, b.last <= now, now <= t
  PROVE  Own!advanceLocked(Own!advanceLocked(b, now), t) = Own!advanceLocked(b, t)
  <1>1. b \in OwnFacts!Bucket
    BY OwnNames
  <1>2. OwnFacts!advanceLocked(OwnFacts!advanceLocked(b, now), t) = OwnFacts!advanceLocked(b, t)
    BY <1>1, OwnFacts!AdvanceComposes, ConstantsArePositive
  <1> QED
    BY <1>2, OwnNames

\* A second less a tick is rounded up: who waits for the whole seconds of the
\* header waits no less than the refusal asked for.
LEMMA HeaderIsLongEnough ==
  ASSUME NEW wait \in Nat
  PROVE  Second * RetryAfterHeader(wait) \in Nat /\ Second * RetryAfterHeader(wait) >= wait
  <1> DEFINE up == (wait + Second - 1) \div Second
  <1>1. Second \in Nat /\ Second >= 1
    BY ConstantsArePositive
  <1>2. up \in Nat /\ wait + Second - 1 < Second * (up + 1)
    BY <1>1
  <1> HIDE DEF up
  <1>3. Second * (up + 1) = Second * up + Second /\ Second * up \in Nat
    BY <1>1, <1>2
  <1>4. Second * up >= wait
    BY <1>1, <1>2, <1>3
  <1>5. RetryAfterHeader(wait) = up
    BY DEF RetryAfterHeader, up
  <1> QED
    BY <1>3, <1>4, <1>5

\* A refusal by the caller's own limit is kept: after the wait it told, rounded up,
\* the limit lets the client in.
LEMMA OwnKeepsItsWord ==
  ASSUME NEW b \in Own!Bucket, ~Own!Admits(b)
  PROVE  /\ Own!RetryAfter(b) \in Nat
         /\ \A t \in Int : t > b.last + Second * RetryAfterHeader(Own!RetryAfter(b)) =>
              Own!Admits(Own!advanceLocked(b, t))
  <1>1. b \in OwnFacts!Bucket /\ ~OwnFacts!Admits(b) /\ b.last \in Int
    BY OwnNames, OwnBucket
  <1>2. OwnFacts!RetryAfter(b) \in Nat
    BY <1>1, OwnFacts!RetryAfterBounds, ConstantsArePositive
  <1>3. ASSUME NEW t \in Int, t > b.last + OwnFacts!RetryAfter(b)
        PROVE  OwnFacts!Admits(OwnFacts!advanceLocked(b, t))
    BY <1>1, <1>3, OwnFacts!WaitEarns, ConstantsArePositive
  <1>4. Own!RetryAfter(b) = OwnFacts!RetryAfter(b)
    BY OwnNames
  <1>5. /\ Second * RetryAfterHeader(Own!RetryAfter(b)) \in Nat
        /\ Second * RetryAfterHeader(Own!RetryAfter(b)) >= Own!RetryAfter(b)
    BY <1>2, <1>4, HeaderIsLongEnough
  <1>6. ASSUME NEW t \in Int, t > b.last + Second * RetryAfterHeader(Own!RetryAfter(b))
        PROVE  Own!Admits(Own!advanceLocked(b, t))
    <2>1. t > b.last + OwnFacts!RetryAfter(b)
      BY <1>1, <1>2, <1>4, <1>5, <1>6
    <2> QED
      BY <1>3, <2>1, OwnNames
  <1> QED
    BY <1>2, <1>4, <1>6

LEMMA SharedBucket ==
  ASSUME NEW b \in Shared!Bucket, NEW t \in Int
  PROVE  /\ b.last \in Int
         /\ Shared!advanceLocked(b, t) \in Shared!Bucket
         /\ Shared!advanceLocked(b, t).last = t
  <1>1. b \in SharedFacts!Bucket
    BY SharedNames
  <1>2. /\ SharedFacts!advanceLocked(b, t) \in SharedFacts!Bucket
        /\ SharedFacts!advanceLocked(b, t).last = t
    BY <1>1, SharedFacts!AdvanceBounds, ConstantsArePositive
  <1>3. b.last \in Int
    BY DEF Shared!Bucket
  <1> QED
    BY <1>2, <1>3, SharedNames

LEMMA SharedSpends ==
  ASSUME NEW b \in Shared!Bucket, Shared!Admits(b)
  PROVE  /\ Shared!Spend(b) \in Shared!Bucket
         /\ Shared!Spend(b).last = b.last
         /\ Shared!Spend(b).tokens = b.tokens - SharedUnit
  <1>1. b \in SharedFacts!Bucket /\ SharedFacts!Admits(b)
    BY SharedNames
  <1>2. /\ SharedFacts!Spend(b) \in SharedFacts!Bucket
        /\ SharedFacts!Spend(b).last = b.last
        /\ SharedFacts!Spend(b).tokens = b.tokens - SharedUnit
    BY <1>1, SharedFacts!SpendBounds, ConstantsArePositive
  <1> QED
    BY <1>2, SharedNames

LEMMA SharedComposes ==
  ASSUME NEW b \in Shared!Bucket, NEW now \in Int, NEW t \in Int, b.last <= now, now <= t
  PROVE  Shared!advanceLocked(Shared!advanceLocked(b, now), t) = Shared!advanceLocked(b, t)
  <1>1. b \in SharedFacts!Bucket
    BY SharedNames
  <1>2. SharedFacts!advanceLocked(SharedFacts!advanceLocked(b, now), t)
          = SharedFacts!advanceLocked(b, t)
    BY <1>1, SharedFacts!AdvanceComposes, ConstantsArePositive
  <1> QED
    BY <1>2, SharedNames

\* And so is one by the shared limit.
LEMMA SharedKeepsItsWord ==
  ASSUME NEW b \in Shared!Bucket, ~Shared!Admits(b)
  PROVE  /\ Shared!RetryAfter(b) \in Nat
         /\ \A t \in Int : t > b.last + Second * RetryAfterHeader(Shared!RetryAfter(b)) =>
              Shared!Admits(Shared!advanceLocked(b, t))
  <1>1. b \in SharedFacts!Bucket /\ ~SharedFacts!Admits(b) /\ b.last \in Int
    BY SharedNames, SharedBucket
  <1>2. SharedFacts!RetryAfter(b) \in Nat
    BY <1>1, SharedFacts!RetryAfterBounds, ConstantsArePositive
  <1>3. ASSUME NEW t \in Int, t > b.last + SharedFacts!RetryAfter(b)
        PROVE  SharedFacts!Admits(SharedFacts!advanceLocked(b, t))
    BY <1>1, <1>3, SharedFacts!WaitEarns, ConstantsArePositive
  <1>4. Shared!RetryAfter(b) = SharedFacts!RetryAfter(b)
    BY SharedNames
  <1>5. /\ Second * RetryAfterHeader(Shared!RetryAfter(b)) \in Nat
        /\ Second * RetryAfterHeader(Shared!RetryAfter(b)) >= Shared!RetryAfter(b)
    BY <1>2, <1>4, HeaderIsLongEnough
  <1>6. ASSUME NEW t \in Int, t > b.last + Second * RetryAfterHeader(Shared!RetryAfter(b))
        PROVE  Shared!Admits(Shared!advanceLocked(b, t))
    <2>1. t > b.last + SharedFacts!RetryAfter(b)
      BY <1>1, <1>2, <1>4, <1>5, <1>6
    <2> QED
      BY <1>3, <2>1, SharedNames
  <1> QED
    BY <1>2, <1>4, <1>6

\* TokenTime is long enough to earn a token, whatever the bucket held.
LEMMA TokenTimeEarns ==
  /\ TokenTime \in Nat
  /\ \A b \in Own!Bucket, t \in Int : t >= b.last + TokenTime =>
       Own!Admits(Own!advanceLocked(b, t))
  <1>1. OwnUnit \in Nat /\ OwnUnit >= 1 /\ OwnRate \in Nat /\ OwnRate >= 1
    BY ConstantsArePositive
  <1>2. /\ TokenTime \in Nat
        /\ OwnUnit + OwnRate - 1 < OwnRate * (TokenTime + 1)
    BY <1>1 DEF TokenTime
  <1>3. OwnRate * (TokenTime + 1) = OwnRate * TokenTime + OwnRate /\ OwnRate * TokenTime \in Nat
    BY <1>1, <1>2
  <1>4. OwnRate * TokenTime >= OwnUnit
    BY <1>1, <1>2, <1>3
  <1>5. TokenTime >= 1
    <2>1. TokenTime # 0
      <3>1. OwnRate * 0 = 0
        BY <1>1
      <3> QED
        BY <1>1, <1>4, <3>1
    <2> QED
      BY <1>2, <2>1
  <1>6. ASSUME NEW b \in Own!Bucket, NEW t \in Int, t >= b.last + TokenTime
        PROVE  Own!Admits(Own!advanceLocked(b, t))
    <2>1. b \in OwnFacts!Bucket /\ b.last \in Int /\ b.tokens \in Nat
      BY OwnNames, OwnBucket
    <2>2. t > b.last /\ TokenTime <= t - b.last
      BY <1>2, <1>5, <1>6, <2>1
    <2>3. OwnRate * TokenTime <= OwnRate * (t - b.last) /\ OwnRate * (t - b.last) \in Int
      BY <1>2, <2>1, <2>2, OwnFacts!EarnedMonotone, ConstantsArePositive
    <2>4. OwnRate * (t - b.last) >= OwnUnit - b.tokens
      BY <1>1, <1>3, <1>4, <2>1, <2>3
    <2>5. OwnFacts!Admits(OwnFacts!advanceLocked(b, t))
      BY <2>1, <2>2, <2>4, OwnFacts!EarningsAdmit, ConstantsArePositive
    <2> QED
      BY <2>5, OwnNames
  <1> QED
    BY <1>2, <1>6
-----------------------------------------------------------------------------
\* What is paid for stays paid for when the bucket is read again: what it earned in
\* between is counted on both sides.
LEMMA ReadingKeepsPaid ==
  ASSUME NEW b \in Own!Bucket, NEW now \in Int, NEW from \in Int, NEW n \in Int,
         b.last <= now, from <= now, Paid(b, from, n)
  PROVE  n * OwnUnit + Own!advanceLocked(b, now).tokens
           <= OwnBurst * OwnUnit + OwnRate * (now - from)
  <1> DEFINE level == Own!advanceLocked(b, now).tokens
             full == OwnBurst * OwnUnit
  <1>1. /\ OwnUnit \in Nat /\ OwnRate \in Nat /\ full \in Nat
        /\ b.tokens \in Nat /\ b.tokens <= full /\ b.last \in Int
        /\ n * OwnUnit \in Int
    BY OwnBucket, ConstantsArePositive
  <1>2. level \in Nat /\ level <= full
    <2>1. Own!advanceLocked(b, now) \in Own!Bucket
      BY OwnBucket
    <2> QED
      BY <2>1, OwnBucket
  <1>3. /\ now <= b.last => level = b.tokens
        /\ now > b.last => level <= b.tokens + OwnRate * (now - b.last)
    BY OwnBucket
  <1>4. OwnRate * (now - from) \in Nat
    <2>1. OwnRate * 0 <= OwnRate * (now - from) /\ OwnRate * (now - from) \in Int
      BY OwnFacts!EarnedMonotone, ConstantsArePositive
    <2> QED
      BY <1>1, <2>1
  <1> HIDE DEF level, full
  <1>5. CASE b.last < from
    <2>1. n <= 0
      BY <1>5 DEF Paid
    <2>2. n * OwnUnit <= 0
      BY <1>1, <2>1
    <2> QED
      BY <1>1, <1>2, <1>4, <2>2 DEF level, full
  <1>6. CASE ~(b.last < from)
    <2>1. n * OwnUnit + b.tokens <= full + OwnRate * (b.last - from)
      BY <1>6 DEF Paid, full
    <2>2. /\ OwnRate * (now - from) = OwnRate * (b.last - from) + OwnRate * (now - b.last)
          /\ OwnRate * (b.last - from) \in Int /\ OwnRate * (now - b.last) \in Int
          /\ now = b.last => OwnRate * (now - b.last) = 0
      BY <1>1
    <2>3. level <= b.tokens + OwnRate * (now - b.last)
      <3>1. CASE now > b.last
        BY <1>3, <3>1
      <3>2. CASE now = b.last
        <4>1. level = b.tokens /\ OwnRate * (now - b.last) = 0
          BY <1>1, <1>3, <2>2, <3>2
        <4> QED
          BY <1>1, <4>1
      <3>3. now > b.last \/ now = b.last
        BY <1>1
      <3> QED
        BY <3>1, <3>2, <3>3, Zenon
    <2>4. n * OwnUnit + level <= full + OwnRate * (now - from)
      BY <1>1, <1>2, <2>1, <2>2, <2>3
    <2> QED
      BY <2>4 DEF level, full
  <1> QED
    BY <1>5, <1>6

\* A refused attempt reads the bucket and takes nothing.
LEMMA RefusalKeepsPaid ==
  ASSUME NEW b \in Own!Bucket, NEW now \in Int, NEW from \in Int, NEW n \in Int,
         b.last <= now, from <= now, Paid(b, from, n)
  PROVE  Paid(Own!advanceLocked(b, now), from, n)
  <1>1. n * OwnUnit + Own!advanceLocked(b, now).tokens
          <= OwnBurst * OwnUnit + OwnRate * (now - from)
    BY ReadingKeepsPaid
  <1>2. Own!advanceLocked(b, now).last = now
    BY OwnBucket
  <1> QED
    BY <1>1, <1>2 DEF Paid

\* An admission pays for itself.
LEMMA SpendingPays ==
  ASSUME NEW b \in Own!Bucket, NEW now \in Int, NEW from \in Int, NEW n \in Int,
         b.last <= now, from <= now, Paid(b, from, n), Own!Admits(Own!advanceLocked(b, now))
  PROVE  Paid(Own!Spend(Own!advanceLocked(b, now)), from, n + 1)
  <1> DEFINE c == Own!advanceLocked(b, now)
  <1>1. n * OwnUnit + c.tokens <= OwnBurst * OwnUnit + OwnRate * (now - from)
    BY ReadingKeepsPaid
  <1>2. c \in Own!Bucket /\ c.last = now
    BY OwnBucket
  <1>3. Own!Admits(c)
    OBVIOUS
  <1> HIDE DEF c
  <1>4. Own!Spend(c).last = now /\ Own!Spend(c).tokens = c.tokens - OwnUnit
    BY <1>2, <1>3, OwnSpends
  <1>5. c.tokens \in Nat
    BY <1>2, OwnBucket
  <1>6. /\ OwnUnit \in Nat /\ n * OwnUnit \in Int /\ (n + 1) * OwnUnit = n * OwnUnit + OwnUnit
        /\ OwnBurst * OwnUnit \in Int /\ OwnRate * (now - from) \in Int
    BY ConstantsArePositive
  <1>7. (n + 1) * OwnUnit + (c.tokens - OwnUnit) <= OwnBurst * OwnUnit + OwnRate * (now - from)
    BY <1>1, <1>5, <1>6
  <1>8. Paid(Own!Spend(c), from, n + 1)
    BY <1>4, <1>7 DEF Paid
  <1> QED
    BY <1>8 DEF c

\* Fewer admissions are paid for too.
LEMMA FewerArePaid ==
  ASSUME NEW b \in Own!Bucket, NEW from \in Int, NEW n \in Int, NEW m \in Int,
         m <= n, Paid(b, from, n)
  PROVE  Paid(b, from, m)
  <1>1. OwnUnit \in Nat /\ n * OwnUnit \in Int /\ m * OwnUnit \in Int
    BY ConstantsArePositive
  <1>2. m * OwnUnit <= n * OwnUnit
    <2>1. n - m \in Nat /\ (n - m) * OwnUnit \in Nat
      BY <1>1
    <2>2. n * OwnUnit = m * OwnUnit + (n - m) * OwnUnit
      BY <1>1
    <2> QED
      BY <1>1, <2>1, <2>2
  <1>3. b.tokens \in Int /\ b.last \in Int
    BY OwnBucket, 0 \in Int
  <1>4. OwnBurst * OwnUnit \in Int /\ OwnRate * (b.last - from) \in Int
    BY <1>3, ConstantsArePositive
  <1> QED
    BY <1>1, <1>2, <1>3, <1>4 DEF Paid

\* Nothing is counted when the observer begins: that is paid for.
LEMMA NothingIsPaid ==
  ASSUME NEW b \in Own!Bucket, NEW from \in Int, NEW n \in Int, b.last <= from, n <= 0
  PROVE  Paid(b, from, n)
  <1>1. /\ b.tokens \in Nat /\ b.tokens <= OwnBurst * OwnUnit /\ b.last \in Int
        /\ OwnUnit \in Nat /\ OwnRate \in Nat /\ n * OwnUnit \in Int
        /\ OwnBurst * OwnUnit \in Int
    BY OwnBucket, ConstantsArePositive
  <1>2. n * OwnUnit <= 0
    BY <1>1
  <1>3. CASE b.last < from
    BY <1>3 DEF Paid
  <1>4. CASE ~(b.last < from)
    <2>1. OwnRate * (b.last - from) = 0
      BY <1>1, <1>4
    <2>2. n * OwnUnit + b.tokens <= OwnBurst * OwnUnit + OwnRate * (b.last - from)
      BY <1>1, <1>2, <2>1
    <2> QED
      BY <1>4, <2>2 DEF Paid
  <1> QED
    BY <1>3, <1>4
-----------------------------------------------------------------------------
\* The requests on their way are finitely many, and those to resolve are of them.
LEMMA FlyingCounts ==
  ASSUME IsFiniteSet(Flying)
  PROVE  /\ Cardinality(Flying) \in Nat /\ Cardinality(Resolving) \in Nat
         /\ IsFiniteSet(Resolving) /\ Cardinality(Resolving) <= Cardinality(Flying)
         /\ InFlight = Cardinality(Flying)
  <1>1. Resolving \subseteq Flying
    BY DEF Resolving, Flying
  <1>2. IsFiniteSet(Resolving) /\ Cardinality(Resolving) <= Cardinality(Flying)
    BY <1>1, FS_Subset
  <1>3. Cardinality(Flying) \in Nat /\ Cardinality(Resolving) \in Nat
    BY <1>2, FS_CardinalityType
  <1>4. InFlight = Cardinality(Flying)
    BY DEF InFlight, Flying
  <1> QED
    BY <1>2, <1>3, <1>4

\* A request that is let in is one more of its caller's.
LEMMA LetInCounts ==
  ASSUME TypeOK, IsFiniteSet(Flying), NEW k \in Clients,
         stage[k] = "idle", stage' = [stage EXCEPT ![k] = "resolve"]
  PROVE  /\ IsFiniteSet(Flying')
         /\ CallerOf[k] = Caller => /\ Cardinality(Flying') = Cardinality(Flying) + 1
                                    /\ Cardinality(Resolving') = Cardinality(Resolving) + 1
         /\ CallerOf[k] # Caller => Flying' = Flying /\ Resolving' = Resolving
  <1>1. stage \in [Clients -> {"idle", "resolve", "ask"}]
    BY DEF TypeOK
  <1>2. \A j \in Clients : stage'[j] = IF j = k THEN "resolve" ELSE stage[j]
    BY <1>1
  <1>3. CASE CallerOf[k] = Caller
    <2>1. Flying' = Flying \union {k} /\ k \notin Flying
      BY <1>2, <1>3 DEF Flying, Caller
    <2>2. Resolving' = Resolving \union {k} /\ k \notin Resolving
      BY <1>2, <1>3 DEF Resolving, Caller
    <2>3. IsFiniteSet(Resolving)
      BY FlyingCounts
    <2>4. IsFiniteSet(Flying') /\ Cardinality(Flying') = Cardinality(Flying) + 1
      BY <2>1, FS_AddElement
    <2>5. Cardinality(Resolving') = Cardinality(Resolving) + 1
      BY <2>2, <2>3, FS_AddElement
    <2> QED
      BY <1>3, <2>4, <2>5
  <1>4. CASE CallerOf[k] # Caller
    <2>1. Flying' = Flying
      BY <1>2, <1>4 DEF Flying, Caller
    <2>2. Resolving' = Resolving
      BY <1>2, <1>4 DEF Resolving, Caller
    <2> QED
      BY <1>4, <2>1, <2>2
  <1> QED
    BY <1>3, <1>4

\* A request that is resolved is one less to resolve, and may leave.
LEMMA ResolvedCounts ==
  ASSUME TypeOK, IsFiniteSet(Flying), NEW k \in Clients, NEW next \in {"ask", "idle"},
         stage[k] = "resolve", stage' = [stage EXCEPT ![k] = next]
  PROVE  /\ IsFiniteSet(Flying')
         /\ Cardinality(Flying') <= Cardinality(Flying)
         /\ CallerOf[k] = Caller => Cardinality(Resolving') = Cardinality(Resolving) - 1
         /\ CallerOf[k] # Caller => Resolving' = Resolving
  <1>1. stage \in [Clients -> {"idle", "resolve", "ask"}]
    BY DEF TypeOK
  <1>2. \A j \in Clients : stage'[j] = IF j = k THEN next ELSE stage[j]
    BY <1>1
  <1>3. Flying' \subseteq Flying
    BY <1>2 DEF Flying, Caller
  <1>4. IsFiniteSet(Flying') /\ Cardinality(Flying') <= Cardinality(Flying)
    BY <1>3, FS_Subset
  <1>5. CASE CallerOf[k] = Caller
    <2>1. Resolving' = Resolving \ {k} /\ k \in Resolving
      BY <1>2, <1>5 DEF Resolving, Caller
    <2>2. IsFiniteSet(Resolving)
      BY FlyingCounts
    <2>3. Cardinality(Resolving') = Cardinality(Resolving) - 1
      BY <2>1, <2>2, FS_RemoveElement
    <2> QED
      BY <1>4, <1>5, <2>3
  <1>6. CASE CallerOf[k] # Caller
    <2>1. Resolving' = Resolving
      BY <1>2, <1>6 DEF Resolving, Caller
    <2> QED
      BY <1>4, <1>6, <2>1
  <1> QED
    BY <1>5, <1>6

\* A request that is answered after that is one less.
LEMMA AnsweredCounts ==
  ASSUME TypeOK, IsFiniteSet(Flying), NEW k \in Clients,
         stage[k] = "ask", stage' = [stage EXCEPT ![k] = "idle"]
  PROVE  /\ IsFiniteSet(Flying')
         /\ Resolving' = Resolving
         /\ CallerOf[k] = Caller => Cardinality(Flying') = Cardinality(Flying) - 1
         /\ CallerOf[k] # Caller => Flying' = Flying
  <1>1. stage \in [Clients -> {"idle", "resolve", "ask"}]
    BY DEF TypeOK
  <1>2. \A j \in Clients : stage'[j] = IF j = k THEN "idle" ELSE stage[j]
    BY <1>1
  <1>3. Resolving' = Resolving
    BY <1>2 DEF Resolving, Caller
  <1>4. CASE CallerOf[k] = Caller
    <2>1. Flying' = Flying \ {k} /\ k \in Flying
      BY <1>2, <1>4 DEF Flying, Caller
    <2>2. IsFiniteSet(Flying') /\ Cardinality(Flying') = Cardinality(Flying) - 1
      BY <2>1, FS_RemoveElement
    <2> QED
      BY <1>3, <1>4, <2>2
  <1>5. CASE CallerOf[k] # Caller
    <2>1. Flying' = Flying
      BY <1>2, <1>5 DEF Flying, Caller
    <2> QED
      BY <1>3, <1>5, <2>1
  <1> QED
    BY <1>4, <1>5

\* What becomes of a promise when another client draws a token: one by the own limit
\* outlives a draw from the shared one, one by the shared limit outlives one draw
\* and notes it, and no other outlives it.
LEMMA DrawnMeans ==
  ASSUME TypeOK, NEW limit \in {"own", "shared"}, Drawn(limit)
  PROVE  \/ told' = Untold
         \/ told.by = "own" /\ limit = "shared" /\ told' = told
         \/ /\ told.by = "shared"
            /\ told' \in [by : {"nobody", "own", "shared"}, until : Nat, earned : Nat,
                          drawn : SUBSET {"own", "shared"}]
            /\ told'.by = "shared" /\ told'.until = told.until /\ told'.earned = told.earned
            /\ told'.drawn = told.drawn \union {limit}
  <1>1. told \in [by : {"nobody", "own", "shared"}, until : Nat, earned : Nat,
                  drawn : SUBSET {"own", "shared"}]
    BY DEF TypeOK
  <1>2. CASE told.by = "own" /\ limit = "shared"
    BY <1>2 DEF Drawn
  <1>3. CASE told.by = "shared" /\ told.drawn \union {limit} # {"own", "shared"}
    <2>1. told' = [told EXCEPT !.drawn = told.drawn \union {limit}]
      BY <1>3 DEF Drawn
    <2>2. told.drawn \union {limit} \in SUBSET {"own", "shared"}
      BY <1>1
    <2> QED
      BY <1>1, <1>3, <2>1, <2>2
  <1>4. CASE /\ ~(told.by = "own" /\ limit = "shared")
             /\ ~(told.by = "shared" /\ told.drawn \union {limit} # {"own", "shared"})
    BY <1>4 DEF Drawn
  <1> QED
    BY <1>2, <1>3, <1>4

\* A refusal promises a time, counted in ticks.
LEMMA LimitedMeans ==
  ASSUME TypeOK, NEW k \in Clients, NEW by \in {"own", "shared"}, NEW wait \in Nat,
         Limited(k, by, wait)
  PROVE  /\ stage' = [stage EXCEPT ![k] = "idle"]
         /\ told' \in [by : {"nobody", "own", "shared"}, until : Nat, earned : Nat,
                       drawn : SUBSET {"own", "shared"}]
         /\ k # Watched => told' = told
         /\ k = Watched => /\ told'.by = by /\ told'.drawn = {}
                           /\ told'.until = clock + Second * RetryAfterHeader(wait)
                           /\ by = "shared" => told'.earned = clock + TokenTime
  <1>1. clock \in Nat /\ TokenTime \in Nat /\ Second * RetryAfterHeader(wait) \in Nat
    <2>1. clock \in 0 .. MaxTime /\ MaxTime \in Nat
      BY AdmissionAssumption DEF TypeOK
    <2> QED
      BY <2>1, TokenTimeEarns, HeaderIsLongEnough
  <1>2. told \in [by : {"nobody", "own", "shared"}, until : Nat, earned : Nat,
                  drawn : SUBSET {"own", "shared"}]
    BY DEF TypeOK
  <1>3. stage' = [stage EXCEPT ![k] = "idle"]
    BY DEF Limited
  <1>4. CASE k # Watched
    BY <1>2, <1>3, <1>4 DEF Limited
  <1>5. CASE k = Watched
    <2>1. told' = [by |-> by, until |-> clock + Second * RetryAfterHeader(wait),
                   earned |-> IF by = "own" THEN 0 ELSE clock + TokenTime, drawn |-> {}]
      BY <1>5 DEF Limited
    <2>2. clock + Second * RetryAfterHeader(wait) \in Nat /\ clock + TokenTime \in Nat
      BY <1>1
    <2> QED
      BY <1>3, <1>5, <2>1, <2>2
  <1> QED
    BY <1>4, <1>5

\* The observer knows nothing: that is a value of told.
LEMMA UntoldIsTyped ==
  Untold \in [by : {"nobody", "own", "shared"}, until : Nat, earned : Nat,
              drawn : SUBSET {"own", "shared"}]
  BY DEF Untold

\* A bucket that is read at the clock, of either kind.
LEMMA Reading ==
  ASSUME TypeOK
  PROVE  /\ clock \in Nat
         /\ \A c \in Callers : /\ own[c] \in Own!Bucket
                               /\ Own!advanceLocked(own[c], clock) \in Own!Bucket
                               /\ Own!advanceLocked(own[c], clock).last = clock
         /\ Shared!advanceLocked(shared, clock) \in Shared!Bucket
         /\ Shared!advanceLocked(shared, clock).last = clock
  <1>1. clock \in Nat
    BY AdmissionAssumption DEF TypeOK
  <1>2. ASSUME NEW c \in Callers
        PROVE  /\ own[c] \in Own!Bucket
               /\ Own!advanceLocked(own[c], clock) \in Own!Bucket
               /\ Own!advanceLocked(own[c], clock).last = clock
    <2>1. own[c] \in Own!Bucket
      BY DEF TypeOK
    <2> QED
      BY <1>1, <2>1, OwnBucket
  <1>3. shared \in Shared!Bucket
    BY DEF TypeOK
  <1>4. /\ Shared!advanceLocked(shared, clock) \in Shared!Bucket
        /\ Shared!advanceLocked(shared, clock).last = clock
    BY <1>1, <1>3, SharedBucket
  <1> QED
    BY <1>1, <1>2, <1>4

\* What the own limit does to the buckets, and to the promise.
LEMMA OwnLimitMeans ==
  ASSUME TypeOK, NEW k \in Clients, OwnLimit(k)
  PROVE  LET c == CallerOf[k]
             b == Own!advanceLocked(own[c], clock)
         IN  /\ stage[k] = "idle"
             /\ \/ /\ Own!Admits(b)
                   /\ own' = [own EXCEPT ![c] = Own!Spend(b)]
                   /\ stage' = [stage EXCEPT ![k] = "resolve"]
                   /\ k = Watched => told' = Untold \/ (told.by # "own" /\ told' = told)
                   /\ k # Watched /\ c = Caller => Drawn("own")
                   /\ k # Watched /\ c # Caller => told' = told
                \/ /\ ~Own!Admits(b)
                   /\ own' = [own EXCEPT ![c] = b]
                   /\ stage' = stage
                   /\ Limited(k, "own", Own!RetryAfter(b))
             /\ UNCHANGED <<clock, shared, window>>
  <1> DEFINE c == CallerOf[k]
             b == Own!advanceLocked(own[c], clock)
  <1>1. stage[k] = "idle" /\ UNCHANGED <<clock, shared, window>>
    BY DEF OwnLimit
  <1>2. stage' = [stage EXCEPT ![k] = "idle"] => stage' = stage
    BY <1>1 DEF TypeOK
  <1>3. \/ /\ Own!Admits(b)
           /\ own' = [own EXCEPT ![c] = Own!Spend(b)]
           /\ stage' = [stage EXCEPT ![k] = "resolve"]
           /\ IF k = Watched THEN told' = IF told.by = "own" THEN Untold ELSE told
              ELSE IF c = Caller THEN Drawn("own")
              ELSE UNCHANGED told
        \/ /\ ~Own!Admits(b)
           /\ own' = [own EXCEPT ![c] = b]
           /\ Limited(k, "own", Own!RetryAfter(b))
    BY DEF OwnLimit
  <1> HIDE DEF b, c
  <1>4. CASE /\ ~Own!Admits(b)
             /\ own' = [own EXCEPT ![c] = b]
             /\ Limited(k, "own", Own!RetryAfter(b))
    <2>1. stage' = stage
      BY <1>2, <1>4 DEF Limited
    <2> QED
      BY <1>1, <1>4, <2>1 DEF b, c
  <1>5. CASE /\ Own!Admits(b)
             /\ own' = [own EXCEPT ![c] = Own!Spend(b)]
             /\ stage' = [stage EXCEPT ![k] = "resolve"]
             /\ IF k = Watched THEN told' = IF told.by = "own" THEN Untold ELSE told
                ELSE IF c = Caller THEN Drawn("own")
                ELSE UNCHANGED told
    <2>1. k = Watched => told' = Untold \/ (told.by # "own" /\ told' = told)
      BY <1>5
    <2>2. k # Watched /\ c = Caller => Drawn("own")
      BY <1>5, Zenon
    <2>3. k # Watched /\ c # Caller => told' = told
      BY <1>5
    <2> QED
      BY <1>1, <1>5, <2>1, <2>2, <2>3 DEF b, c
  <1> QED
    BY <1>3, <1>4, <1>5

\* The own limit decides between two values of a client's stage.
LEMMA OwnLimitKeepsTypes ==
  ASSUME TypeOK, NEW k \in Clients, OwnLimit(k)
  PROVE  TypeOK' /\ (ReadBefore => ReadBefore')
  <1> DEFINE c == CallerOf[k]
             b == Own!advanceLocked(own[c], clock)
  <1>1. c \in Callers /\ b \in Own!Bucket /\ b.last = clock /\ own \in [Callers -> Own!Bucket]
    BY Reading, ConstantsArePositive DEF TypeOK
  <1>2. UNCHANGED <<clock, shared, window>>
    BY OwnLimitMeans
  <1>3. /\ own' \in [Callers -> Own!Bucket]
        /\ \A d \in Callers : own'[d] = own[d] \/ own'[d].last = clock
        /\ stage' \in [Clients -> {"idle", "resolve", "ask"}]
        /\ told' \in [by : {"nobody", "own", "shared"}, until : Nat, earned : Nat,
                      drawn : SUBSET {"own", "shared"}]
    <2>1. CASE /\ Own!Admits(b)
               /\ own' = [own EXCEPT ![c] = Own!Spend(b)]
               /\ stage' = [stage EXCEPT ![k] = "resolve"]
               /\ k = Watched => told' = Untold \/ (told.by # "own" /\ told' = told)
               /\ k # Watched /\ c = Caller => Drawn("own")
               /\ k # Watched /\ c # Caller => told' = told
      <3>1. Own!Spend(b) \in Own!Bucket /\ Own!Spend(b).last = clock
        BY <1>1, <2>1, OwnSpends
      <3>2. stage' \in [Clients -> {"idle", "resolve", "ask"}]
        BY <2>1 DEF TypeOK
      <3>3. told' = told \/ told' = Untold \/ Drawn("own")
        BY <2>1
      <3>4. told' \in [by : {"nobody", "own", "shared"}, until : Nat, earned : Nat,
                       drawn : SUBSET {"own", "shared"}]
        <4>1. CASE Drawn("own")
          BY <4>1, DrawnMeans, UntoldIsTyped DEF TypeOK
        <4>2. CASE told' = told \/ told' = Untold
          BY <4>2, UntoldIsTyped DEF TypeOK
        <4> QED
          BY <3>3, <4>1, <4>2
      <3> HIDE DEF b, c
      <3> QED
        BY <1>1, <2>1, <3>1, <3>2, <3>4
    <2>2. CASE /\ ~Own!Admits(b)
               /\ own' = [own EXCEPT ![c] = b]
               /\ stage' = stage
               /\ Limited(k, "own", Own!RetryAfter(b))
      <3>1. Own!RetryAfter(b) \in Nat
        BY <1>1, <2>2, OwnKeepsItsWord
      <3>2. told' \in [by : {"nobody", "own", "shared"}, until : Nat, earned : Nat,
                       drawn : SUBSET {"own", "shared"}]
        BY <2>2, <3>1, LimitedMeans
      <3>3. stage' \in [Clients -> {"idle", "resolve", "ask"}]
        BY <2>2 DEF TypeOK
      <3> HIDE DEF b, c
      <3> QED
        BY <1>1, <2>2, <3>2, <3>3
    <2> QED
      BY <2>1, <2>2, OwnLimitMeans
  <1>4. TypeOK'
    BY <1>2, <1>3 DEF TypeOK
  <1>5. ReadBefore => ReadBefore'
    <2>1. clock \in Int
      BY Reading
    <2> QED
      BY <1>2, <1>3, <2>1 DEF ReadBefore
  <1> QED
    BY <1>4, <1>5

LEMMA ResolveKeepsTypes ==
  ASSUME TypeOK, NEW k \in Clients, Resolve(k)
  PROVE  TypeOK' /\ (ReadBefore => ReadBefore')
  <1>1. /\ UNCHANGED <<clock, own, shared>>
        /\ window'.from = window.from
        /\ window' \in [from : Nat, resolved : Int, asked : Int]
    BY DEF Resolve, TypeOK
  <1>2. told' = told \/ told' = Untold
    BY DEF Resolve
  <1>3. stage' \in [Clients -> {"idle", "resolve", "ask"}]
    BY DEF Resolve, TypeOK
  <1>4. told' \in [by : {"nobody", "own", "shared"}, until : Nat, earned : Nat,
                   drawn : SUBSET {"own", "shared"}]
    BY <1>2, UntoldIsTyped DEF TypeOK
  <1> QED
    BY <1>1, <1>3, <1>4 DEF TypeOK, ReadBefore

LEMMA GlobalLimitKeepsTypes ==
  ASSUME TypeOK, NEW k \in Clients, GlobalLimit(k)
  PROVE  TypeOK' /\ (ReadBefore => ReadBefore')
  <1> DEFINE b == Shared!advanceLocked(shared, clock)
  <1>1. b \in Shared!Bucket /\ b.last = clock /\ clock \in Nat
    BY Reading
  <1>2. UNCHANGED <<clock, own>>
    BY DEF GlobalLimit
  <1>3. /\ shared' \in Shared!Bucket /\ shared'.last = clock
        /\ stage' \in [Clients -> {"idle", "resolve", "ask"}]
        /\ told' \in [by : {"nobody", "own", "shared"}, until : Nat, earned : Nat,
                      drawn : SUBSET {"own", "shared"}]
        /\ window'.from = window.from
        /\ window' \in [from : Nat, resolved : Int, asked : Int]
    <2>1. CASE /\ Shared!Admits(b)
               /\ shared' = Shared!Spend(b)
               /\ stage' = [stage EXCEPT ![k] = "idle"]
               /\ IF k = Watched THEN told' = Untold ELSE Drawn("shared")
               /\ window' = [window EXCEPT !.asked = IF CallerOf[k] = Caller THEN @ + 1 ELSE @]
      <3>1. Shared!Spend(b) \in Shared!Bucket /\ Shared!Spend(b).last = clock
        BY <1>1, <2>1, SharedSpends
      <3>2. told' = Untold \/ Drawn("shared")
        BY <2>1, Zenon
      <3>3. told' \in [by : {"nobody", "own", "shared"}, until : Nat, earned : Nat,
                       drawn : SUBSET {"own", "shared"}]
        <4>1. CASE Drawn("shared")
          BY <4>1, DrawnMeans, UntoldIsTyped DEF TypeOK
        <4>2. CASE told' = Untold
          BY <4>2, UntoldIsTyped
        <4> QED
          BY <3>2, <4>1, <4>2
      <3>4. /\ stage' \in [Clients -> {"idle", "resolve", "ask"}]
            /\ window'.from = window.from
            /\ window' \in [from : Nat, resolved : Int, asked : Int]
        BY <2>1 DEF TypeOK
      <3> QED
        BY <2>1, <3>1, <3>3, <3>4
    <2>2. CASE /\ ~Shared!Admits(b)
               /\ shared' = b
               /\ Limited(k, "shared", Shared!RetryAfter(b))
               /\ UNCHANGED window
      <3>1. Shared!RetryAfter(b) \in Nat
        BY <1>1, <2>2, SharedKeepsItsWord
      <3>2. /\ told' \in [by : {"nobody", "own", "shared"}, until : Nat, earned : Nat,
                          drawn : SUBSET {"own", "shared"}]
            /\ stage' = [stage EXCEPT ![k] = "idle"]
        BY <2>2, <3>1, LimitedMeans
      <3>3. /\ stage' \in [Clients -> {"idle", "resolve", "ask"}]
            /\ window'.from = window.from
            /\ window' \in [from : Nat, resolved : Int, asked : Int]
        BY <2>2, <3>2 DEF TypeOK
      <3> QED
        BY <1>1, <2>2, <3>2, <3>3
    <2> QED
      BY <2>1, <2>2 DEF GlobalLimit
  <1>4. TypeOK'
    BY <1>2, <1>3 DEF TypeOK
  <1>5. ReadBefore => ReadBefore'
    BY <1>1, <1>2, <1>3 DEF ReadBefore
  <1> QED
    BY <1>4, <1>5

LEMMA TickKeepsTypes ==
  ASSUME TypeOK, Tick
  PROVE  TypeOK' /\ (ReadBefore => ReadBefore')
  <1>1. UNCHANGED <<own, shared, stage, told, window>> /\ clock' = clock + 1 /\ clock < MaxTime
    BY DEF Tick
  <1>2. clock \in 0 .. MaxTime /\ MaxTime \in Nat
    BY AdmissionAssumption DEF TypeOK
  <1>3. clock' \in 0 .. MaxTime
    BY <1>1, <1>2
  <1>4. TypeOK'
    BY <1>1, <1>3 DEF TypeOK
  <1>5. ASSUME ReadBefore PROVE ReadBefore'
    <2>1. (\A c \in Callers : own[c].last \in Int) /\ shared.last \in Int /\ window.from \in Int
      BY DEF TypeOK, Own!Bucket, Shared!Bucket
    <2> QED
      BY <1>1, <1>2, <1>5, <2>1 DEF ReadBefore
  <1> QED
    BY <1>4, <1>5

LEMMA WatchKeepsTypes ==
  ASSUME TypeOK, IsFiniteSet(Flying), Watch
  PROVE  TypeOK' /\ (ReadBefore => ReadBefore')
  <1>1. /\ UNCHANGED <<clock, own, shared, stage, told>>
        /\ window' = [from |-> clock, resolved |-> -InFlight, asked |-> -InFlight]
    BY DEF Watch
  <1>2. clock \in Nat /\ InFlight \in Nat
    BY Reading, FlyingCounts
  <1>3. window' \in [from : Nat, resolved : Int, asked : Int] /\ window'.from = clock
    BY <1>1, <1>2
  <1>4. TypeOK'
    BY <1>1, <1>3 DEF TypeOK
  <1>5. ReadBefore => ReadBefore'
    BY <1>1, <1>2, <1>3 DEF ReadBefore
  <1> QED
    BY <1>4, <1>5
-----------------------------------------------------------------------------
\* Every token that the caller draws is paid for.
LEMMA OwnLimitKeepsAccounts ==
  ASSUME TypeOK, ReadBefore, ShareAccounted, NEW k \in Clients, OwnLimit(k)
  PROVE  ShareAccounted'
  <1> DEFINE c == CallerOf[k]
             b == Own!advanceLocked(own[c], clock)
             resolved == window.resolved + Cardinality(Resolving)
             asked == window.asked + Cardinality(Flying)
  <1>1. /\ c \in Callers /\ Caller \in Callers /\ own \in [Callers -> Own!Bucket]
        /\ own[Caller] \in Own!Bucket /\ clock \in Int /\ own[Caller].last <= clock
        /\ window.from \in Int /\ window.from <= clock
    BY Reading, ConstantsArePositive DEF TypeOK, ReadBefore
  <1>2. /\ resolved \in Int /\ asked \in Int
        /\ window.resolved \in Int /\ window.asked \in Int
        /\ Cardinality(Resolving) \in Int /\ Cardinality(Flying) \in Int
    BY FlyingCounts DEF ShareAccounted, TypeOK
  <1>3. /\ IsFiniteSet(Flying)
        /\ Paid(own[Caller], window.from, resolved)
        /\ Paid(own[Caller], window.from, asked)
    BY DEF ShareAccounted
  <1>4. stage[k] = "idle" /\ window' = window
    BY OwnLimitMeans
  <1>5. CASE /\ Own!Admits(b)
             /\ own' = [own EXCEPT ![c] = Own!Spend(b)]
             /\ stage' = [stage EXCEPT ![k] = "resolve"]
    <2>1. /\ IsFiniteSet(Flying')
          /\ c = Caller => /\ Cardinality(Flying') = Cardinality(Flying) + 1
                           /\ Cardinality(Resolving') = Cardinality(Resolving) + 1
          /\ c # Caller => Flying' = Flying /\ Resolving' = Resolving
      BY <1>3, <1>4, <1>5, LetInCounts
    <2>2. CASE c = Caller
      <3>1. /\ Paid(Own!Spend(b), window.from, resolved + 1)
            /\ Paid(Own!Spend(b), window.from, asked + 1)
        BY <1>1, <1>2, <1>3, <1>5, <2>2, SpendingPays
      <3>2. own'[Caller] = Own!Spend(b)
        BY <1>1, <1>5, <2>2
      <3>3. /\ window.resolved + Cardinality(Resolving') = resolved + 1
            /\ window.asked + Cardinality(Flying') = asked + 1
        BY <1>2, <2>1, <2>2
      <3> HIDE DEF b, resolved, asked
      <3>4. /\ Paid(own'[Caller], window'.from, window'.resolved + Cardinality(Resolving'))
            /\ Paid(own'[Caller], window'.from, window'.asked + Cardinality(Flying'))
        BY <1>4, <3>1, <3>2, <3>3
      <3> QED
        BY <2>1, <3>4 DEF ShareAccounted, Caller
    <2>3. CASE c # Caller
      <3>1. own'[Caller] = own[Caller]
        BY <1>1, <1>5, <2>3
      <3> QED
        BY <1>3, <1>4, <2>1, <2>3, <3>1 DEF ShareAccounted, Caller
    <2> QED
      BY <2>2, <2>3
  <1>6. CASE /\ ~Own!Admits(b)
             /\ own' = [own EXCEPT ![c] = b]
             /\ stage' = stage
    <2>1. Flying' = Flying /\ Resolving' = Resolving
      BY <1>6 DEF Flying, Resolving, Caller
    <2>2. CASE c = Caller
      <3>1. /\ Paid(b, window.from, resolved)
            /\ Paid(b, window.from, asked)
        BY <1>1, <1>2, <1>3, <2>2, RefusalKeepsPaid
      <3>2. own'[Caller] = b
        BY <1>1, <1>6, <2>2
      <3> HIDE DEF b
      <3> QED
        BY <1>3, <1>4, <2>1, <3>1, <3>2 DEF ShareAccounted, Caller
    <2>3. CASE c # Caller
      <3>1. own'[Caller] = own[Caller]
        BY <1>1, <1>6, <2>3
      <3> QED
        BY <1>3, <1>4, <2>1, <3>1 DEF ShareAccounted, Caller
    <2> QED
      BY <2>2, <2>3
  <1> QED
    BY <1>5, <1>6, OwnLimitMeans

LEMMA ResolveKeepsAccounts ==
  ASSUME TypeOK, ShareAccounted, NEW k \in Clients, Resolve(k)
  PROVE  ShareAccounted'
  <1>1. /\ own[Caller] \in Own!Bucket /\ window.from \in Int
        /\ window.resolved \in Int /\ window.asked \in Int
    BY ConstantsArePositive DEF TypeOK
  <1>2. Cardinality(Resolving) \in Int /\ Cardinality(Flying) \in Int
    BY FlyingCounts DEF ShareAccounted
  <1>3. PICK next \in {"ask", "idle"} : stage' = [stage EXCEPT ![k] = next]
    BY DEF Resolve
  <1>4. /\ stage[k] = "resolve" /\ own' = own
        /\ window'.from = window.from /\ window'.asked = window.asked
        /\ window'.resolved = IF CallerOf[k] = Caller THEN window.resolved + 1 ELSE window.resolved
    BY DEF Resolve, TypeOK
  <1>5. /\ IsFiniteSet(Flying')
        /\ Cardinality(Flying') <= Cardinality(Flying)
        /\ CallerOf[k] = Caller => Cardinality(Resolving') = Cardinality(Resolving) - 1
        /\ CallerOf[k] # Caller => Resolving' = Resolving
    BY <1>3, <1>4, ResolvedCounts DEF ShareAccounted
  <1>6. Cardinality(Flying') \in Int
    BY <1>5, FS_CardinalityType
  <1>7. Paid(own[Caller], window.from, window.asked + Cardinality(Flying'))
    <2>1. window.asked + Cardinality(Flying') <= window.asked + Cardinality(Flying)
      BY <1>1, <1>2, <1>5, <1>6
    <2> QED
      BY <1>1, <1>2, <1>6, <2>1, FewerArePaid DEF ShareAccounted
  <1>8. window'.resolved + Cardinality(Resolving') = window.resolved + Cardinality(Resolving)
    BY <1>1, <1>2, <1>4, <1>5
  <1>9. Paid(own[Caller], window.from, window'.resolved + Cardinality(Resolving'))
    BY <1>8 DEF ShareAccounted
  <1> QED
    BY <1>4, <1>5, <1>7, <1>9 DEF ShareAccounted, Caller

LEMMA GlobalLimitKeepsAccounts ==
  ASSUME TypeOK, ShareAccounted, NEW k \in Clients, GlobalLimit(k)
  PROVE  ShareAccounted'
  <1>1. /\ own[Caller] \in Own!Bucket /\ window.from \in Int
        /\ window.resolved \in Int /\ window.asked \in Int
    BY ConstantsArePositive DEF TypeOK
  <1>2. Cardinality(Resolving) \in Int /\ Cardinality(Flying) \in Int
    BY FlyingCounts DEF ShareAccounted
  <1>3. stage[k] = "ask" /\ own' = own /\ stage' = [stage EXCEPT ![k] = "idle"]
    BY DEF GlobalLimit, Limited
  <1>4. /\ IsFiniteSet(Flying')
        /\ Resolving' = Resolving
        /\ CallerOf[k] = Caller => Cardinality(Flying') = Cardinality(Flying) - 1
        /\ CallerOf[k] # Caller => Flying' = Flying
    BY <1>3, AnsweredCounts DEF ShareAccounted
  <1>5. /\ window'.from = window.from /\ window'.resolved = window.resolved
        /\ window'.asked \in Int
        /\ window'.asked + Cardinality(Flying') <= window.asked + Cardinality(Flying)
    <2>1. CASE window' = [window EXCEPT !.asked =
                            IF CallerOf[k] = Caller THEN window.asked + 1 ELSE window.asked]
      <3>1. /\ window'.from = window.from /\ window'.resolved = window.resolved
            /\ window'.asked = IF CallerOf[k] = Caller THEN window.asked + 1 ELSE window.asked
        BY <2>1 DEF TypeOK
      <3> QED
        BY <1>1, <1>2, <1>4, <3>1
    <2>2. CASE window' = window
      <3>1. Cardinality(Flying') <= Cardinality(Flying) /\ Cardinality(Flying') \in Int
        BY <1>2, <1>4
      <3> QED
        BY <1>1, <1>2, <2>2, <3>1
    <2> QED
      BY <2>1, <2>2 DEF GlobalLimit
  <1>6. Cardinality(Flying') \in Int
    BY <1>4, FS_CardinalityType
  <1>7. Paid(own[Caller], window.from, window'.asked + Cardinality(Flying'))
    BY <1>1, <1>2, <1>5, <1>6, FewerArePaid DEF ShareAccounted
  <1> QED
    BY <1>3, <1>4, <1>5, <1>7 DEF ShareAccounted, Caller

LEMMA WatchKeepsAccounts ==
  ASSUME TypeOK, ReadBefore, ShareAccounted, Watch
  PROVE  ShareAccounted'
  <1>1. /\ UNCHANGED <<clock, own, shared, stage, told>>
        /\ window' = [from |-> clock, resolved |-> -InFlight, asked |-> -InFlight]
    BY DEF Watch
  <1>2. /\ Cardinality(Flying) \in Nat /\ Cardinality(Resolving) \in Nat
        /\ Cardinality(Resolving) <= Cardinality(Flying) /\ InFlight = Cardinality(Flying)
    BY FlyingCounts DEF ShareAccounted
  <1>3. /\ Caller \in Callers /\ own[Caller] \in Own!Bucket /\ clock \in Int
        /\ own[Caller].last <= clock
    BY Reading, ConstantsArePositive DEF ReadBefore
  <1>4. /\ Paid(own[Caller], clock, -InFlight + Cardinality(Resolving))
        /\ Paid(own[Caller], clock, -InFlight + Cardinality(Flying))
    <2>1. /\ -InFlight + Cardinality(Resolving) \in Int
          /\ -InFlight + Cardinality(Resolving) <= 0
          /\ -InFlight + Cardinality(Flying) \in Int
          /\ -InFlight + Cardinality(Flying) <= 0
      BY <1>2
    <2> QED
      BY <1>3, <2>1, NothingIsPaid
  <1>5. Flying' = Flying /\ Resolving' = Resolving
    BY <1>1 DEF Flying, Resolving, Caller
  <1>6. window'.from = clock /\ window'.resolved = -InFlight /\ window'.asked = -InFlight
    BY <1>1
  <1> QED
    BY <1>1, <1>4, <1>5, <1>6 DEF ShareAccounted, Caller
-----------------------------------------------------------------------------
\* What was told stays true until somebody else draws a token, or the client comes.
LEMMA OwnLimitKeepsPromises ==
  ASSUME TypeOK, ReadBefore, OwnPromise, SharedPromise, NEW k \in Clients, OwnLimit(k)
  PROVE  OwnPromise' /\ SharedPromise'
  <1> DEFINE c == CallerOf[k]
             b == Own!advanceLocked(own[c], clock)
  <1>1. /\ c \in Callers /\ Caller \in Callers /\ own \in [Callers -> Own!Bucket]
        /\ own[c] \in Own!Bucket /\ b \in Own!Bucket /\ b.last = clock /\ clock \in Int
        /\ own[c].last <= clock /\ Watched \in Clients
        /\ stage \in [Clients -> {"idle", "resolve", "ask"}]
    BY Reading, ConstantsArePositive DEF TypeOK, ReadBefore
  <1>2. stage[k] = "idle" /\ clock' = clock /\ shared' = shared
    BY OwnLimitMeans
  <1>3. CASE /\ Own!Admits(b)
             /\ own' = [own EXCEPT ![c] = Own!Spend(b)]
             /\ stage' = [stage EXCEPT ![k] = "resolve"]
             /\ k = Watched => told' = Untold \/ (told.by # "own" /\ told' = told)
             /\ k # Watched /\ c = Caller => Drawn("own")
             /\ k # Watched /\ c # Caller => told' = told
    <2>1. CASE k = Watched
      <3>1. stage'[Watched] = "resolve"
        BY <1>1, <1>3, <2>1
      <3>2. told' = Untold \/ told' = told
        BY <1>3, <2>1
      <3> QED
        BY <1>2, <3>1, <3>2 DEF OwnPromise, SharedPromise, Untold
    <2>2. CASE k # Watched /\ c = Caller
      <3>1. \/ told' = Untold
            \/ /\ told.by = "shared" /\ told'.by = "shared" /\ told'.until = told.until
               /\ told'.drawn = told.drawn \union {"own"}
        BY <1>3, <2>2, DrawnMeans
      <3> QED
        BY <1>2, <3>1 DEF OwnPromise, SharedPromise, Untold
    <2>3. CASE k # Watched /\ c # Caller
      <3>1. own'[Caller] = own[Caller] /\ stage'[Watched] = stage[Watched] /\ told' = told
        BY <1>1, <1>3, <2>3
      <3> QED
        BY <1>2, <3>1 DEF OwnPromise, SharedPromise, Caller
    <2> QED
      BY <2>1, <2>2, <2>3
  <1>4. CASE /\ ~Own!Admits(b)
             /\ own' = [own EXCEPT ![c] = b]
             /\ stage' = stage
             /\ Limited(k, "own", Own!RetryAfter(b))
    <2>1. Own!RetryAfter(b) \in Nat
      BY <1>1, <1>4, OwnKeepsItsWord
    <2>2. CASE k = Watched
      <3>1. /\ told'.by = "own"
            /\ told'.until = clock + Second * RetryAfterHeader(Own!RetryAfter(b))
        BY <1>4, <2>1, <2>2, LimitedMeans
      <3>2. own'[Caller] = b
        BY <1>1, <1>4, <2>2 DEF Caller
      <3>3. \A t \in Int : t > told'.until => Own!Admits(Own!advanceLocked(own'[Caller], t))
        BY <1>1, <1>4, <3>1, <3>2, OwnKeepsItsWord
      <3>4. OwnPromise'
        BY <3>3 DEF OwnPromise, Caller
      <3>5. SharedPromise'
        BY <3>1 DEF SharedPromise
      <3> QED
        BY <3>4, <3>5
    <2>3. CASE k # Watched
      <3>1. told' = told
        BY <1>4, <2>1, <2>3, LimitedMeans
      <3>2. \A t \in Int : t >= clock =>
              Own!advanceLocked(own'[Caller], t) = Own!advanceLocked(own[Caller], t)
        <4>1. CASE c = Caller
          <5>1. own'[Caller] = b
            BY <1>1, <1>4, <4>1
          <5>2. \A t \in Int : t >= clock => Own!advanceLocked(b, t) = Own!advanceLocked(own[c], t)
            BY <1>1, OwnComposes
          <5> QED
            BY <4>1, <5>1, <5>2
        <4>2. CASE c # Caller
          <5>1. own'[Caller] = own[Caller]
            BY <1>1, <1>4, <4>2
          <5> QED
            BY <5>1
        <4> QED
          BY <4>1, <4>2
      <3>3. OwnPromise'
        BY <1>2, <1>4, <3>1, <3>2 DEF OwnPromise, Caller
      <3>4. SharedPromise'
        BY <1>2, <3>1 DEF SharedPromise
      <3> QED
        BY <3>3, <3>4
    <2> QED
      BY <2>2, <2>3
  <1> QED
    BY <1>3, <1>4, OwnLimitMeans

LEMMA ResolveKeepsPromises ==
  ASSUME TypeOK, OwnPromise, SharedPromise, NEW k \in Clients, Resolve(k)
  PROVE  OwnPromise' /\ SharedPromise'
  <1>1. UNCHANGED <<clock, own, shared>> /\ stage[k] = "resolve"
    BY DEF Resolve
  <1>2. Watched \in Clients /\ stage \in [Clients -> {"idle", "resolve", "ask"}]
    BY ConstantsArePositive DEF TypeOK
  <1>3. \/ told' = Untold
        \/ told' = told /\ (stage'[Watched] = stage[Watched] \/ stage'[Watched] = "ask")
    BY <1>2 DEF Resolve
  <1> QED
    BY <1>1, <1>3 DEF OwnPromise, SharedPromise, Untold, Caller

LEMMA GlobalLimitKeepsPromises ==
  ASSUME TypeOK, ReadBefore, OwnPromise, SharedPromise, NEW k \in Clients, GlobalLimit(k)
  PROVE  OwnPromise' /\ SharedPromise'
  <1> DEFINE b == Shared!advanceLocked(shared, clock)
  <1>1. /\ b \in Shared!Bucket /\ b.last = clock /\ clock \in Int
        /\ shared \in Shared!Bucket /\ shared.last <= clock /\ Watched \in Clients
        /\ stage \in [Clients -> {"idle", "resolve", "ask"}]
        /\ own[Caller] \in Own!Bucket /\ own[Caller].last <= clock
    BY Reading, ConstantsArePositive DEF TypeOK, ReadBefore
  <1>2. clock' = clock /\ own' = own
    BY DEF GlobalLimit
  <1>3. CASE /\ Shared!Admits(b)
             /\ stage' = [stage EXCEPT ![k] = "idle"]
             /\ IF k = Watched THEN told' = Untold ELSE Drawn("shared")
    <2>1. CASE k = Watched
      <3>1. told' = Untold
        BY <1>3, <2>1
      <3> QED
        BY <3>1 DEF OwnPromise, SharedPromise, Untold
    <2>2. CASE k # Watched
      <3>1. Drawn("shared")
        BY <1>3, <2>2, Zenon
      <3>2. \/ told' = Untold
            \/ told.by = "own" /\ told' = told
            \/ /\ told.by = "shared" /\ told'.by = "shared" /\ told'.until = told.until
               /\ told'.earned = told.earned /\ told'.drawn = told.drawn \union {"shared"}
        BY <3>1, DrawnMeans
      <3>3. stage'[Watched] = stage[Watched]
        BY <1>1, <1>3, <2>2
      <3>4. OwnPromise'
        BY <1>2, <3>2, <3>3 DEF OwnPromise, Untold, Caller
      <3>5. SharedPromise'
        BY <3>2 DEF SharedPromise, Untold
      <3> QED
        BY <3>4, <3>5
    <2> QED
      BY <2>1, <2>2
  <1>4. CASE /\ ~Shared!Admits(b)
             /\ shared' = b
             /\ Limited(k, "shared", Shared!RetryAfter(b))
    <2>1. Shared!RetryAfter(b) \in Nat
      BY <1>1, <1>4, SharedKeepsItsWord
    <2>2. stage' = [stage EXCEPT ![k] = "idle"]
      BY <1>4, <2>1, LimitedMeans
    <2>3. CASE k = Watched
      <3>1. /\ told'.by = "shared" /\ told'.earned = clock + TokenTime
            /\ told'.until = clock + Second * RetryAfterHeader(Shared!RetryAfter(b))
        BY <1>4, <2>1, <2>3, LimitedMeans
      <3>2. \A t \in Int : t > told'.until => Shared!Admits(Shared!advanceLocked(shared', t))
        BY <1>1, <1>4, <3>1, SharedKeepsItsWord
      <3>3. \A t \in Int : t >= told'.earned => Own!Admits(Own!advanceLocked(own'[Caller], t))
        <4>1. TokenTime \in Nat /\ own[Caller].last \in Int
          BY <1>1, TokenTimeEarns, OwnBucket
        <4>2. \A t \in Int : t >= clock + TokenTime => t >= own[Caller].last + TokenTime
          BY <1>1, <4>1
        <4> QED
          BY <1>1, <1>2, <3>1, <4>2, TokenTimeEarns
      <3>4. OwnPromise'
        BY <3>3 DEF OwnPromise, Caller
      <3>5. SharedPromise'
        BY <3>2 DEF SharedPromise
      <3> QED
        BY <3>4, <3>5
    <2>4. CASE k # Watched
      <3>1. told' = told
        BY <1>4, <2>1, <2>4, LimitedMeans
      <3>2. stage'[Watched] = stage[Watched]
        BY <1>1, <2>2, <2>4
      <3>3. \A t \in Int : t >= clock =>
              Shared!advanceLocked(shared', t) = Shared!advanceLocked(shared, t)
        BY <1>1, <1>4, SharedComposes
      <3>4. OwnPromise'
        BY <1>2, <3>1, <3>2 DEF OwnPromise, Caller
      <3>5. SharedPromise'
        BY <1>2, <3>1, <3>3 DEF SharedPromise
      <3> QED
        BY <3>4, <3>5
    <2> QED
      BY <2>3, <2>4
  <1> QED
    BY <1>3, <1>4 DEF GlobalLimit

LEMMA TickKeepsPromises ==
  ASSUME TypeOK, OwnPromise, SharedPromise, Tick
  PROVE  OwnPromise' /\ SharedPromise'
  <1>1. UNCHANGED <<own, shared, stage, told, window>> /\ clock' = clock + 1 /\ clock \in Int
    BY Reading DEF Tick
  <1>2. \A t \in Int : t >= clock' => t >= clock
    BY <1>1
  <1> QED
    BY <1>1, <1>2 DEF OwnPromise, SharedPromise, Caller
-----------------------------------------------------------------------------
\* In the beginning all buckets are full and nobody was told anything.
LEMMA InitHolds == Init => IInv
  <1> SUFFICES ASSUME Init PROVE IInv
    OBVIOUS
  <1>1. /\ clock = 0 /\ own = [c \in Callers |-> Own!newAt(0)] /\ shared = Shared!newAt(0)
        /\ stage = [k \in Clients |-> "idle"] /\ told = Untold
        /\ window = [from |-> 0, resolved |-> 0, asked |-> 0]
    BY DEF Init
  <1>2. Own!newAt(0) \in Own!Bucket /\ Own!newAt(0).last = 0
    <2>1. OwnFacts!newAt(0) \in OwnFacts!Bucket /\ OwnFacts!newAt(0).last = 0
      BY OwnFacts!NewIsFull, ConstantsArePositive
    <2> QED
      BY <2>1, OwnNames
  <1>3. Shared!newAt(0) \in Shared!Bucket /\ Shared!newAt(0).last = 0
    <2>1. SharedFacts!newAt(0) \in SharedFacts!Bucket /\ SharedFacts!newAt(0).last = 0
      BY SharedFacts!NewIsFull, ConstantsArePositive
    <2> QED
      BY <2>1, SharedNames
  <1>4. Flying = {} /\ Resolving = {}
    BY <1>1 DEF Flying, Resolving
  <1>5. IsFiniteSet(Flying) /\ Cardinality(Flying) = 0 /\ Cardinality(Resolving) = 0
    BY <1>4, FS_EmptySet
  <1>6. TypeOK
    <2>1. clock \in 0 .. MaxTime
      BY <1>1, AdmissionAssumption
    <2>2. told \in [by : {"nobody", "own", "shared"}, until : Nat, earned : Nat,
                    drawn : SUBSET {"own", "shared"}]
      BY <1>1, UntoldIsTyped
    <2>3. window \in [from : Nat, resolved : Int, asked : Int]
      BY <1>1
    <2> QED
      BY <1>1, <1>2, <1>3, <2>1, <2>2, <2>3 DEF TypeOK
  <1>7. ReadBefore
    BY <1>1, <1>2, <1>3 DEF ReadBefore
  <1>8. ShareAccounted
    <2>1. own[Caller] \in Own!Bucket /\ own[Caller].last = 0
      BY <1>1, <1>2, ConstantsArePositive
    <2>2. Paid(own[Caller], 0, 0)
      BY <2>1, NothingIsPaid
    <2>3. /\ window.from = 0 /\ window.resolved + Cardinality(Resolving) = 0
          /\ window.asked + Cardinality(Flying) = 0
      BY <1>1, <1>5
    <2> QED
      BY <1>5, <2>2, <2>3 DEF ShareAccounted
  <1>9. OwnPromise /\ SharedPromise
    BY <1>1 DEF OwnPromise, SharedPromise, Untold
  <1> QED
    BY <1>6, <1>7, <1>8, <1>9 DEF IInv

\* Every step keeps the accounts and the promises.
LEMMA StepHolds == IInv /\ [Next]_vars => IInv'
  <1> SUFFICES ASSUME IInv, [Next]_vars PROVE IInv'
    OBVIOUS
  <1>1. TypeOK /\ ReadBefore /\ ShareAccounted /\ OwnPromise /\ SharedPromise
    BY DEF IInv
  <1>2. ASSUME NEW k \in Clients, OwnLimit(k) PROVE IInv'
    BY <1>1, <1>2, OwnLimitKeepsTypes, OwnLimitKeepsAccounts, OwnLimitKeepsPromises DEF IInv
  <1>3. ASSUME NEW k \in Clients, Resolve(k) PROVE IInv'
    BY <1>1, <1>3, ResolveKeepsTypes, ResolveKeepsAccounts, ResolveKeepsPromises DEF IInv
  <1>4. ASSUME NEW k \in Clients, GlobalLimit(k) PROVE IInv'
    BY <1>1, <1>4, GlobalLimitKeepsTypes, GlobalLimitKeepsAccounts, GlobalLimitKeepsPromises
    DEF IInv
  <1>5. CASE Tick
    <2>1. ShareAccounted'
      BY <1>1, <1>5 DEF Tick, ShareAccounted, Flying, Resolving, Caller
    <2> QED
      BY <1>1, <1>5, <2>1, TickKeepsTypes, TickKeepsPromises DEF IInv
  <1>6. CASE Watch
    <2>1. OwnPromise' /\ SharedPromise'
      BY <1>1, <1>6 DEF Watch, OwnPromise, SharedPromise, Caller
    <2>2. IsFiniteSet(Flying)
      BY <1>1 DEF ShareAccounted
    <2> QED
      BY <1>1, <1>6, <2>1, <2>2, WatchKeepsTypes, WatchKeepsAccounts DEF IInv
  <1>7. CASE UNCHANGED vars
    <2>1. TypeOK' /\ ReadBefore' /\ OwnPromise' /\ SharedPromise'
      BY <1>1, <1>7 DEF vars, TypeOK, ReadBefore, OwnPromise, SharedPromise, Caller
    <2>2. ShareAccounted'
      BY <1>1, <1>7 DEF vars, ShareAccounted, Flying, Resolving, Caller
    <2> QED
      BY <2>1, <2>2 DEF IInv
  <1> QED
    BY <1>2, <1>3, <1>4, <1>5, <1>6, <1>7 DEF Next

\* The accounts are kept, and the promises, in every behaviour.
THEOREM Invariance == Spec => []IInv
  BY InitHolds, StepHolds, PTL DEF Spec

\* Every limit's bucket, every request's stage and what the observer keeps are what
\* they are meant to be: Broker.Issue's two limits and handleIssue's header.
THEOREM TypeCorrect == Spec => []TypeOK
  <1>1. IInv => TypeOK
    BY DEF IInv
  <1> QED
    BY <1>1, Invariance, PTL

\* However often a caller asks, by however many connections at once, what is resolved
\* for it in any period, and what it draws from the limit that all share, is at most
\* what its own limit admits in that period: callerLimit.Allow comes before any other
\* work in Broker.Issue.
THEOREM OneCallersShare == Spec => []ShareIsBounded
  <1>1. IInv => ShareIsBounded
    <2> SUFFICES ASSUME IInv PROVE ShareIsBounded
      OBVIOUS
    <2> DEFINE earned == OwnBurst * OwnUnit + OwnRate * (clock - window.from)
    <2>1. TypeOK /\ ReadBefore /\ ShareAccounted
      BY DEF IInv
    <2>2. /\ own[Caller] \in Own!Bucket /\ own[Caller].last <= clock
          /\ clock \in Int /\ window.from \in Int /\ window.from <= clock
          /\ window.resolved \in Int /\ window.asked \in Int
      BY <2>1, Reading, ConstantsArePositive DEF TypeOK, ReadBefore
    <2>3. Cardinality(Flying) \in Nat /\ Cardinality(Resolving) \in Nat
      BY <2>1, FlyingCounts DEF ShareAccounted
    <2>4. ASSUME NEW n \in Int, Paid(own[Caller], window.from, n)
          PROVE  n * OwnUnit <= earned
      <3>1. n * OwnUnit + Own!advanceLocked(own[Caller], clock).tokens <= earned
        BY <2>2, <2>4, ReadingKeepsPaid
      <3>2. Own!advanceLocked(own[Caller], clock).tokens \in Nat
        <4>1. Own!advanceLocked(own[Caller], clock) \in Own!Bucket
          BY <2>2, OwnBucket
        <4> QED
          BY <4>1, OwnBucket, 0 \in Int
      <3>3. n * OwnUnit \in Int /\ earned \in Int
        BY <2>2, ConstantsArePositive
      <3> HIDE DEF earned
      <3> QED
        BY <3>1, <3>2, <3>3
    <2>5. /\ Paid(own[Caller], window.from, window.resolved)
          /\ Paid(own[Caller], window.from, window.asked)
      <3>1. /\ window.resolved <= window.resolved + Cardinality(Resolving)
            /\ window.resolved + Cardinality(Resolving) \in Int
            /\ window.asked <= window.asked + Cardinality(Flying)
            /\ window.asked + Cardinality(Flying) \in Int
        BY <2>2, <2>3
      <3> QED
        BY <2>1, <2>2, <3>1, FewerArePaid DEF ShareAccounted
    <2>6. window.resolved * OwnUnit <= earned /\ window.asked * OwnUnit <= earned
      BY <2>2, <2>4, <2>5
    <2> QED
      BY <2>6 DEF ShareIsBounded
  <1> QED
    BY <1>1, Invariance, PTL

\* A client that comes back later than Retry-After said is admitted by the limit that
\* refused it, if nobody drew in between: RetryAfter rounds down to whole ticks and
\* handleIssue up to whole seconds.  By its own limit, after a refusal by the shared
\* one, only when the wait also earned the token of the refused attempt.
THEOREM HonouredRetry == Spec => HonouredRetryIsAdmitted
  <1> DEFINE Admitted ==
        /\ OwnLimit(Watched) /\ Honours /\ clock >= told.earned /\ "own" \notin told.drawn
             => stage'[Watched] # "idle"
        /\ GlobalLimit(Watched) /\ Honours /\ told.by = "shared" /\ "shared" \notin told.drawn
             => shared'.tokens < Shared!advanceLocked(shared, clock).tokens
  <1>1. ASSUME IInv, OwnLimit(Watched), Honours, clock >= told.earned, "own" \notin told.drawn
        PROVE  stage'[Watched] # "idle"
    <2> DEFINE b == Own!advanceLocked(own[CallerOf[Watched]], clock)
    <2>1. TypeOK /\ ReadBefore /\ OwnPromise /\ Watched \in Clients /\ clock \in Int
      BY <1>1, Reading, ConstantsArePositive DEF IInv
    <2>2. stage[Watched] = "idle"
      BY <1>1, <2>1, OwnLimitMeans
    <2>3. Own!Admits(b)
      BY <1>1, <2>1, <2>2 DEF OwnPromise, Honours, Caller
    <2>4. stage' = [stage EXCEPT ![Watched] = "resolve"]
      BY <1>1, <2>1, <2>3, OwnLimitMeans
    <2> QED
      BY <2>1, <2>4 DEF TypeOK
  <1>2. ASSUME IInv, GlobalLimit(Watched), Honours, told.by = "shared", "shared" \notin told.drawn
        PROVE  shared'.tokens < Shared!advanceLocked(shared, clock).tokens
    <2> DEFINE b == Shared!advanceLocked(shared, clock)
    <2>1. /\ SharedPromise /\ clock \in Int /\ b \in Shared!Bucket
          /\ SharedUnit \in Nat /\ SharedUnit >= 1
      BY <1>2, Reading, ConstantsArePositive DEF IInv
    <2>2. Shared!Admits(b)
      BY <1>2, <2>1 DEF SharedPromise, Honours
    <2>3. shared' = Shared!Spend(b)
      BY <1>2, <2>2 DEF GlobalLimit
    <2>4. shared'.tokens = b.tokens - SharedUnit
      BY <2>1, <2>2, <2>3, SharedSpends
    <2>5. b.tokens \in Int
      <3>1. \A n \in 0 .. (SharedBurst * SharedUnit) : n \in Int
        BY ConstantsArePositive
      <3> QED
        BY <2>1, <3>1 DEF Shared!Bucket, Shared!Capacity
    <2> QED
      BY <2>1, <2>4, <2>5
  <1>3. IInv /\ [Next]_vars => [Admitted]_vars
    BY <1>1, <1>2
  <1> QED
    BY <1>3, Invariance, PTL DEF Spec, HonouredRetryIsAdmitted
=============================================================================
