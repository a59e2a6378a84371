--------------------------- MODULE SnapshotProofs ---------------------------
(***************************************************************************)
(* What the SID codec and the mapping snapshot promise, for every width of *)
(* a byte and of the fields, and for every file.                           *)
(***************************************************************************)
EXTENDS Snapshot, FiniteSetTheorems, WellFoundedInduction, TLAPS

\* A set of numbers with zero, and with the next of each, has them all.
LEMMA Induction ==
  ASSUME NEW S \in SUBSET Nat, 0 \in S, \A n \in S : n + 1 \in S
  PROVE  S = Nat
  <1> DEFINE N == Nat \ S
             R == StrictSubsetOrdering(Nat)
             Upto == {0 .. n : n \in N}
  <1> SUFFICES ASSUME N # {} PROVE FALSE
    OBVIOUS
  <1>1. IsWellFoundedOn(R, FiniteSubsetsOf(Nat))
    BY FS_StrictSubsetOrderingWellFounded
  <1>2. Upto \subseteq FiniteSubsetsOf(Nat)
    <2>1. ASSUME NEW n \in Nat PROVE 0 .. n \subseteq Nat /\ IsFiniteSet(0 .. n)
      BY FS_Interval
    <2> QED
      BY <2>1 DEF FiniteSubsetsOf
  <1>3. Upto # {}
    OBVIOUS
  <1> HIDE DEF R
  <1>4. \E x \in Upto : \A y \in Upto : ~(<<y, x>> \in R)
    BY <1>1, <1>2, <1>3, WFMin
  <1>5. PICK m \in N : \A k \in N : ~(<<0 .. k, 0 .. m>> \in R)
    BY <1>4
  <1>6. m \in Nat /\ m # 0 /\ m - 1 \in Nat
    OBVIOUS
  <1>7. m - 1 \in N
    <2>1. m - 1 \in S => m - 1 + 1 \in S
      OBVIOUS
    <2> QED
      BY <1>6, <2>1
  <1>8. <<0 .. (m - 1), 0 .. m>> \in R
    <2>1. m \in 0 .. m /\ m \notin 0 .. (m - 1) /\ 0 .. (m - 1) \subseteq 0 .. m
      BY <1>6
    <2>2. 0 .. (m - 1) # 0 .. m /\ 0 .. (m - 1) \in SUBSET Nat /\ 0 .. m \in SUBSET Nat
      BY <1>6, <2>1
    <2> QED
      BY <2>1, <2>2 DEF R, StrictSubsetOrdering
  <1> QED
    BY <1>5, <1>7, <1>8

\* There is a function that takes the step from each number to the next.
LEMMA Recursion ==
  ASSUME NEW X, NEW base \in X, NEW Step, \A n \in Nat, x \in X : \E y \in X : <<n, x, y>> \in Step
  PROVE  \E f \in [Nat -> X] : f[0] = base /\ \A n \in Nat : <<n, f[n], f[n + 1]>> \in Step
  <1> DEFINE step(n, x) == CHOOSE y \in X : <<n, x, y>> \in Step
  <1>0. ASSUME NEW n \in Nat, NEW x \in X PROVE step(n, x) \in X /\ <<n, x, step(n, x)>> \in Step
    OBVIOUS
  <1> HIDE DEF step
  <1> DEFINE Partial(n) == {f \in [0 .. n -> X] :
                              f[0] = base /\ \A k \in 0 .. n : k < n => f[k + 1] = step(k, f[k])}
             S == {n \in Nat : Partial(n) # {}}
             f == [n \in Nat |-> CHOOSE g \in Partial(n) : TRUE]
  <1>1. S = Nat
    <2>1. 0 \in S
      <3>1. [k \in 0 .. 0 |-> base] \in Partial(0)
        OBVIOUS
      <3> QED
        BY <3>1
    <2>2. ASSUME NEW n \in S PROVE n + 1 \in S
      <3>1. PICK g \in [0 .. n -> X] :
              g[0] = base /\ \A k \in 0 .. n : k < n => g[k + 1] = step(k, g[k])
        OBVIOUS
      <3> DEFINE h == [k \in 0 .. n + 1 |-> IF k <= n THEN g[k] ELSE step(n, g[n])]
      <3>2. h \in [0 .. n + 1 -> X]
        <4>1. step(n, g[n]) \in X
          <5>1. n \in Nat /\ n \in 0 .. n
            OBVIOUS
          <5>2. g[n] \in X
            BY <3>1, <5>1
          <5> QED
            BY <1>0, <5>1, <5>2
        <4> QED
          BY <3>1, <4>1
      <3>3. h[0] = base
        BY <3>1
      <3>4. ASSUME NEW k \in 0 .. n + 1, k < n + 1 PROVE h[k + 1] = step(k, h[k])
        <4>1. h[k] = g[k] /\ k \in 0 .. n
          BY <3>4
        <4>2. h[k + 1] = IF k + 1 <= n THEN g[k + 1] ELSE step(n, g[n])
          BY <3>4
        <4> QED
          BY <3>1, <4>1, <4>2
      <3>5. h \in Partial(n + 1)
        BY <3>2, <3>3, <3>4
      <3> HIDE DEF h, Partial
      <3> QED
        BY <3>5
    <2> HIDE DEF S
    <2>3. S \in SUBSET Nat
      BY DEF S
    <2> QED
      BY <2>1, <2>2, <2>3, Induction
  <1>2. ASSUME NEW n \in Nat
        PROVE  /\ f[n] \in [0 .. n -> X] /\ f[n][0] = base
               /\ \A k \in 0 .. n : k < n => f[n][k + 1] = step(k, f[n][k])
    BY <1>1
  <1> HIDE DEF f, Partial, S
  <1>3. ASSUME NEW n \in Nat PROVE \A k \in Nat : k <= n => f[n + 1][k] = f[n][k]
    <2> DEFINE T == {k \in Nat : k <= n => f[n + 1][k] = f[n][k]}
    <2>1. 0 \in T
      BY <1>2
    <2>2. ASSUME NEW k \in T PROVE k + 1 \in T
      <3> SUFFICES ASSUME k + 1 <= n PROVE f[n + 1][k + 1] = f[n][k + 1]
        OBVIOUS
      <3>1. k \in 0 .. n /\ k < n /\ k \in 0 .. n + 1 /\ k < n + 1
        OBVIOUS
      <3>2. f[n][k + 1] = step(k, f[n][k])
        BY <1>2, <3>1
      <3>3. f[n + 1][k + 1] = step(k, f[n + 1][k])
        BY <1>2, <3>1
      <3> QED
        BY <3>1, <3>2, <3>3
    <2>3. T = Nat
      <3>1. T \in SUBSET Nat
        OBVIOUS
      <3> HIDE DEF T
      <3> QED
        BY <2>1, <2>2, <3>1, Induction
    <2> QED
      BY <2>3
  <1> DEFINE g == [n \in Nat |-> f[n][n]]
  <1>4. g \in [Nat -> X] /\ g[0] = base
    BY <1>2
  <1>5. ASSUME NEW n \in Nat PROVE g[n + 1] = step(n, g[n])
    <2>1. f[n + 1][n + 1] = step(n, f[n + 1][n])
      BY <1>2
    <2>2. f[n + 1][n] = f[n][n]
      <3>1. n <= n
        OBVIOUS
      <3> HIDE DEF g
      <3> QED
        BY <1>3, <3>1
    <2>3. g[n + 1] = f[n + 1][n + 1] /\ g[n] = f[n][n]
      OBVIOUS
    <2> HIDE DEF g
    <2> QED
      BY <2>1, <2>2, <2>3
  <1> HIDE DEF g
  <1>6. ASSUME NEW n \in Nat PROVE <<n, g[n], g[n + 1]>> \in Step
    BY <1>0, <1>4, <1>5
  <1> QED
    BY <1>4, <1>6
-----------------------------------------------------------------------------
\* The widths are numbers, and a byte has two values at least.
LEMMA WidthsAre ==
  /\ Byte \in Nat /\ Byte >= 2 /\ AuthorityLen \in Nat /\ AuthorityLen >= 1
  /\ SubLen \in Nat /\ SubLen >= 1 /\ MaxSubs \in Nat /\ MaxSubs >= 1 /\ MaxSubs < Byte
  BY SIDAssumption

\* A byte more has Byte times the values.
LEMMA PowerIs ==
  /\ \A n \in Nat : Power[n] \in Nat /\ Power[n] >= 1
  /\ Power[0] = 1
  /\ \A n \in Nat : Power[n + 1] = Byte * Power[n]
  <1> DEFINE Is(f) == f = [n \in Nat |-> IF n = 0 THEN 1 ELSE Byte * f[n - 1]]
             Step == {t \in Nat \X Nat \X Nat : t[3] = Byte * t[2]}
  <1>1. \E f : Is(f)
    <2>1. 1 \in Nat /\ \A n \in Nat, x \in Nat : \E y \in Nat : <<n, x, y>> \in Step
      <3>1. \A x \in Nat : Byte * x \in Nat
        BY WidthsAre
      <3> QED
        BY <3>1
    <2> HIDE DEF Step
    <2>2. PICK f \in [Nat -> Nat] : f[0] = 1 /\ \A n \in Nat : <<n, f[n], f[n + 1]>> \in Step
      BY <2>1, Recursion
    <2>3. \A n \in Nat : f[n + 1] = Byte * f[n]
      BY <2>2 DEF Step
    <2>4. \A n \in Nat : f[n] = IF n = 0 THEN 1 ELSE Byte * f[n - 1]
      <3> SUFFICES ASSUME NEW n \in Nat, n # 0 PROVE f[n] = Byte * f[n - 1]
        BY <2>2
      <3>1. n - 1 \in Nat /\ n - 1 + 1 = n
        OBVIOUS
      <3> QED
        BY <2>3, <3>1
    <2>5. Is(f)
      BY <2>2, <2>4
    <2> QED
      BY <2>5
  <1>2. Is(Power)
    <2>1. Power = CHOOSE f : Is(f)
      BY DEF Power
    <2> HIDE DEF Is
    <2> QED
      BY <1>1, <2>1
  <1>3. Power[0] = 1 /\ \A n \in Nat : Power[n + 1] = Byte * Power[n]
    <2>1. \A n \in Nat : Power[n] = IF n = 0 THEN 1 ELSE Byte * Power[n - 1]
      BY <1>2
    <2> HIDE DEF Is
    <2>2. ASSUME NEW n \in Nat PROVE Power[n + 1] = Byte * Power[n]
      <3>1. n + 1 \in Nat /\ n + 1 # 0 /\ n + 1 - 1 = n
        OBVIOUS
      <3> QED
        BY <2>1, <3>1
    <2> QED
      BY <2>1, <2>2
  <1>4. {n \in Nat : Power[n] \in Nat /\ Power[n] >= 1} = Nat
    <2> DEFINE S == {n \in Nat : Power[n] \in Nat /\ Power[n] >= 1}
    <2>1. 0 \in S
      BY <1>3
    <2>2. ASSUME NEW n \in S PROVE n + 1 \in S
      <3>1. Power[n + 1] = Byte * Power[n] /\ n \in Nat /\ Power[n] \in Nat /\ Power[n] >= 1
        BY <1>3
      <3>2. \A x, y \in Nat : x >= 1 /\ y >= 1 => x * y \in Nat /\ x * y >= 1
        OBVIOUS
      <3> QED
        BY <3>1, <3>2, WidthsAre
    <2>3. S \in SUBSET Nat
      OBVIOUS
    <2> HIDE DEF S
    <2>4. S = Nat
      BY <2>1, <2>2, <2>3, Induction
    <2> QED
      BY <2>4 DEF S
  <1> QED
    BY <1>3, <1>4

\* There is one way to divide.
LEMMA DivisionIs ==
  ASSUME NEW d \in Nat, d >= 1, NEW q \in Nat, NEW r \in Nat, r < d
  PROVE  (q * d + r) \div d = q /\ (q * d + r) % d = r
  OBVIOUS

LEMMA DivisionHas ==
  ASSUME NEW v \in Nat, NEW d \in Nat, d >= 1
  PROVE  /\ v \div d \in Nat /\ v % d \in Nat /\ v % d < d
         /\ v = (v \div d) * d + (v % d)
  <1> DEFINE q == v \div d
  <1>1. q \in Nat /\ d * q <= v /\ v < d * (q + 1)
    OBVIOUS
  <1> HIDE DEF q
  <1>2. d * q \in Nat /\ d * (q + 1) = d * q + d /\ q * d = d * q
    BY <1>1
  <1>3. PICK r \in Nat : r < d /\ v = q * d + r
    <2>1. v - d * q \in Nat /\ v - d * q < d /\ v = q * d + (v - d * q)
      BY <1>1, <1>2
    <2> QED
      BY <2>1
  <1>4. v % d = r
    BY <1>1, <1>3, DivisionIs
  <1> QED
    BY <1>1, <1>3, <1>4 DEF q

\* To divide by a product is to divide by one and then by the other.
LEMMA DivisionNests ==
  ASSUME NEW v \in Nat, NEW d \in Nat, d >= 1, NEW e \in Nat, e >= 1
  PROVE  v \div (e * d) = (v \div d) \div e
  <1> DEFINE q == v \div d
             r == v % d
             p == q \div e
             s == q % e
  <1>1. /\ q \in Nat /\ r \in Nat /\ r < d /\ v = q * d + r
        /\ p \in Nat /\ s \in Nat /\ s < e /\ q = p * e + s
    BY DivisionHas
  <1> HIDE DEF q, r, p, s
  <1>2. v = p * (e * d) + (s * d + r)
    <2>1. v = (p * e + s) * d + r
      BY <1>1
    <2>2. (p * e + s) * d = p * (e * d) + s * d
      BY <1>1
    <2> QED
      BY <2>1, <2>2, <1>1
  <1>3. s * d + r \in Nat /\ s * d + r < e * d /\ e * d \in Nat /\ e * d >= 1
    <2>1. (s + 1) * d <= e * d
      <3>1. e - (s + 1) \in Nat
        BY <1>1
      <3>2. e * d = (s + 1) * d + (e - (s + 1)) * d
        BY <1>1
      <3>3. (e - (s + 1)) * d \in Nat
        BY <3>1
      <3>4. e * d \in Nat /\ (s + 1) * d \in Nat
        BY <1>1
      <3> QED
        BY <3>2, <3>3, <3>4
    <2>2. (s + 1) * d = s * d + d /\ s * d \in Nat /\ e * d \in Nat
      BY <1>1
    <2> QED
      BY <1>1, <2>1, <2>2
  <1>4. v \div (e * d) = p
    <2> DEFINE m == e * d
               t == s * d + r
    <2>1. m \in Nat /\ m >= 1 /\ t \in Nat /\ t < m /\ v = p * m + t
      BY <1>2, <1>3
    <2> HIDE DEF m, t
    <2>2. v \div m = p
      BY <1>1, <2>1, DivisionIs
    <2> QED
      BY <2>2 DEF m
  <1> QED
    BY <1>4 DEF p, q
-----------------------------------------------------------------------------
\* Number reads one digit after the other.
LEMMA NumberReads ==
  ASSUME NEW digits \in Seq(Bytes)
  PROVE  \E f : /\ f \in [0 .. Len(digits) -> Nat]
               /\ f[0] = 0
               /\ \A n \in 1 .. Len(digits) : f[n] = f[n - 1] * Byte + digits[n]
               /\ Number(digits) = f[Len(digits)]
  <1> DEFINE L == Len(digits)
             Is(f) == f = [n \in 0 .. L |-> IF n = 0 THEN 0 ELSE f[n - 1] * Byte + digits[n]]
             Step == {t \in Nat \X Nat \X Nat : t[1] < L => t[3] = t[2] * Byte + digits[t[1] + 1]}
  <1>1. /\ L \in Nat /\ Byte \in Nat
        /\ \A n \in 1 .. L : digits[n] \in Nat
    BY WidthsAre DEF Bytes
  <1>2. \E f : Is(f)
    <2>1. 0 \in Nat /\ \A n \in Nat, x \in Nat : \E y \in Nat : <<n, x, y>> \in Step
      <3> SUFFICES ASSUME NEW n \in Nat, NEW x \in Nat PROVE \E y \in Nat : <<n, x, y>> \in Step
        OBVIOUS
      <3>1. CASE n < L
        <4>1. n + 1 \in 1 .. L
          BY <1>1, <3>1
        <4>2. x * Byte + digits[n + 1] \in Nat
          BY <1>1, <4>1
        <4> QED
          BY <4>2
      <3>2. CASE ~(n < L)
        BY <3>2
      <3> QED
        BY <3>1, <3>2
    <2> HIDE DEF Step
    <2>2. PICK g \in [Nat -> Nat] : g[0] = 0 /\ \A n \in Nat : <<n, g[n], g[n + 1]>> \in Step
      BY <2>1, Recursion
    <2>3. \A n \in Nat : n < L => g[n + 1] = g[n] * Byte + digits[n + 1]
      BY <2>2 DEF Step
    <2> DEFINE f == [n \in 0 .. L |-> g[n]]
    <2>4. ASSUME NEW n \in 0 .. L
          PROVE  f[n] = IF n = 0 THEN 0 ELSE f[n - 1] * Byte + digits[n]
      <3>1. CASE n = 0
        BY <2>2, <3>1
      <3>2. CASE n # 0
        <4>1. n - 1 \in Nat /\ n - 1 < L /\ n - 1 + 1 = n /\ n - 1 \in 0 .. L
          <5>1. L \in Nat
            BY <1>1
          <5> HIDE DEF L, f
          <5> QED
            BY <3>2, <5>1
        <4>2. g[n] = g[n - 1] * Byte + digits[n]
          BY <2>3, <4>1
        <4>3. f[n] = g[n] /\ f[n - 1] = g[n - 1]
          BY <4>1
        <4> HIDE DEF f, L
        <4> QED
          BY <3>2, <4>2, <4>3
      <3> QED
        BY <3>1, <3>2
    <2>5. f = [n \in 0 .. L |-> f[n]]
      OBVIOUS
    <2>6. Is(f)
      <3> HIDE DEF f, L
      <3> QED
        BY <2>4, <2>5
    <2> QED
      BY <2>6
  <1> DEFINE f == CHOOSE f : Is(f)
  <1>3. Is(f)
    <2> HIDE DEF Is
    <2> QED
      BY <1>2
  <1>4. Number(digits) = f[L]
    BY DEF Number
  <1> HIDE DEF f
  <1>5. \A n \in 0 .. L : f[n] = IF n = 0 THEN 0 ELSE f[n - 1] * Byte + digits[n]
    BY <1>3
  <1>6. f[0] = 0 /\ \A n \in 1 .. L : f[n] = f[n - 1] * Byte + digits[n]
    <2> HIDE DEF L, Is
    <2>1. 0 \in 0 .. L /\ \A n \in 1 .. L : n \in 0 .. L /\ n # 0
      BY <1>1
    <2> QED
      BY <1>5, <2>1
  <1>7. f \in [0 .. L -> Nat]
    <2> DEFINE S == {n \in Nat : n <= L => f[n] \in Nat}
    <2>1. 0 \in S
      BY <1>6
    <2>2. ASSUME NEW n \in S PROVE n + 1 \in S
      <3> SUFFICES ASSUME n + 1 <= L PROVE f[n + 1] \in Nat
        OBVIOUS
      <3>1. n + 1 \in 1 .. L /\ f[n] \in Nat /\ n + 1 - 1 = n
        BY <1>1
      <3>2. f[n + 1] = f[n] * Byte + digits[n + 1]
        <4>1. f[n + 1] = f[n + 1 - 1] * Byte + digits[n + 1]
          BY <1>6, <3>1
        <4> QED
          BY <3>1, <4>1
      <3>3. f[n] \in Nat /\ digits[n + 1] \in Nat /\ Byte \in Nat
        BY <1>1, <3>1
      <3>4. \A x, y, z \in Nat : x * y + z \in Nat
        OBVIOUS
      <3>5. f[n] * Byte + digits[n + 1] \in Nat
        <4> HIDE DEF L, S
        <4> QED
          BY <3>3, <3>4
      <3> QED
        BY <3>2, <3>5, Zenon
    <2>3. S \in SUBSET Nat
      OBVIOUS
    <2>4. S = Nat
      <3> HIDE DEF S
      <3> QED
        BY <2>1, <2>2, <2>3, Induction
    <2>5. \A n \in 0 .. L : f[n] \in Nat
      BY <1>1, <2>4
    <2>6. f = [n \in 0 .. L |-> f[n]]
      <3>1. \E d : f = [n \in 0 .. L |-> d[n]]
        <4>1. f = [n \in 0 .. L |-> [m \in 0 .. L |-> IF m = 0 THEN 0 ELSE f[m - 1] * Byte + digits[m]][n]]
          BY <1>3
        <4> QED
          BY <4>1
      <3> QED
        BY <3>1
    <2> HIDE DEF L, Is
    <2> QED
      BY <2>5, <2>6
  <1> QED
    BY <1>4, <1>6, <1>7

\* The same, of so many digits.
LEMMA NumberReadsTo ==
  ASSUME NEW n \in Nat, NEW digits \in Seq(Bytes), Len(digits) = n
  PROVE  \E f \in [0 .. n -> Nat] :
           /\ f[0] = 0
           /\ \A k \in 1 .. n : f[k] = f[k - 1] * Byte + digits[k]
           /\ Number(digits) = f[n]
  BY NumberReads

\* The digits of a number, the most significant first, are read as the number.
LEMMA NumberOfDigits ==
  ASSUME NEW n \in Nat, NEW v \in 0 .. Power[n] - 1, NEW digits \in Seq(Bytes),
         Len(digits) = n,
         \A i \in 1 .. n : digits[i] = (v \div Power[n - i]) % Byte
  PROVE  Number(digits) = v
  <1>1. PICK f \in [0 .. n -> Nat] :
          /\ f[0] = 0
          /\ \A k \in 1 .. n : f[k] = f[k - 1] * Byte + digits[k]
          /\ Number(digits) = f[n]
    BY NumberReadsTo
  <1>2. \A k \in Nat : Power[k] \in Nat /\ Power[k] >= 1
    BY PowerIs
  <1>3. v \in Nat /\ v < Power[n] /\ Byte \in Nat /\ Byte >= 1
    BY <1>2, WidthsAre
  <1> DEFINE S == {k \in Nat : k <= n => f[k] = v \div Power[n - k]}
  <1>4. 0 \in S
    <2>1. v \div Power[n] = 0
      <3>1. 0 * Power[n] + v = v
        BY <1>2, <1>3
      <3>2. (0 * Power[n] + v) \div Power[n] = 0
        BY <1>2, <1>3, DivisionIs
      <3> QED
        BY <3>1, <3>2
    <2> QED
      BY <1>1, <2>1
  <1>5. ASSUME NEW k \in S PROVE k + 1 \in S
    <2> SUFFICES ASSUME k + 1 <= n PROVE f[k + 1] = v \div Power[n - (k + 1)]
      OBVIOUS
    <2> DEFINE p == Power[n - (k + 1)]
               q == v \div p
    <2>1. n - (k + 1) \in Nat /\ n - (k + 1) + 1 = n - k /\ k + 1 \in 1 .. n /\ k + 1 - 1 = k
      OBVIOUS
    <2>2. p \in Nat /\ p >= 1 /\ Power[n - k] = Byte * p
      <3>1. Power[n - (k + 1) + 1] = Byte * p
        BY <2>1, PowerIs
      <3> QED
        BY <1>2, <2>1, <3>1
    <2>3. f[k] = v \div (Byte * p)
      BY <2>1, <2>2
    <2>4. f[k + 1] = f[k] * Byte + digits[k + 1] /\ digits[k + 1] = q % Byte
      <3>1. f[k + 1] = f[k + 1 - 1] * Byte + digits[k + 1]
        BY <1>1, <2>1
      <3> QED
        BY <2>1, <3>1
    <2> HIDE DEF p, S
    <2>5. v \div (Byte * p) = q \div Byte /\ q \in Nat
      <3>1. v \div (Byte * p) = (v \div p) \div Byte
        BY <1>3, <2>2, DivisionNests, SMTT(30)
      <3>2. v \div p \in Nat
        BY <1>3, <2>2, DivisionHas
      <3> QED
        BY <3>1, <3>2
    <2> HIDE DEF q
    <2>6. q = (q \div Byte) * Byte + (q % Byte)
      BY <1>3, <2>5, DivisionHas
    <2>7. f[k + 1] = q
      BY <2>3, <2>4, <2>5, <2>6
    <2> QED
      BY <2>7 DEF q, p
  <1>6. S = Nat
    <2>1. S \in SUBSET Nat
      OBVIOUS
    <2> HIDE DEF S
    <2> QED
      BY <1>4, <1>5, <2>1, Induction
  <1>7. f[n] = v \div Power[0]
    <2>1. n - n = 0 /\ n <= n
      OBVIOUS
    <2> QED
      BY <1>6, <2>1
  <1>8. v \div 1 = v
    BY <1>3
  <1> QED
    BY <1>1, <1>7, <1>8, PowerIs

\* What digits are read as has those digits, and fits their number.
LEMMA DigitsOfNumber ==
  ASSUME NEW n \in Nat, NEW digits \in Seq(Bytes), Len(digits) = n
  PROVE  /\ Number(digits) \in 0 .. Power[n] - 1
         /\ \A i \in 1 .. n : (Number(digits) \div Power[n - i]) % Byte = digits[i]
  <1>1. PICK f \in [0 .. n -> Nat] :
          /\ f[0] = 0
          /\ \A k \in 1 .. n : f[k] = f[k - 1] * Byte + digits[k]
          /\ Number(digits) = f[n]
    BY NumberReadsTo
  <1>2. \A k \in Nat : Power[k] \in Nat /\ Power[k] >= 1
    BY PowerIs
  <1>3. /\ Byte \in Nat /\ Byte >= 1
        /\ \A k \in 1 .. n : digits[k] \in Nat /\ digits[k] < Byte
    BY WidthsAre DEF Bytes
  <1>4. \A k \in 0 .. n : f[k] < Power[k]
    <2> DEFINE S == {k \in Nat : k <= n => f[k] < Power[k]}
    <2>1. 0 \in S
      <3>1. f[0] < Power[0]
        BY <1>1, PowerIs
      <3> QED
        BY <3>1
    <2>2. ASSUME NEW k \in S PROVE k + 1 \in S
      <3> SUFFICES ASSUME k + 1 <= n PROVE f[k + 1] < Power[k + 1]
        OBVIOUS
      <3>1. k \in 0 .. n /\ k + 1 \in 1 .. n /\ k + 1 - 1 = k /\ f[k] < Power[k]
        OBVIOUS
      <3>2. f[k + 1] = f[k] * Byte + digits[k + 1]
        <4>1. f[k + 1] = f[k + 1 - 1] * Byte + digits[k + 1]
          BY <1>1, <3>1
        <4> QED
          BY <3>1, <4>1
      <3>3. Power[k + 1] = Byte * Power[k]
        BY PowerIs
      <3>4. \A x, y, d \in Nat : x < y /\ d < Byte => x * Byte + d < Byte * y
        <4> SUFFICES ASSUME NEW x \in Nat, NEW y \in Nat, NEW d \in Nat, x < y, d < Byte
                     PROVE  x * Byte + d < Byte * y
          OBVIOUS
        <4>1. Byte * y = Byte * (x + 1) + Byte * (y - (x + 1))
          BY <1>3
        <4>2. Byte * (y - (x + 1)) \in Nat
          BY <1>3
        <4>3. Byte * (x + 1) = x * Byte + Byte /\ x * Byte \in Nat
          BY <1>3
        <4>4. \A a, b, c \in Nat : d < c => a + d < a + c + b
          OBVIOUS
        <4>5. x * Byte + d < x * Byte + Byte + Byte * (y - (x + 1))
          BY <1>3, <4>2, <4>3, <4>4
        <4> QED
          BY <4>1, <4>3, <4>5
      <3>5. f[k] \in Nat /\ Power[k] \in Nat /\ digits[k + 1] \in Nat /\ digits[k + 1] < Byte
        BY <1>2, <1>3, <3>1
      <3> HIDE DEF S
      <3> QED
        BY <3>1, <3>2, <3>3, <3>4, <3>5
    <2>3. S = Nat
      <3>1. S \in SUBSET Nat
        OBVIOUS
      <3> HIDE DEF S
      <3> QED
        BY <2>1, <2>2, <3>1, Induction
    <2> QED
      BY <2>3
  <1>5. ASSUME NEW k \in 1 .. n PROVE f[k] \div Byte = f[k - 1] /\ f[k] % Byte = digits[k]
    <2>1. f[k - 1] \in Nat /\ digits[k] \in Nat /\ digits[k] < Byte
      BY <1>3
    <2>2. /\ (f[k - 1] * Byte + digits[k]) \div Byte = f[k - 1]
          /\ (f[k - 1] * Byte + digits[k]) % Byte = digits[k]
      BY <1>3, <2>1, DivisionIs
    <2> QED
      BY <1>1, <2>2
  <1> DEFINE T == {j \in Nat : j <= n => f[n] \div Power[j] = f[n - j]}
  <1>6. 0 \in T
    <2>1. f[n] \in Nat /\ n - 0 = n
      OBVIOUS
    <2>2. f[n] \div 1 = f[n]
      BY <2>1
    <2> QED
      BY <2>1, <2>2, PowerIs
  <1>7. ASSUME NEW j \in T PROVE j + 1 \in T
    <2> SUFFICES ASSUME j + 1 <= n PROVE f[n] \div Power[j + 1] = f[n - (j + 1)]
      OBVIOUS
    <2>1. f[n] \div Power[j] = f[n - j] /\ n - j \in 1 .. n /\ n - j - 1 = n - (j + 1) /\ j \in Nat
      OBVIOUS
    <2>2. Power[j + 1] = Byte * Power[j] /\ Power[j] \in Nat /\ Power[j] >= 1
      BY PowerIs
    <2>3. f[n] \in Nat
      OBVIOUS
    <2> HIDE DEF T
    <2>4. f[n] \div (Byte * Power[j]) = (f[n] \div Power[j]) \div Byte
      BY <1>3, <2>2, <2>3, DivisionNests
    <2>5. f[n - j] \div Byte = f[n - j - 1]
      BY <1>5, <2>1
    <2> QED
      BY <2>1, <2>2, <2>4, <2>5
  <1>8. T = Nat
    <2>1. T \in SUBSET Nat
      OBVIOUS
    <2> HIDE DEF T
    <2> QED
      BY <1>6, <1>7, <2>1, Induction
  <1>9. ASSUME NEW i \in 1 .. n PROVE (f[n] \div Power[n - i]) % Byte = digits[i]
    <2>1. n - i \in Nat /\ n - i <= n /\ n - (n - i) = i
      OBVIOUS
    <2>2. f[n] \div Power[n - i] = f[i]
      BY <1>8, <2>1
    <2> QED
      BY <1>5, <2>2
  <1>10. f[n] \in 0 .. Power[n] - 1
    <2>1. n \in 0 .. n /\ f[n] \in Nat /\ f[n] < Power[n] /\ Power[n] \in Nat
      BY <1>2, <1>4
    <2> QED
      BY <2>1
  <1> QED
    BY <1>1, <1>9, <1>10
-----------------------------------------------------------------------------
\* Byte i of sub-authority j, and the other way round.
LEMMA ByteAt ==
  ASSUME NEW m \in Nat, NEW j \in 1 .. m, NEW i \in 1 .. SubLen
  PROVE  \E k \in 1 .. SubLen * m :
           k = (j - 1) * SubLen + i /\ (k - 1) \div SubLen = j - 1 /\ (k - 1) % SubLen = i - 1
  <1> DEFINE p == (j - 1) * SubLen
  <1>1. /\ SubLen \in Nat /\ SubLen >= 1 /\ j - 1 \in Nat /\ i - 1 \in Nat /\ i - 1 < SubLen
        /\ m - j \in Nat
    BY WidthsAre
  <1>2. (p + (i - 1)) \div SubLen = j - 1 /\ (p + (i - 1)) % SubLen = i - 1
    BY <1>1, DivisionIs
  <1>3. p + i \in 1 .. SubLen * m
    <2>1. SubLen * m = p + SubLen + SubLen * (m - j)
      BY <1>1
    <2>2. p \in Nat /\ SubLen * (m - j) \in Nat /\ SubLen * m \in Nat
      BY <1>1
    <2>3. \A a, b, c \in Nat : c = a + SubLen + b => a + i \in 1 .. c
      BY <1>1
    <2> HIDE DEF p
    <2> QED
      BY <2>1, <2>2, <2>3
  <1>4. p \in Int
    BY <1>1
  <1> DEFINE all == 1 .. SubLen * m
  <1>5. p + i \in all
    BY <1>3
  <1> HIDE DEF p, all
  <1>6. p + i - 1 = p + (i - 1)
    BY <1>1, <1>4
  <1>7. PICK k \in all : k = p + i
    BY <1>5
  <1>8. k - 1 = p + (i - 1)
    BY <1>4, <1>6, <1>7
  <1>9. (k - 1) \div SubLen = j - 1 /\ (k - 1) % SubLen = i - 1
    BY <1>2, <1>8
  <1> QED
    BY <1>7, <1>9 DEF p, all

LEMMA ByteOf ==
  ASSUME NEW m \in Nat, NEW k \in 1 .. SubLen * m
  PROVE  \E j \in 1 .. m : \E i \in 1 .. SubLen : k = (j - 1) * SubLen + i
  <1> DEFINE q == (k - 1) \div SubLen
             r == (k - 1) % SubLen
  <1>1. SubLen \in Nat /\ SubLen >= 1 /\ k - 1 \in Nat /\ SubLen * m \in Nat
    BY WidthsAre
  <1>2. q \in Nat /\ r \in Nat /\ r < SubLen /\ k - 1 = q * SubLen + r
    BY <1>1, DivisionHas
  <1> HIDE DEF q, r
  <1>3. q < m
    <2> SUFFICES ASSUME q >= m PROVE FALSE
      BY <1>2
    <2>1. q * SubLen = SubLen * m + SubLen * (q - m)
      BY <1>1, <1>2
    <2>2. SubLen * (q - m) \in Nat
      BY <1>1, <1>2
    <2>3. \A a, b, c \in Nat : ~(k - 1 = a + r /\ a = c + b /\ k <= c)
      BY <1>1, <1>2
    <2> QED
      BY <1>1, <1>2, <2>1, <2>2, <2>3
  <1>4. k = q * SubLen + (r + 1)
    BY <1>1, <1>2
  <1>5. PICK j \in 1 .. m, i \in 1 .. SubLen : q = j - 1 /\ r + 1 = i
    <2>1. q + 1 \in 1 .. m /\ r + 1 \in 1 .. SubLen /\ q = q + 1 - 1
      BY <1>1, <1>2, <1>3
    <2>2. PICK j \in 1 .. m : j = q + 1
      BY <2>1
    <2>3. PICK i \in 1 .. SubLen : i = r + 1
      BY <2>1
    <2>4. q = j - 1 /\ r + 1 = i
      BY <1>2, <2>2, <2>3
    <2> QED
      BY <2>4
  <1> QED
    BY <1>4, <1>5, Zenon

\* Both validators accept the same texts, and what encoding's makes of them.
LEMMA ParsedIs ==
  ASSUME NEW t \in Text
  PROVE  /\ ~ValidateSIDString(t) => parseSID(t) = Refused
         /\ ValidateSIDString(t) =>
              /\ t.prefix = TRUE /\ t.parts \in Seq(Part)
              /\ Len(t.parts) \in Nat /\ Len(t.parts) - 1 \in 1 .. MaxSubs
              /\ t.parts[1].form = "decimal" /\ t.parts[1].value \in 0 .. MaxAuthority
              /\ \A j \in 1 .. Len(t.parts) - 1 :
                    t.parts[j + 1].form = "decimal" /\ t.parts[j + 1].value \in 0 .. MaxSub
              /\ parseSID(t) \in Parsed /\ parseSID(t) # Refused
              /\ parseSID(t) =
                   [authority |-> t.parts[1].value,
                    subs |-> [j \in 1 .. Len(t.parts) - 1 |-> t.parts[j + 1].value]]
  <1>1. /\ t.parts \in Seq(Part) /\ Len(t.parts) \in Nat /\ t.prefix \in BOOLEAN
        /\ \A i \in 1 .. Len(t.parts) : t.parts[i] \in Part /\ t.parts[i].value \in Nat
    <2>1. t.parts \in Seq(Part) /\ t.prefix \in BOOLEAN
      BY DEF Text
    <2>2. \A p \in Part : p.value \in Nat
      BY DEF Part
    <2>3. Len(t.parts) \in Nat /\ \A i \in 1 .. Len(t.parts) : t.parts[i] \in Part
      BY <2>1
    <2> QED
      BY <2>1, <2>2, <2>3
  <1>2. Len(t.parts) >= 2 => Len(Tail(t.parts)) = Len(t.parts) - 1
    BY <1>1
  <1>3. CASE ~ValidateSIDString(t)
    BY <1>2, <1>3 DEF ValidateSIDString, parseSID, parseCanonicalUint, parseSIDUint
  <1>4. CASE ValidateSIDString(t)
    <2>1. /\ Len(t.parts) >= 2 /\ t.prefix /\ Len(t.parts) - 1 <= MaxSubs
          /\ t.parts[1].form = "decimal" /\ t.parts[1].value <= MaxAuthority
          /\ \A i \in 2 .. Len(t.parts) : t.parts[i].form = "decimal" /\ t.parts[i].value <= MaxSub
      BY <1>4 DEF ValidateSIDString, parseCanonicalUint
    <2>2. Len(t.parts) - 1 \in 1 .. MaxSubs /\ MaxAuthority \in Int /\ MaxSub \in Int
      <3>1. Power[AuthorityLen] \in Nat /\ Power[SubLen] \in Nat
        BY WidthsAre, PowerIs
      <3>2. MaxAuthority \in Int /\ MaxSub \in Int
        BY <3>1 DEF MaxAuthority, MaxSub
      <3> QED
        BY <1>1, <2>1, <3>2, WidthsAre
    <2>3. t.parts[1].value \in 0 .. MaxAuthority
      BY <1>1, <2>1, <2>2
    <2>4. ASSUME NEW j \in 1 .. Len(t.parts) - 1
          PROVE  t.parts[j + 1].form = "decimal" /\ t.parts[j + 1].value \in 0 .. MaxSub
      <3>1. j + 1 \in 2 .. Len(t.parts)
        BY <1>1
      <3> QED
        BY <1>1, <2>1, <2>2, <3>1
    <2>5. parseSID(t) = [authority |-> t.parts[1].value,
                         subs |-> [j \in 1 .. Len(t.parts) - 1 |-> t.parts[j + 1].value]]
      BY <1>2, <2>1 DEF parseSID, parseSIDUint
    <2>6. parseSID(t) \in Parsed
      <3>1. t.parts[1].value \in Nat /\ \A j \in 1 .. Len(t.parts) - 1 : t.parts[j + 1].value \in Nat
        BY <1>1, <2>2, <2>3, <2>4
      <3>2. [j \in 1 .. Len(t.parts) - 1 |-> t.parts[j + 1].value] \in Seq(Nat)
        BY <1>1, <2>2, <3>1
      <3> QED
        BY <2>5, <3>1, <3>2 DEF Parsed
    <2> QED
      BY <1>1, <1>4, <2>1, <2>2, <2>3, <2>4, <2>5, <2>6, RefusedAssumption
  <1> QED
    BY <1>3, <1>4

\* The two fields of numbers, a byte at a time.
LEMMA FieldsAre ==
  /\ \A v \in Nat : /\ BigEndian(v) \in Seq(Bytes) /\ Len(BigEndian(v)) = AuthorityLen
                    /\ LittleEndian(v) \in Seq(Bytes) /\ Len(LittleEndian(v)) = SubLen
  /\ \A v \in Nat, k \in Nat : (v \div Power[k]) % Byte \in Bytes
  <1>1. ASSUME NEW v \in Nat, NEW k \in Nat PROVE (v \div Power[k]) % Byte \in Bytes
    <2>1. Power[k] \in Nat /\ Power[k] >= 1 /\ Byte \in Nat /\ Byte >= 1
      BY PowerIs, WidthsAre
    <2>2. v \div Power[k] \in Nat
      BY <2>1, DivisionHas
    <2>3. (v \div Power[k]) % Byte \in Nat /\ (v \div Power[k]) % Byte < Byte
      BY <2>1, <2>2, DivisionHas
    <2> QED
      BY <2>1, <2>3 DEF Bytes
  <1>2. ASSUME NEW v \in Nat PROVE BigEndian(v) \in Seq(Bytes) /\ Len(BigEndian(v)) = AuthorityLen
    <2>1. \A i \in 1 .. AuthorityLen : (v \div Power[AuthorityLen - i]) % Byte \in Bytes
      BY <1>1, WidthsAre
    <2> QED
      BY <2>1, WidthsAre DEF BigEndian
  <1>3. ASSUME NEW v \in Nat PROVE LittleEndian(v) \in Seq(Bytes) /\ Len(LittleEndian(v)) = SubLen
    <2>1. \A i \in 1 .. SubLen : (v \div Power[i - 1]) % Byte \in Bytes
      BY <1>1, WidthsAre
    <2> QED
      BY <2>1, WidthsAre DEF LittleEndian
  <1> QED
    BY <1>1, <1>2, <1>3

LEMMA ConcatenatedIs ==
  ASSUME NEW subs \in Seq(Nat)
  PROVE  /\ Concatenated(subs) \in Seq(Bytes)
         /\ Len(Concatenated(subs)) = SubLen * Len(subs)
         /\ \A j \in 1 .. Len(subs) : \A i \in 1 .. SubLen :
              /\ (j - 1) * SubLen + i \in 1 .. SubLen * Len(subs)
              /\ Concatenated(subs)[(j - 1) * SubLen + i] = (subs[j] \div Power[i - 1]) % Byte
  <1> DEFINE m == Len(subs)
             all == SubLen * m
             at(k) == LittleEndian(subs[((k - 1) \div SubLen) + 1])[((k - 1) % SubLen) + 1]
  <1>1. m \in Nat /\ SubLen \in Nat /\ all \in Nat
    BY WidthsAre
  <1>2. Concatenated(subs) = [k \in 1 .. all |-> at(k)]
    BY DEF Concatenated
  <1>3. ASSUME NEW j \in 1 .. m, NEW i \in 1 .. SubLen
        PROVE  /\ (j - 1) * SubLen + i \in 1 .. all
               /\ at((j - 1) * SubLen + i) = (subs[j] \div Power[i - 1]) % Byte
               /\ at((j - 1) * SubLen + i) \in Bytes
    <2>1. PICK k \in 1 .. all :
            k = (j - 1) * SubLen + i /\ (k - 1) \div SubLen = j - 1 /\ (k - 1) % SubLen = i - 1
      <3>1. m \in Nat /\ j \in 1 .. m
        BY <1>1
      <3> HIDE DEF m, at
      <3> QED
        BY <3>1, ByteAt DEF all
    <2>2. j - 1 + 1 = j /\ i - 1 + 1 = i /\ i - 1 \in Nat /\ subs[j] \in Nat
      BY <1>1
    <2>3. at(k) = LittleEndian(subs[j])[i]
      <3>1. at(k) = LittleEndian(subs[j - 1 + 1])[i - 1 + 1]
        BY <2>1, Zenon
      <3> QED
        BY <2>2, <3>1, Zenon
    <2>4. LittleEndian(subs[j])[i] = (subs[j] \div Power[i - 1]) % Byte
      BY DEF LittleEndian
    <2> HIDE DEF at, all
    <2>5. k \in 1 .. all /\ at(k) = (subs[j] \div Power[i - 1]) % Byte /\ at(k) \in Bytes
      BY <2>1, <2>2, <2>3, <2>4, FieldsAre
    <2>6. k = (j - 1) * SubLen + i
      BY <2>1
    <2> HIDE DEF Bytes
    <2> QED
      BY <2>5, <2>6, Zenon
  <1> HIDE DEF at, all
  <1>4. ASSUME NEW k \in 1 .. all PROVE at(k) \in Bytes
    <2>1. PICK j \in 1 .. m, i \in 1 .. SubLen : k = (j - 1) * SubLen + i
      BY <1>1, ByteOf DEF all
    <2> QED
      BY <1>3, <2>1
  <1>5. Concatenated(subs) \in Seq(Bytes) /\ Len(Concatenated(subs)) = all
    BY <1>1, <1>2, <1>4
  <1>6. \A k \in 1 .. all : Concatenated(subs)[k] = at(k)
    BY <1>2
  <1>7. ASSUME NEW j \in 1 .. m, NEW i \in 1 .. SubLen
        PROVE  /\ (j - 1) * SubLen + i \in 1 .. all
               /\ Concatenated(subs)[(j - 1) * SubLen + i] = (subs[j] \div Power[i - 1]) % Byte
    BY <1>3, <1>6
  <1> QED
    BY <1>5, <1>7 DEF all

LEMMA BytesAreNumbers == \A s \in Seq(Bytes) : s \in Seq(Nat)
  <1> SUFFICES ASSUME NEW s \in Seq(Bytes) PROVE s \in Seq(Nat)
    OBVIOUS
  <1>1. \A b \in Bytes : b \in Nat
    BY WidthsAre DEF Bytes
  <1> HIDE DEF Bytes
  <1>2. Len(s) \in Nat /\ \A k \in 1 .. Len(s) : s[k] \in Nat
    BY <1>1
  <1>3. s = [k \in 1 .. Len(s) |-> s[k]]
    OBVIOUS
  <1> QED
    BY <1>2, <1>3

\* What lies where in two sequences, one after the other.
LEMMA JoinFacts ==
  ASSUME NEW S, NEW s \in Seq(S), NEW t \in Seq(S)
  PROVE  /\ s \o t \in Seq(S) /\ Len(s \o t) = Len(s) + Len(t)
         /\ \A k \in 1 .. Len(s) : (s \o t)[k] = s[k]
         /\ \A k \in 1 .. Len(t) : (s \o t)[Len(s) + k] = t[k]
  OBVIOUS

\* What MarshalSID writes, byte by byte: it refuses what the mapping refuses.
LEMMA MarshalIs ==
  ASSUME NEW t \in Text
  PROVE  /\ ~ValidateSIDString(t) => MarshalSID(t) = Refused
         /\ ValidateSIDString(t) =>
              /\ MarshalSID(t) \in Seq(Bytes) /\ MarshalSID(t) # Refused
              /\ Len(MarshalSID(t)) = HeaderLen + SubLen * (Len(t.parts) - 1)
              /\ MarshalSID(t)[1] = 1 /\ MarshalSID(t)[2] = Len(t.parts) - 1
              /\ \A i \in 1 .. AuthorityLen :
                   MarshalSID(t)[2 + i] = (t.parts[1].value \div Power[AuthorityLen - i]) % Byte
              /\ \A j \in 1 .. Len(t.parts) - 1 : \A i \in 1 .. SubLen :
                   MarshalSID(t)[HeaderLen + (j - 1) * SubLen + i] =
                     (t.parts[j + 1].value \div Power[i - 1]) % Byte
  <1>1. CASE ~ValidateSIDString(t)
    BY <1>1, ParsedIs DEF MarshalSID
  <1>2. CASE ValidateSIDString(t)
    <2> DEFINE m == Len(t.parts) - 1
               a == t.parts[1].value
               subs == [j \in 1 .. m |-> t.parts[j + 1].value]
               head == <<1, m>>
               first == head \o BigEndian(a)
               rest == Concatenated(subs)
    <2>1. /\ m \in 1 .. MaxSubs /\ a \in Nat
          /\ parseSID(t) # Refused
          /\ parseSID(t) = [authority |-> a, subs |-> subs]
          /\ \A j \in 1 .. m : t.parts[j + 1].value \in Nat
      <3>1. \A x, y : x \in 0 .. y => x \in Nat
        OBVIOUS
      <3> QED
        BY <1>2, <3>1, ParsedIs
    <2> HIDE DEF m, a
    <2>2. subs \in Seq(Nat) /\ Len(subs) = m /\ m \in Nat
      BY <2>1
    <2>3. head \in Seq(Bytes) /\ Len(head) = 2 /\ head[1] = 1 /\ head[2] = m
      <3>1. 1 \in Bytes /\ m \in Bytes
        BY <2>1, WidthsAre DEF Bytes
      <3> QED
        BY <3>1
    <2>4. BigEndian(a) \in Seq(Bytes) /\ Len(BigEndian(a)) = AuthorityLen
      BY <2>1, FieldsAre
    <2>5. /\ rest \in Seq(Bytes) /\ Len(rest) = SubLen * m
          /\ \A j \in 1 .. m : \A i \in 1 .. SubLen :
               /\ (j - 1) * SubLen + i \in 1 .. SubLen * m
               /\ rest[(j - 1) * SubLen + i] = (subs[j] \div Power[i - 1]) % Byte
      BY <2>2, ConcatenatedIs
    <2>6. MarshalSID(t) = first \o rest
      BY <2>1, <2>2 DEF MarshalSID
    <2>7. \A j \in 1 .. m : subs[j] = t.parts[j + 1].value
      OBVIOUS
    <2> HIDE DEF subs, head, rest
    <2>8. /\ first \in Seq(Bytes) /\ Len(first) = HeaderLen
          /\ first[1] = 1 /\ first[2] = m
          /\ \A i \in 1 .. AuthorityLen : first[2 + i] = BigEndian(a)[i]
      <3>1. /\ first \in Seq(Bytes) /\ Len(first) = Len(head) + Len(BigEndian(a))
            /\ \A k \in 1 .. Len(head) : first[k] = head[k]
            /\ \A k \in 1 .. Len(BigEndian(a)) : first[Len(head) + k] = BigEndian(a)[k]
        <4>1. head \in Seq(Bytes) /\ BigEndian(a) \in Seq(Bytes)
          BY <2>3, <2>4
        <4> QED
          BY <4>1, JoinFacts
      <3> HIDE DEF first
      <3> QED
        BY <2>3, <2>4, <3>1, WidthsAre DEF HeaderLen
    <2> HIDE DEF first
    <2>9. /\ MarshalSID(t) \in Seq(Bytes) /\ Len(MarshalSID(t)) = Len(first) + Len(rest)
          /\ \A k \in 1 .. Len(first) : MarshalSID(t)[k] = first[k]
          /\ \A k \in 1 .. Len(rest) : MarshalSID(t)[Len(first) + k] = rest[k]
      BY <2>5, <2>6, <2>8, JoinFacts
    <2>10. MarshalSID(t) # Refused
      <3>1. MarshalSID(t) \in Seq(Nat)
        BY <2>9, BytesAreNumbers
      <3> QED
        BY <3>1, RefusedAssumption
    <2>11. /\ MarshalSID(t)[1] = 1 /\ MarshalSID(t)[2] = m
           /\ Len(MarshalSID(t)) = HeaderLen + SubLen * m
      BY <2>5, <2>8, <2>9, WidthsAre DEF HeaderLen
    <2>12. ASSUME NEW i \in 1 .. AuthorityLen
           PROVE  MarshalSID(t)[2 + i] = (a \div Power[AuthorityLen - i]) % Byte
      <3>1. 2 + i \in 1 .. Len(first)
        BY <2>8, WidthsAre DEF HeaderLen
      <3>2. BigEndian(a)[i] = (a \div Power[AuthorityLen - i]) % Byte
        BY DEF BigEndian
      <3> QED
        BY <2>8, <2>9, <3>1, <3>2
    <2>13. ASSUME NEW j \in 1 .. m, NEW i \in 1 .. SubLen
           PROVE  MarshalSID(t)[HeaderLen + (j - 1) * SubLen + i] =
                    (t.parts[j + 1].value \div Power[i - 1]) % Byte
      <3> DEFINE k == (j - 1) * SubLen + i
      <3>1. k \in 1 .. Len(rest) /\ rest[k] = (subs[j] \div Power[i - 1]) % Byte
        BY <2>5
      <3>2. HeaderLen + (j - 1) * SubLen + i = Len(first) + k
        <4>1. (j - 1) * SubLen \in Int /\ HeaderLen \in Int /\ i \in Int
          BY <2>2, WidthsAre DEF HeaderLen
        <4> QED
          BY <2>8, <4>1
      <3> HIDE DEF k
      <3> QED
        BY <2>7, <2>9, <3>1, <3>2
    <2> QED
      BY <1>2, <2>9, <2>10, <2>11, <2>12, <2>13 DEF m, a
  <1> QED
    BY <1>1, <1>2
-----------------------------------------------------------------------------
\* Where a sub-authority's bytes are in a binary SID, from the first and from the
\* last.
LEMMA PlaceAt ==
  ASSUME NEW m \in Nat, NEW j \in 1 .. m, NEW i \in 1 .. SubLen
  PROVE  /\ HeaderLen + (j - 1) * SubLen + i \in HeaderLen + 1 .. HeaderLen + SubLen * m
         /\ HeaderLen + j * SubLen + 1 - i = HeaderLen + (j - 1) * SubLen + (SubLen + 1 - i)
         /\ SubLen + 1 - i \in 1 .. SubLen
  <1> DEFINE p == (j - 1) * SubLen
             all == SubLen * m
  <1>1. SubLen \in Nat /\ SubLen >= 1 /\ HeaderLen \in Nat /\ j - 1 \in Nat
    BY WidthsAre DEF HeaderLen
  <1>2. p \in Nat /\ all \in Nat /\ j * SubLen = p + SubLen
    BY <1>1
  <1>3. PICK k \in 1 .. all : k = p + i
    BY ByteAt
  <1> HIDE DEF p, all
  <1>4. HeaderLen + p + i \in HeaderLen + 1 .. HeaderLen + all
    BY <1>1, <1>2, <1>3
  <1>5. HeaderLen + j * SubLen + 1 - i = HeaderLen + p + (SubLen + 1 - i)
    BY <1>1, <1>2
  <1> QED
    BY <1>1, <1>4, <1>5 DEF p, all

\* The fields of a binary SID.
LEMMA FieldsOf ==
  ASSUME NEW b \in Seq(Bytes), NEW m \in 1 .. MaxSubs, Len(b) = HeaderLen + SubLen * m
  PROVE  /\ AuthorityOf(b) \in Seq(Bytes) /\ Len(AuthorityOf(b)) = AuthorityLen
         /\ \A i \in 1 .. AuthorityLen : AuthorityOf(b)[i] = b[2 + i]
         /\ \A j \in 1 .. m :
              /\ SubOf(b, j) \in Seq(Bytes) /\ Len(SubOf(b, j)) = SubLen
              /\ \A i \in 1 .. SubLen :
                   SubOf(b, j)[i] = b[HeaderLen + (j - 1) * SubLen + (SubLen + 1 - i)]
  <1> DEFINE all == SubLen * m
  <1>1. /\ SubLen \in Nat /\ SubLen >= 1 /\ AuthorityLen \in Nat /\ HeaderLen \in Nat
        /\ HeaderLen = 2 + AuthorityLen /\ m \in Nat /\ all \in Nat
    BY WidthsAre DEF HeaderLen
  <1>2. Len(b) = HeaderLen + all /\ \A k \in 1 .. Len(b) : b[k] \in Bytes
    OBVIOUS
  <1>3. /\ AuthorityOf(b) \in Seq(Bytes) /\ Len(AuthorityOf(b)) = AuthorityLen
        /\ \A i \in 1 .. AuthorityLen : AuthorityOf(b)[i] = b[2 + i]
    <2> HIDE DEF all
    <2>1. \A i \in 1 .. AuthorityLen : b[2 + i] \in Bytes
      BY <1>1, <1>2
    <2> QED
      BY <1>1, <2>1 DEF AuthorityOf
  <1>4. ASSUME NEW j \in 1 .. m
        PROVE  /\ SubOf(b, j) \in Seq(Bytes) /\ Len(SubOf(b, j)) = SubLen
               /\ \A i \in 1 .. SubLen :
                    SubOf(b, j)[i] = b[HeaderLen + (j - 1) * SubLen + (SubLen + 1 - i)]
    <2> DEFINE at(i) == HeaderLen + (j - 1) * SubLen + (SubLen + 1 - i)
    <2>1. ASSUME NEW i \in 1 .. SubLen
          PROVE  HeaderLen + j * SubLen + 1 - i = at(i) /\ b[at(i)] \in Bytes
      <3> DEFINE k == SubLen + 1 - i
      <3>1. HeaderLen + j * SubLen + 1 - i = at(i) /\ k \in 1 .. SubLen
        BY <1>1, PlaceAt
      <3>2. HeaderLen + (j - 1) * SubLen + k \in HeaderLen + 1 .. HeaderLen + SubLen * m
        <4> HIDE DEF k
        <4> QED
          BY <1>1, <3>1, PlaceAt
      <3>3. at(i) \in HeaderLen + 1 .. HeaderLen + all
        BY <3>2
      <3> HIDE DEF at, all
      <3>4. at(i) \in 1 .. Len(b)
        BY <1>1, <1>2, <3>3
      <3> QED
        BY <1>2, <3>1, <3>4
    <2>2. SubOf(b, j) = [i \in 1 .. SubLen |-> b[HeaderLen + j * SubLen + 1 - i]]
      BY DEF SubOf
    <2> HIDE DEF at
    <2>3. SubOf(b, j) = [i \in 1 .. SubLen |-> b[at(i)]]
      BY <2>1, <2>2, Zenon
    <2>4. /\ SubOf(b, j) \in Seq(Bytes) /\ Len(SubOf(b, j)) = SubLen
          /\ \A i \in 1 .. SubLen : SubOf(b, j)[i] = b[at(i)]
      BY <1>1, <2>1, <2>3
    <2> QED
      BY <2>4 DEF at
  <1> QED
    BY <1>3, <1>4

\* The layout of a binary SID.
WellFormed(b) == b[1] = 1 /\ b[2] \in 1 .. MaxSubs /\ Len(b) = HeaderLen + SubLen * b[2]

\* UnmarshalSID takes all that has the layout, and writes out the numbers of the
\* fields, of which none is too large.
LEMMA UnmarshalIs ==
  ASSUME NEW b \in Seq(Bytes)
  PROVE  LET t == UnmarshalSID(b)
             m == b[2]
         IN  /\ ~WellFormed(b) => t = Refused
             /\ WellFormed(b) =>
                  /\ t # Refused
                  /\ t \in Text /\ ValidateSIDString(t)
                  /\ Len(t.parts) = m + 1
                  /\ t.parts[1].value = Number(AuthorityOf(b))
                  /\ \A j \in 1 .. m : t.parts[j + 1].value = Number(SubOf(b, j))
  <1> DEFINE t == UnmarshalSID(b)
             m == b[2]
  <1>0. ~WellFormed(b) => t = Refused
    BY DEF UnmarshalSID, WellFormed
  <1> SUFFICES ASSUME WellFormed(b)
               PROVE  /\ t # Refused
                      /\ t \in Text /\ ValidateSIDString(t)
                      /\ Len(t.parts) = m + 1
                      /\ t.parts[1].value = Number(AuthorityOf(b))
                      /\ \A j \in 1 .. m : t.parts[j + 1].value = Number(SubOf(b, j))
    BY <1>0
  <1>a. Len(b) >= HeaderLen
    <2>1. m \in Nat /\ HeaderLen \in Nat /\ SubLen \in Nat
      BY WidthsAre DEF HeaderLen, WellFormed
    <2>2. SubLen * m \in Nat /\ Len(b) = HeaderLen + SubLen * m
      BY <2>1 DEF WellFormed
    <2> QED
      BY <2>1, <2>2
  <1> DEFINE field(i) == Number(IF i = 1 THEN AuthorityOf(b) ELSE SubOf(b, i - 1))
  <1>1. t = [prefix |-> TRUE, parts |-> [i \in 1 .. m + 1 |-> Decimal(field(i))]]
    BY <1>a DEF UnmarshalSID, Rendered, WellFormed
  <1>2. m \in Nat /\ m >= 1 /\ m <= MaxSubs /\ m \in 1 .. MaxSubs /\ Len(b) = HeaderLen + SubLen * m
    BY WidthsAre DEF WellFormed
  <1> HIDE DEF m, t
  <1>3. /\ AuthorityOf(b) \in Seq(Bytes) /\ Len(AuthorityOf(b)) = AuthorityLen
        /\ \A j \in 1 .. m : SubOf(b, j) \in Seq(Bytes) /\ Len(SubOf(b, j)) = SubLen
    BY <1>2, FieldsOf
  <1>4. field(1) = Number(AuthorityOf(b)) /\ field(1) \in 0 .. MaxAuthority
    BY <1>3, DigitsOfNumber, WidthsAre DEF MaxAuthority
  <1>5. ASSUME NEW j \in 1 .. m
        PROVE  field(j + 1) = Number(SubOf(b, j)) /\ field(j + 1) \in 0 .. MaxSub
    <2>1. j + 1 # 1 /\ j + 1 - 1 = j
      BY <1>2
    <2> QED
      BY <1>3, <2>1, DigitsOfNumber, WidthsAre DEF MaxSub
  <1> HIDE DEF field
  <1>6. ASSUME NEW i \in 1 .. m + 1
        PROVE  field(i) \in Nat /\ (i # 1 => field(i) <= MaxSub)
    <2>1. CASE i = 1
      BY <1>4, <2>1
    <2>2. CASE i # 1
      <3>1. i - 1 \in 1 .. m /\ i - 1 + 1 = i
        BY <1>2, <2>2
      <3>2. field(i - 1 + 1) \in 0 .. MaxSub
        BY <1>5, <3>1
      <3> QED
        BY <3>1, <3>2
    <2> QED
      BY <2>1, <2>2
  <1>7. /\ Len(t.parts) = m + 1 /\ t.prefix = TRUE
        /\ \A i \in 1 .. m + 1 : t.parts[i] = Decimal(field(i))
    BY <1>1, <1>2
  <1>8. t \in Text
    <2>1. \A i \in 1 .. m + 1 : Decimal(field(i)) \in Part
      BY <1>6 DEF Decimal, Part
    <2>2. [i \in 1 .. m + 1 |-> Decimal(field(i))] \in Seq(Part)
      BY <1>2, <2>1
    <2> QED
      BY <1>1, <2>2 DEF Text
  <1>9. \A i \in 1 .. m + 1 : t.parts[i].form = "decimal" /\ t.parts[i].value = field(i)
    <2>1. \A x : Decimal(x).form = "decimal" /\ Decimal(x).value = x
      BY DEF Decimal
    <2> QED
      BY <1>7, <2>1, Zenon
  <1>10. ValidateSIDString(t)
    <2>1. parseCanonicalUint(t.parts[1], MaxAuthority)
      <3>1. 1 \in 1 .. m + 1
        BY <1>2
      <3> QED
        BY <1>4, <1>9, <3>1 DEF parseCanonicalUint
    <2>2. ASSUME NEW i \in 2 .. Len(t.parts) PROVE parseCanonicalUint(t.parts[i], MaxSub)
      <3>1. i \in 1 .. m + 1 /\ i # 1
        BY <1>2, <1>7
      <3> QED
        BY <1>6, <1>9, <3>1 DEF parseCanonicalUint
    <2> QED
      BY <1>2, <1>7, <2>1, <2>2 DEF ValidateSIDString
  <1>11. /\ t.parts[1].value = Number(AuthorityOf(b))
         /\ \A j \in 1 .. m : t.parts[j + 1].value = Number(SubOf(b, j))
    <2>1. 1 \in 1 .. m + 1 /\ \A j \in 1 .. m : j + 1 \in 1 .. m + 1
      BY <1>2
    <2> QED
      BY <1>4, <1>5, <1>9, <2>1
  <1> QED
    BY <1>7, <1>8, <1>10, <1>11, RefusedAssumption

\* A text that is a SID is what its numbers are.
LEMMA NumbersAreTheText ==
  ASSUME NEW t \in Text, ValidateSIDString(t), NEW u \in Text, ValidateSIDString(u),
         Len(t.parts) = Len(u.parts), t.parts[1].value = u.parts[1].value,
         \A j \in 1 .. Len(t.parts) - 1 : t.parts[j + 1].value = u.parts[j + 1].value
  PROVE  t = u
  <1> DEFINE n == Len(t.parts)
  <1>1. /\ n \in Nat /\ t.prefix = TRUE /\ u.prefix = TRUE
        /\ t.parts \in Seq(Part) /\ u.parts \in Seq(Part)
    BY ParsedIs
  <1>2. /\ t.parts[1].form = "decimal" /\ u.parts[1].form = "decimal"
        /\ \A j \in 1 .. n - 1 :
             t.parts[j + 1].form = "decimal" /\ u.parts[j + 1].form = "decimal"
    BY ParsedIs
  <1>3. ASSUME NEW p \in Part, NEW q \in Part, p.form = q.form, p.value = q.value PROVE p = q
    BY <1>3 DEF Part
  <1>4. ASSUME NEW i \in 1 .. n PROVE t.parts[i] = u.parts[i]
    <2>1. t.parts[i] \in Part /\ u.parts[i] \in Part
      BY <1>1
    <2>2. t.parts[i].form = u.parts[i].form /\ t.parts[i].value = u.parts[i].value
      <3>1. CASE i = 1
        BY <1>2, <3>1
      <3>2. CASE i # 1
        <4>1. PICK j \in 1 .. n - 1 : i = j + 1
          <5>1. i - 1 \in 1 .. n - 1 /\ i = i - 1 + 1
            BY <1>1, <3>2
          <5> QED
            BY <5>1
        <4> QED
          BY <1>2, <4>1
      <3> QED
        BY <3>1, <3>2
    <2> QED
      BY <1>3, <2>1, <2>2
  <1>5. t.parts = u.parts
    BY <1>1, <1>4
  <1> QED
    BY <1>1, <1>5 DEF Text

\* What MarshalSID writes, UnmarshalSID reads.
LEMMA WrittenIsRead ==
  ASSUME NEW t \in Text, ValidateSIDString(t)
  PROVE  UnmarshalSID(MarshalSID(t)) = t
  <1> DEFINE b == MarshalSID(t)
             m == Len(t.parts) - 1
             u == UnmarshalSID(b)
  <1>1. /\ b \in Seq(Bytes) /\ Len(b) = HeaderLen + SubLen * m /\ b[1] = 1 /\ b[2] = m
        /\ \A i \in 1 .. AuthorityLen :
             b[2 + i] = (t.parts[1].value \div Power[AuthorityLen - i]) % Byte
        /\ \A j \in 1 .. m : \A i \in 1 .. SubLen :
             b[HeaderLen + (j - 1) * SubLen + i] = (t.parts[j + 1].value \div Power[i - 1]) % Byte
    BY MarshalIs
  <1>2. /\ m \in 1 .. MaxSubs /\ Len(t.parts) = m + 1
        /\ t.parts[1].value \in 0 .. MaxAuthority
        /\ \A j \in 1 .. m : t.parts[j + 1].value \in 0 .. MaxSub
    <2>1. /\ Len(t.parts) \in Nat /\ m \in 1 .. MaxSubs
          /\ t.parts[1].value \in 0 .. MaxAuthority
          /\ \A j \in 1 .. m : t.parts[j + 1].value \in 0 .. MaxSub
      <3> HIDE DEF MaxSub, MaxAuthority
      <3> QED
        BY ParsedIs, Zenon
    <2>2. Len(t.parts) = m + 1
      BY <2>1
    <2> HIDE DEF m
    <2> QED
      BY <2>1, <2>2
  <1> HIDE DEF b, m, u
  <1>3. WellFormed(b)
    BY <1>1, <1>2 DEF WellFormed
  <1>4. /\ u \in Text /\ ValidateSIDString(u) /\ Len(u.parts) = m + 1
        /\ u.parts[1].value = Number(AuthorityOf(b))
        /\ \A j \in 1 .. m : u.parts[j + 1].value = Number(SubOf(b, j))
    BY <1>1, <1>3, UnmarshalIs DEF u
  <1>5. /\ AuthorityOf(b) \in Seq(Bytes) /\ Len(AuthorityOf(b)) = AuthorityLen
        /\ \A i \in 1 .. AuthorityLen : AuthorityOf(b)[i] = b[2 + i]
        /\ \A j \in 1 .. m :
             /\ SubOf(b, j) \in Seq(Bytes) /\ Len(SubOf(b, j)) = SubLen
             /\ \A i \in 1 .. SubLen :
                  SubOf(b, j)[i] = b[HeaderLen + (j - 1) * SubLen + (SubLen + 1 - i)]
    BY <1>1, <1>2, FieldsOf
  <1>6. Number(AuthorityOf(b)) = t.parts[1].value
    <2>1. \A i \in 1 .. AuthorityLen :
            AuthorityOf(b)[i] = (t.parts[1].value \div Power[AuthorityLen - i]) % Byte
      BY <1>1, <1>5
    <2> QED
      BY <1>2, <1>5, <2>1, NumberOfDigits, WidthsAre DEF MaxAuthority
  <1>7. ASSUME NEW j \in 1 .. m PROVE Number(SubOf(b, j)) = t.parts[j + 1].value
    <2>1. ASSUME NEW i \in 1 .. SubLen
          PROVE  SubOf(b, j)[i] = (t.parts[j + 1].value \div Power[SubLen - i]) % Byte
      <3> DEFINE k == SubLen + 1 - i
      <3>1. k \in 1 .. SubLen /\ k - 1 = SubLen - i
        BY WidthsAre
      <3>2. SubOf(b, j)[i] = b[HeaderLen + (j - 1) * SubLen + k]
        BY <1>5
      <3> HIDE DEF k
      <3>3. b[HeaderLen + (j - 1) * SubLen + k] = (t.parts[j + 1].value \div Power[k - 1]) % Byte
        BY <1>1, <3>1
      <3> QED
        BY <3>1, <3>2, <3>3
    <2> QED
      BY <1>2, <1>5, <2>1, NumberOfDigits, WidthsAre DEF MaxSub
  <1>8. Len(t.parts) = Len(u.parts) /\ m = Len(t.parts) - 1 /\ ValidateSIDString(t)
    BY <1>2, <1>4 DEF m
  <1>9. u = t
    BY <1>4, <1>6, <1>7, <1>8, NumbersAreTheText
  <1> QED
    BY <1>9 DEF u, b

\* What UnmarshalSID reads, MarshalSID writes.
LEMMA ReadIsWritten ==
  ASSUME NEW b \in Seq(Bytes), WellFormed(b)
  PROVE  MarshalSID(UnmarshalSID(b)) = b
  <1> DEFINE t == UnmarshalSID(b)
             m == b[2]
             c == MarshalSID(t)
  <1>1. m \in 1 .. MaxSubs /\ Len(b) = HeaderLen + SubLen * m /\ b[1] = 1
    BY DEF WellFormed
  <1>2. /\ t \in Text /\ ValidateSIDString(t) /\ Len(t.parts) = m + 1
        /\ t.parts[1].value = Number(AuthorityOf(b))
        /\ \A j \in 1 .. m : t.parts[j + 1].value = Number(SubOf(b, j))
    BY UnmarshalIs
  <1> HIDE DEF t, m
  <1>3. /\ m \in Nat /\ m >= 1 /\ Len(t.parts) - 1 = m
        /\ SubLen \in Nat /\ SubLen >= 1 /\ AuthorityLen \in Nat /\ HeaderLen = 2 + AuthorityLen
    BY <1>1, <1>2, WidthsAre DEF HeaderLen
  <1>4. /\ c \in Seq(Bytes) /\ Len(c) = HeaderLen + SubLen * m /\ c[1] = 1 /\ c[2] = m
        /\ \A i \in 1 .. AuthorityLen :
             c[2 + i] = (t.parts[1].value \div Power[AuthorityLen - i]) % Byte
        /\ \A j \in 1 .. m : \A i \in 1 .. SubLen :
             c[HeaderLen + (j - 1) * SubLen + i] = (t.parts[j + 1].value \div Power[i - 1]) % Byte
    BY <1>2, <1>3, MarshalIs
  <1> HIDE DEF c
  <1>5. /\ AuthorityOf(b) \in Seq(Bytes) /\ Len(AuthorityOf(b)) = AuthorityLen
        /\ \A i \in 1 .. AuthorityLen : AuthorityOf(b)[i] = b[2 + i]
        /\ \A j \in 1 .. m :
             /\ SubOf(b, j) \in Seq(Bytes) /\ Len(SubOf(b, j)) = SubLen
             /\ \A i \in 1 .. SubLen :
                  SubOf(b, j)[i] = b[HeaderLen + (j - 1) * SubLen + (SubLen + 1 - i)]
    BY <1>1, FieldsOf
  <1>6. ASSUME NEW i \in 1 .. AuthorityLen PROVE c[2 + i] = b[2 + i]
    <2>1. (Number(AuthorityOf(b)) \div Power[AuthorityLen - i]) % Byte = AuthorityOf(b)[i]
      BY <1>3, <1>5, DigitsOfNumber
    <2> QED
      BY <1>2, <1>4, <1>5, <2>1
  <1>7. ASSUME NEW j \in 1 .. m, NEW i \in 1 .. SubLen
        PROVE  c[HeaderLen + (j - 1) * SubLen + i] = b[HeaderLen + (j - 1) * SubLen + i]
    <2> DEFINE k == SubLen + 1 - i
    <2>1. k \in 1 .. SubLen /\ SubLen - k = i - 1 /\ SubLen + 1 - k = i
      BY <1>3
    <2> HIDE DEF k
    <2>2. SubOf(b, j)[k] = b[HeaderLen + (j - 1) * SubLen + i]
      BY <1>5, <2>1
    <2>3. (Number(SubOf(b, j)) \div Power[SubLen - k]) % Byte = SubOf(b, j)[k]
      BY <1>3, <1>5, <2>1, DigitsOfNumber
    <2>4. (Number(SubOf(b, j)) \div Power[i - 1]) % Byte = SubOf(b, j)[k]
      BY <2>1, <2>3
    <2>5. c[HeaderLen + (j - 1) * SubLen + i] = (Number(SubOf(b, j)) \div Power[i - 1]) % Byte
      BY <1>2, <1>4
    <2> QED
      BY <2>2, <2>4, <2>5
  <1>8. ASSUME NEW k \in 1 .. Len(b) PROVE c[k] = b[k]
    <2> DEFINE all == SubLen * m
    <2>1. all \in Nat /\ Len(b) = HeaderLen + all
      BY <1>1, <1>3
    <2>2. CASE k = 1
      BY <1>1, <1>4, <2>2
    <2>3. CASE k = 2
      BY <1>4, <2>3 DEF m
    <2>4. CASE k > 2 /\ k <= HeaderLen
      <3>1. k - 2 \in 1 .. AuthorityLen /\ 2 + (k - 2) = k
        BY <1>3, <2>4
      <3> QED
        BY <1>6, <3>1
    <2>5. CASE k > HeaderLen
      <3> DEFINE l == k - HeaderLen
      <3>1. l \in 1 .. all /\ k = HeaderLen + l
        <4> HIDE DEF all
        <4> QED
          BY <1>3, <2>1, <2>5
      <3> HIDE DEF l
      <3>2. PICK j \in 1 .. m : \E i \in 1 .. SubLen : l = (j - 1) * SubLen + i
        BY <1>3, <3>1, ByteOf
      <3>3. PICK i \in 1 .. SubLen : l = (j - 1) * SubLen + i
        BY <3>2
      <3>4. k = HeaderLen + (j - 1) * SubLen + i
        <4>1. (j - 1) * SubLen \in Int /\ HeaderLen \in Int /\ i \in Int
          BY <1>3
        <4>2. PICK p \in Int : p = (j - 1) * SubLen
          BY <4>1
        <4>3. k = HeaderLen + p + i
          BY <3>1, <3>3, <4>1, <4>2
        <4> QED
          BY <4>2, <4>3
      <3> QED
        BY <1>7, <3>4
    <2> HIDE DEF all
    <2>6. k = 1 \/ k = 2 \/ (k > 2 /\ k <= HeaderLen) \/ k > HeaderLen
      BY <1>3
    <2> QED
      BY <2>2, <2>3, <2>4, <2>5, <2>6
  <1>9. c = b
    <2>1. Len(c) = Len(b) /\ c \in Seq(Bytes)
      BY <1>1, <1>4
    <2> QED
      BY <1>8, <2>1
  <1> QED
    BY <1>9 DEF c, t
-----------------------------------------------------------------------------
\* A sequence with one more.
LEMMA AppendFacts ==
  ASSUME NEW S, NEW s \in Seq(S), NEW x \in S
  PROVE  /\ Append(s, x) \in Seq(S) /\ Len(Append(s, x)) = Len(s) + 1
         /\ \A k \in 1 .. Len(s) : Append(s, x)[k] = s[k]
         /\ Append(s, x)[Len(s) + 1] = x
  OBVIOUS

\* A canonical path is resolved already.
LEMMA PlainIsResolved ==
  ASSUME NEW path \in Seq(Piece), \A n \in 1 .. Len(path) : path[n].form = "plain"
  PROVE  Resolved(path) = path
  <1> DEFINE L == Len(path)
             after(done, piece) ==
               CASE piece.form \in {"empty", "dot"} -> done
                 [] piece.form = "dotdot" -> IF done = <<>> THEN done ELSE Front(done)
                 [] piece.form = "foreign" -> Append(done, piece)
                 [] piece.form \in {"plain", "encoded"} ->
                      Append(done, [piece EXCEPT !.form = "plain"])
             Is(f) == f = [n \in 0 .. L |-> IF n = 0 THEN <<>> ELSE after(f[n - 1], path[n])]
             first(n) == [k \in 1 .. n |-> path[k]]
  <1>1. L \in Nat /\ \A n \in 1 .. L : path[n] \in Piece
    OBVIOUS
  <1>2. ASSUME NEW done, NEW n \in 1 .. L PROVE after(done, path[n]) = Append(done, path[n])
    <2>1. path[n].form = "plain" /\ path[n] = [path[n] EXCEPT !.form = "plain"]
      BY <1>1 DEF Piece
    <2> QED
      BY <2>1
  <1> HIDE DEF after
  <1>3. first(0) = <<>> /\ first(L) = path
    OBVIOUS
  <1>4. ASSUME NEW n \in 1 .. L PROVE Append(first(n - 1), path[n]) = first(n)
    <2>1. n - 1 \in Nat /\ n \in Nat
      OBVIOUS
    <2>2. first(n - 1) \in Seq(Piece) /\ Len(first(n - 1)) = n - 1 /\ path[n] \in Piece
      BY <1>1, <2>1
    <2>3. first(n) \in Seq(Piece) /\ Len(first(n)) = n
      BY <1>1, <2>1
    <2> DEFINE a == first(n - 1)
               b == Append(a, path[n])
    <2>4. \A k \in 1 .. n - 1 : a[k] = path[k]
      OBVIOUS
    <2>5. \A k \in 1 .. n : first(n)[k] = path[k]
      OBVIOUS
    <2> HIDE DEF a, first
    <2>6. /\ b \in Seq(Piece) /\ Len(b) = Len(a) + 1
          /\ \A k \in 1 .. Len(a) : b[k] = a[k]
          /\ b[Len(a) + 1] = path[n]
      <3>1. a \in Seq(Piece) /\ path[n] \in Piece
        BY <2>2 DEF a
      <3> QED
        BY <3>1, AppendFacts
    <2>7. Len(a) = n - 1
      BY <2>2 DEF a
    <2> HIDE DEF b
    <2>8. Len(b) = n /\ \A k \in 1 .. n : b[k] = path[k]
      BY <2>1, <2>4, <2>6, <2>7
    <2>9. b = first(n)
      BY <2>3, <2>5, <2>6, <2>8
    <2> QED
      BY <2>9 DEF a, b
  <1>5. \E f : Is(f)
    <2> DEFINE f == [n \in 0 .. L |-> first(n)]
    <2> HIDE DEF first
    <2>1. ASSUME NEW n \in 0 .. L
          PROVE  f[n] = IF n = 0 THEN <<>> ELSE after(f[n - 1], path[n])
      <3>1. CASE n = 0
        BY <1>3, <3>1
      <3>2. CASE n # 0
        <4>1. n \in 1 .. L /\ n - 1 \in 0 .. L
          BY <1>1, <3>2
        <4>2. f[n] = first(n) /\ f[n - 1] = first(n - 1)
          BY <4>1
        <4> QED
          BY <1>2, <1>4, <3>2, <4>1, <4>2
      <3> QED
        BY <3>1, <3>2
    <2>2. f = [n \in 0 .. L |-> f[n]]
      OBVIOUS
    <2>3. Is(f)
      <3> HIDE DEF f, L
      <3> QED
        BY <2>1, <2>2
    <2> QED
      BY <2>3
  <1> DEFINE f == CHOOSE f : Is(f)
  <1>6. Is(f)
    <2> HIDE DEF Is
    <2> QED
      BY <1>5
  <1>7. Resolved(path) = f[L]
    BY DEF Resolved, after
  <1> HIDE DEF f
  <1>8. \A n \in 0 .. L : f[n] = IF n = 0 THEN <<>> ELSE after(f[n - 1], path[n])
    BY <1>6
  <1> HIDE DEF Is, first
  <1> DEFINE S == {n \in Nat : n <= L => f[n] = first(n)}
  <1>9. 0 \in S
    <2>1. 0 \in 0 .. L
      BY <1>1
    <2> QED
      BY <1>3, <1>8, <2>1
  <1>10. ASSUME NEW n \in S PROVE n + 1 \in S
    <2> SUFFICES ASSUME n + 1 <= L PROVE f[n + 1] = first(n + 1)
      OBVIOUS
    <2>1. n + 1 \in 1 .. L /\ n + 1 \in 0 .. L /\ n + 1 # 0 /\ n + 1 - 1 = n /\ f[n] = first(n)
      BY <1>1
    <2>2. f[n + 1] = after(f[n], path[n + 1])
      BY <1>8, <2>1
    <2>3. after(f[n], path[n + 1]) = Append(f[n], path[n + 1])
      BY <1>2, <2>1
    <2>4. Append(first(n + 1 - 1), path[n + 1]) = first(n + 1)
      BY <1>4, <2>1
    <2>5. Append(first(n), path[n + 1]) = first(n + 1)
      BY <2>1, <2>4, Zenon
    <2>6. f[n] = first(n)
      BY <2>1
    <2> HIDE DEF S
    <2> QED
      BY <2>2, <2>3, <2>5, <2>6, Zenon
  <1>11. S = Nat
    <2>1. S \in SUBSET Nat
      OBVIOUS
    <2> HIDE DEF S
    <2> QED
      BY <1>9, <1>10, <2>1, Induction
  <1>12. f[L] = first(L)
    BY <1>1, <1>11
  <1> QED
    BY <1>3, <1>7, <1>12
-----------------------------------------------------------------------------
\* What a file is made of.
Document == [header : Headers \cup {"bracket"}, entries : Seq(Entry)]

IInv == bytes \in Seq(Bytes) /\ text \in Text /\ file \in Seq(Document)

\* An entry has an ID, an account and what may be its name.
LEMMA EntryIs ==
  ASSUME NEW entry \in Entry
  PROVE  entry.id \in Id /\ entry.id \in Ids /\ entry.sid \in Text
  BY SnapshotAssumption DEF Entry

\* The three inputs keep their types, whatever is written.
THEOREM Invariance == SnapshotSpec => []IInv
  <1>1. SnapshotInit => IInv
    <2> SUFFICES ASSUME SnapshotInit PROVE IInv
      OBVIOUS
    <2>1. text.prefix \in BOOLEAN /\ text.parts = <<>> /\ text = [prefix |-> text.prefix, parts |-> <<>>]
      BY DEF SnapshotInit, Init
    <2>2. text \in Text
      <3>1. <<>> \in Seq(Part)
        OBVIOUS
      <3> HIDE DEF Part
      <3> QED
        BY <2>1, <3>1 DEF Text
    <2> QED
      BY <2>2 DEF IInv, SnapshotInit, Init
  <1>2. IInv /\ [SnapshotNext]_snapshotVars => IInv'
    <2> SUFFICES ASSUME IInv, [SnapshotNext]_snapshotVars PROVE IInv'
      OBVIOUS
    <2>1. bytes \in Seq(Bytes) /\ text \in Text /\ file \in Seq(Document)
      BY DEF IInv
    <2>2. CASE \E b \in Bytes : NextByte(b) /\ UNCHANGED file
      <3>1. PICK b \in Bytes : NextByte(b) /\ UNCHANGED file
        BY <2>2
      <3>2. Append(bytes, b) \in Seq(Bytes)
        BY <2>1, AppendFacts
      <3> QED
        BY <2>1, <3>1, <3>2 DEF IInv, NextByte
    <2>3. ASSUME NEW p \in [form : {"decimal"}, value : Values]
                             \cup [form : {"padded", "other"}, value : {1}],
                 NextPart(p), UNCHANGED file
          PROVE  IInv'
      <3>1. p \in Part
        <4>1. CASE p \in [form : {"decimal"}, value : Values]
          <5>1. p.value \in Nat /\ p.form = "decimal" /\ p = [form |-> p.form, value |-> p.value]
            BY <4>1, SIDAssumption
          <5> QED
            BY <5>1 DEF Part
        <4>2. CASE p \in [form : {"padded", "other"}, value : {1}]
          BY <4>2 DEF Part
        <4> QED
          BY <2>3, <4>1, <4>2
      <3>2. text.parts \in Seq(Part)
        BY <2>1 DEF Text
      <3>3. Append(text.parts, p) \in Seq(Part)
        BY <3>1, <3>2, AppendFacts
      <3>4. text' = [text EXCEPT !.parts = Append(text.parts, p)] /\ bytes' = bytes
        BY <2>3 DEF NextPart
      <3> HIDE DEF Part
      <3>5. text' \in Text
        BY <2>1, <3>3, <3>4 DEF Text
      <3> QED
        BY <2>1, <2>3, <3>4, <3>5 DEF IInv
    <2>4. ASSUME NEW header \in Headers, BeginDocument(header) PROVE IInv'
      <3>1. [header |-> header, entries |-> <<>>] \in Document
        BY DEF Document
      <3>2. Append(file, [header |-> header, entries |-> <<>>]) \in Seq(Document)
        BY <2>1, <3>1, AppendFacts
      <3> QED
        BY <2>1, <2>4, <3>2 DEF IInv, BeginDocument, vars
    <2>5. CASE StrayBracket
      <3>1. Bracket \in Document
        BY DEF Document, Bracket
      <3>2. Append(file, Bracket) \in Seq(Document)
        BY <2>1, <3>1, AppendFacts
      <3> QED
        BY <2>1, <2>5, <3>2 DEF IInv, StrayBracket, vars
    <2>6. ASSUME NEW entry \in Entry, WriteEntry(entry) PROVE IInv'
      <3> DEFINE n == Len(file)
                 written == Append(file[n].entries, entry)
      <3>1. n \in DOMAIN file /\ n \in Nat
        <4>1. file \in Seq(Document) /\ file # <<>>
          BY <2>1, <2>6 DEF WriteEntry
        <4> HIDE DEF Document
        <4> QED
          BY <4>1
      <3>2. file[n] \in Document /\ file[n].entries \in Seq(Entry)
        <4>1. file[n] \in Document
          <5> HIDE DEF Document, n
          <5> QED
            BY <2>1, <3>1
        <4> QED
          BY <4>1 DEF Document
      <3>3. written \in Seq(Entry)
        BY <3>2, AppendFacts
      <3>4. file' = [file EXCEPT ![n] = [file[n] EXCEPT !.entries = written]]
        BY <2>6 DEF WriteEntry
      <3> HIDE DEF written
      <3>5. [file[n] EXCEPT !.entries = written] \in Document
        BY <3>2, <3>3 DEF Document
      <3> HIDE DEF n
      <3>6. file' \in Seq(Document)
        BY <2>1, <3>1, <3>4, <3>5
      <3> QED
        BY <2>1, <2>6, <3>6 DEF IInv, WriteEntry, vars
    <2>7. CASE UNCHANGED snapshotVars
      BY <2>1, <2>7 DEF IInv, snapshotVars
    <2> QED
      BY <2>2, <2>3, <2>4, <2>5, <2>6, <2>7 DEF SnapshotNext, Next
  <1> QED
    BY <1>1, <1>2, PTL DEF SnapshotSpec

\* The inputs, and what the codec makes of them, keep their types.
THEOREM TypeCorrect == SnapshotSpec => []TypeOK
  <1>1. IInv => TypeOK
    <2> SUFFICES ASSUME IInv PROVE TypeOK
      OBVIOUS
    <2>1. bytes \in Seq(Bytes) /\ text \in Text
      BY DEF IInv
    <2>2. MarshalSID(text) # Refused =>
            /\ MarshalSID(text) \in Seq(Bytes)
            /\ Len(MarshalSID(text)) = HeaderLen + SubLen * (Len(text.parts) - 1)
      BY <2>1, MarshalIs
    <2>3. UnmarshalSID(bytes) # Refused => UnmarshalSID(bytes) \in Text
      BY <2>1, UnmarshalIs
    <2> QED
      BY <2>1, <2>2, <2>3 DEF TypeOK
  <1> QED
    BY <1>1, Invariance, PTL

\* A SID has one binary form and that form is of one SID, for every width of a byte
\* and of the fields, and every number of sub-authorities.
THEOREM OneBinaryForm == SnapshotSpec => []CodecIsBijection
  <1>1. IInv => CodecIsBijection
    <2> SUFFICES ASSUME IInv PROVE CodecIsBijection
      OBVIOUS
    <2>1. bytes \in Seq(Bytes) /\ text \in Text
      BY DEF IInv
    <2>2. MarshalSID(text) # Refused => UnmarshalSID(MarshalSID(text)) = text
      BY <2>1, MarshalIs, WrittenIsRead
    <2>3. UnmarshalSID(bytes) # Refused => MarshalSID(UnmarshalSID(bytes)) = bytes
      BY <2>1, UnmarshalIs, ReadIsWritten
    <2> QED
      BY <2>2, <2>3 DEF CodecIsBijection
  <1> QED
    BY <1>1, Invariance, PTL

\* The lowest byte of the authority is the last of its field, and that of a
\* sub-authority the first of its own.
THEOREM LayoutIsMixed == SnapshotSpec => []MixedEndian
  <1>0. \A v \in Nat : v \div Power[0] = v
    <2>1. Power[0] = 1
      BY PowerIs
    <2> QED
      BY <2>1
  <1>1. IInv => MixedEndian
    <2> SUFFICES ASSUME IInv, MarshalSID(text) # Refused
                 PROVE  /\ MarshalSID(text)[HeaderLen] = text.parts[1].value % Byte
                        /\ \A i \in 2 .. Len(text.parts) :
                             MarshalSID(text)[HeaderLen + (i - 2) * SubLen + 1] =
                               text.parts[i].value % Byte
      BY DEF MixedEndian
    <2>1. text \in Text /\ ValidateSIDString(text)
      BY MarshalIs DEF IInv
    <2>2. /\ \A i \in 1 .. AuthorityLen :
               MarshalSID(text)[2 + i] =
                 (text.parts[1].value \div Power[AuthorityLen - i]) % Byte
          /\ \A j \in 1 .. Len(text.parts) - 1 : \A i \in 1 .. SubLen :
               MarshalSID(text)[HeaderLen + (j - 1) * SubLen + i] =
                 (text.parts[j + 1].value \div Power[i - 1]) % Byte
      BY <2>1, MarshalIs
    <2>3. /\ Len(text.parts) \in Nat
          /\ text.parts[1].value \in 0 .. MaxAuthority
          /\ \A j \in 1 .. Len(text.parts) - 1 : text.parts[j + 1].value \in 0 .. MaxSub
      BY <2>1, ParsedIs
    <2>4. MarshalSID(text)[HeaderLen] = text.parts[1].value % Byte
      <3>1. AuthorityLen \in 1 .. AuthorityLen /\ 2 + AuthorityLen = HeaderLen
            /\ AuthorityLen - AuthorityLen = 0
        BY WidthsAre DEF HeaderLen
      <3>2. MarshalSID(text)[2 + AuthorityLen] =
              (text.parts[1].value \div Power[AuthorityLen - AuthorityLen]) % Byte
        BY <2>2, <3>1
      <3>3. text.parts[1].value \in Nat
        BY <2>3
      <3> QED
        BY <1>0, <3>1, <3>2, <3>3
    <2>5. ASSUME NEW i \in 2 .. Len(text.parts)
          PROVE  MarshalSID(text)[HeaderLen + (i - 2) * SubLen + 1] =
                   text.parts[i].value % Byte
      <3> DEFINE j == i - 1
      <3>1. j \in 1 .. Len(text.parts) - 1 /\ j - 1 = i - 2 /\ j + 1 = i
            /\ 1 \in 1 .. SubLen /\ 1 - 1 = 0
        BY <2>3, WidthsAre
      <3> HIDE DEF j
      <3>2. MarshalSID(text)[HeaderLen + (j - 1) * SubLen + 1] =
              (text.parts[j + 1].value \div Power[1 - 1]) % Byte
        BY <2>2, <3>1
      <3>3. text.parts[j + 1].value \in Nat
        BY <2>3, <3>1
      <3> QED
        BY <1>0, <3>1, <3>2, <3>3
    <2> QED
      BY <2>4, <2>5
  <1> QED
    BY <1>1, Invariance, PTL

\* Which of one extension and of two decides.
LEMMA OneExtension ==
  ASSUME NEW e
  PROVE  SIDFromCertificateExtensions(<<e>>) =
           IF e.ntds THEN parseNTDSCASecurityExt(e) ELSE Refused
  <1> DEFINE exts == <<e>>
             ntds == {i \in DOMAIN exts : exts[i].ntds}
             first == CHOOSE i \in ntds : \A j \in ntds : i <= j
  <1>1. DOMAIN exts = {1} /\ exts[1] = e
    OBVIOUS
  <1>2. SIDFromCertificateExtensions(exts) =
          IF ntds = {} THEN Refused ELSE parseNTDSCASecurityExt(exts[first])
    BY DEF SIDFromCertificateExtensions
  <1> HIDE DEF exts
  <1>3. CASE e.ntds
    <2>1. ntds = {1}
      BY <1>1, <1>3
    <2>2. first = 1
      BY <2>1
    <2> HIDE DEF ntds, first
    <2>3. SIDFromCertificateExtensions(exts) = parseNTDSCASecurityExt(e)
      BY <1>1, <1>2, <2>1, <2>2
    <2> QED
      BY <1>3, <2>3 DEF exts
  <1>4. CASE ~e.ntds
    <2>1. ntds = {}
      BY <1>1, <1>4
    <2> HIDE DEF ntds, first
    <2>2. SIDFromCertificateExtensions(exts) = Refused
      BY <1>2, <2>1
    <2> QED
      BY <1>4, <2>2 DEF exts
  <1> QED
    BY <1>3, <1>4

LEMMA TwoExtensions ==
  ASSUME NEW e, NEW f
  PROVE  SIDFromCertificateExtensions(<<e, f>>) =
           IF e.ntds THEN parseNTDSCASecurityExt(e)
           ELSE IF f.ntds THEN parseNTDSCASecurityExt(f) ELSE Refused
  <1> DEFINE exts == <<e, f>>
             ntds == {i \in DOMAIN exts : exts[i].ntds}
             first == CHOOSE i \in ntds : \A j \in ntds : i <= j
  <1>1. DOMAIN exts = {1, 2} /\ exts[1] = e /\ exts[2] = f
    OBVIOUS
  <1>2. SIDFromCertificateExtensions(exts) =
          IF ntds = {} THEN Refused ELSE parseNTDSCASecurityExt(exts[first])
    BY DEF SIDFromCertificateExtensions
  <1> HIDE DEF exts
  <1>3. CASE e.ntds
    <2>1. 1 \in ntds /\ ntds \subseteq {1, 2}
      BY <1>1, <1>3
    <2>2. first = 1
      BY <2>1
    <2> HIDE DEF ntds, first
    <2>3. SIDFromCertificateExtensions(exts) = parseNTDSCASecurityExt(e)
      BY <1>1, <1>2, <2>1, <2>2
    <2> QED
      BY <1>3, <2>3 DEF exts
  <1>4. CASE ~e.ntds /\ f.ntds
    <2>1. ntds = {2}
      BY <1>1, <1>4
    <2>2. first = 2
      BY <2>1
    <2> HIDE DEF ntds, first
    <2>3. SIDFromCertificateExtensions(exts) = parseNTDSCASecurityExt(f)
      BY <1>1, <1>2, <2>1, <2>2
    <2> QED
      BY <1>4, <2>3 DEF exts
  <1>5. CASE ~e.ntds /\ ~f.ntds
    <2>1. ntds = {}
      BY <1>1, <1>5
    <2> HIDE DEF ntds, first
    <2>2. SIDFromCertificateExtensions(exts) = Refused
      BY <1>2, <2>1
    <2> QED
      BY <1>5, <2>2 DEF exts
  <1> QED
    BY <1>3, <1>4, <1>5

\* What adcs.verify reads from a certificate is what the mapping could hold, and
\* the two validators accept the same texts.
THEOREM VerifyAgreesWithMapping == SnapshotSpec => []VerifyReadsMapping
  <1>1. ASSUME NEW t \in Text, NEW nested \in BOOLEAN
        PROVE  /\ Extension(TRUE, nested, t).ntds = TRUE
               /\ Extension(FALSE, nested, t).ntds = FALSE
               /\ parseNTDSCASecurityExt(Extension(TRUE, nested, t)) =
                    IF nested /\ ValidateSIDString(t) THEN t ELSE Refused
    <2>1. MarshalSID(t) # Refused <=> ValidateSIDString(t)
      BY MarshalIs
    <2> QED
      BY <2>1 DEF Extension, parseNTDSCASecurityExt
  <1>2. IInv => VerifyReadsMapping
    <2> SUFFICES ASSUME IInv PROVE VerifyReadsMapping
      OBVIOUS
    <2> DEFINE unrelated == Extension(FALSE, TRUE, text)
               malformed == Extension(TRUE, FALSE, text)
               carried == Extension(TRUE, TRUE, text)
    <2>1. text \in Text
      BY DEF IInv
    <2>2. /\ unrelated.ntds = FALSE /\ malformed.ntds = TRUE /\ carried.ntds = TRUE
          /\ parseNTDSCASecurityExt(carried) = IF ValidateSIDString(text) THEN text ELSE Refused
          /\ parseNTDSCASecurityExt(malformed) = Refused
      BY <1>1, <2>1
    <2>3. ValidateSIDString(text) => BuildNTDSCASecurityExt(text) = carried
      BY <2>1, MarshalIs DEF BuildNTDSCASecurityExt
    <2> HIDE DEF unrelated, malformed, carried
    <2>4. ValidateSIDString(text) =>
            SIDFromCertificateExtensions(<<unrelated, BuildNTDSCASecurityExt(text)>>) = text
      <3>1. SIDFromCertificateExtensions(<<unrelated, carried>>) = parseNTDSCASecurityExt(carried)
        BY <2>2, TwoExtensions
      <3> QED
        BY <2>2, <2>3, <3>1
    <2>5. SIDFromCertificateExtensions(<<carried>>) =
            IF ValidateSIDString(text) THEN text ELSE Refused
      BY <2>2, OneExtension
    <2>6. SIDFromCertificateExtensions(<<unrelated>>) = Refused
      BY <2>2, OneExtension
    <2>7. SIDFromCertificateExtensions(<<malformed, carried>>) = Refused
      BY <2>2, TwoExtensions
    <2> QED
      BY <2>4, <2>5, <2>6, <2>7 DEF VerifyReadsMapping, unrelated, malformed, carried
  <1> QED
    BY <1>2, Invariance, PTL
-----------------------------------------------------------------------------
\* What a file that loads is like, and that a lookup finds each of its entries and
\* no others.
LEMMA LoadedIs ==
  ASSUME file \in Seq(Document), Loaded # Refused
  PROVE  LET entries == file[1].entries
         IN  /\ file # <<>> /\ ~More(file)
             /\ entries \in Seq(Entry)
             /\ \A i \in DOMAIN entries :
                  /\ entries[i] \in Entry /\ validEntry(entries[i])
                  /\ entries[i].id \in DOMAIN Loaded
                  /\ Lookup(Loaded, entries[i].id) =
                       [sid |-> entries[i].sid, name |-> entries[i].name]
             /\ \A id \in DOMAIN Loaded : \E i \in DOMAIN entries : entries[i].id = id
  <1> DEFINE entries == file[1].entries
             last(id) == CHOOSE i \in DOMAIN entries :
                           /\ entries[i].id = id
                           /\ \A j \in DOMAIN entries : entries[j].id = id => j <= i
  <1>1. /\ file # <<>> /\ ~More(file)
        /\ \A i \in DOMAIN entries : validEntry(entries[i])
        /\ noDuplicates(entries)
        /\ Loaded = Entries(entries)
    BY DEF Loaded, Parse
  <1>2. entries \in Seq(Entry)
    <2>1. 1 \in DOMAIN file
      <3> HIDE DEF Document
      <3> QED
        BY <1>1
    <2>2. file[1] \in Document
      <3> HIDE DEF Document
      <3> QED
        BY <2>1
    <2> QED
      BY <2>2 DEF Document
  <1> HIDE DEF entries
  <1>3. Loaded = [id \in {entries[i].id : i \in DOMAIN entries} |->
                    [sid |-> entries[last(id)].sid, name |-> entries[last(id)].name]]
    BY <1>1 DEF Entries
  <1> HIDE DEF last
  <1>4. ASSUME NEW i \in DOMAIN entries
        PROVE  /\ entries[i] \in Entry /\ entries[i].id \in DOMAIN Loaded
               /\ Lookup(Loaded, entries[i].id) =
                    [sid |-> entries[i].sid, name |-> entries[i].name]
    <2>1. entries[i] \in Entry /\ i \in Nat
      <3> HIDE DEF Entry
      <3> QED
        BY <1>2
    <2>2. last(entries[i].id) = i
      <3>1. \A j \in DOMAIN entries : entries[j].id = entries[i].id => j = i
        BY <1>1 DEF noDuplicates
      <3>2. i <= i
        BY <2>1
      <3> QED
        BY <3>1, <3>2 DEF last
    <2>3. entries[i].id \in DOMAIN Loaded
      BY <1>3
    <2>4. Loaded[entries[i].id] = [sid |-> entries[i].sid, name |-> entries[i].name]
      BY <1>3, <2>2
    <2> QED
      BY <2>1, <2>3, <2>4 DEF Lookup
  <1>5. \A id \in DOMAIN Loaded : \E i \in DOMAIN entries : entries[i].id = id
    BY <1>3
  <1> QED
    BY <1>1, <1>2, <1>4, <1>5 DEF entries

\* Every entry of a file that loads is in force, for files of any length, if no
\* stray bracket hides a part of it.
THEOREM AllInForce == SnapshotSpec => []EveryEntryIsInForce
  <1>1. IInv => EveryEntryIsInForce
    <2> SUFFICES ASSUME IInv, Loaded # Refused, Bracket \notin ToSet(file),
                        NEW i \in DOMAIN file, NEW j \in DOMAIN file[i].entries
                 PROVE  LET entry == file[i].entries[j]
                        IN  Lookup(Loaded, entry.id) = [sid |-> entry.sid, name |-> entry.name]
      BY DEF EveryEntryIsInForce
    <2>1. file \in Seq(Document)
      BY DEF IInv
    <2>2. ~More(file)
      BY <2>1, LoadedIs
    <2>3. i = 1
      <3> HIDE DEF Document
      <3>1. Len(file) \in Nat /\ DOMAIN file = 1 .. Len(file)
        BY <2>1
      <3>2. Len(file) > 1 => 2 \in DOMAIN file
        BY <3>1
      <3>3. Len(file) > 1 => file[2] \in ToSet(file)
        BY <3>2 DEF ToSet
      <3> QED
        BY <2>2, <3>1, <3>3 DEF More
    <2> QED
      BY <2>1, <2>3, LoadedIs
  <1> QED
    BY <1>1, Invariance, PTL

\* What a lookup returns can be encoded as a SID, and a name it has is one that the
\* backend takes, for names of any length.
THEOREM NoChecksAfterLookup == SnapshotSpec => []LookupNeedsNoChecks
  <1>1. IInv => LookupNeedsNoChecks
    <2> SUFFICES ASSUME IInv, Loaded # Refused, NEW id \in DOMAIN Loaded
                 PROVE  /\ MarshalSID(Loaded[id].sid) # Refused
                        /\ Loaded[id].name # NoName => validateRequesterName(Loaded[id].name)
      BY DEF LookupNeedsNoChecks
    <2>1. file \in Seq(Document)
      BY DEF IInv
    <2> DEFINE entries == file[1].entries
    <2>2. PICK i \in DOMAIN entries : entries[i].id = id
      BY <2>1, LoadedIs
    <2>3. /\ entries[i] \in Entry /\ validEntry(entries[i])
          /\ Loaded[id] = [sid |-> entries[i].sid, name |-> entries[i].name]
      <3>1. Lookup(Loaded, id) = [sid |-> entries[i].sid, name |-> entries[i].name]
            /\ entries[i] \in Entry /\ validEntry(entries[i])
        BY <2>1, <2>2, LoadedIs
      <3> QED
        BY <3>1 DEF Lookup
    <2> HIDE DEF entries
    <2>4. Loaded[id].sid = entries[i].sid /\ Loaded[id].name = entries[i].name
      BY <2>3
    <2>5. entries[i].sid \in Text /\ ValidateSIDString(entries[i].sid)
      BY <2>3, EntryIs DEF validEntry
    <2>6. MarshalSID(entries[i].sid) # Refused
      BY <2>5, MarshalIs
    <2>7. entries[i].name # NoName => validateRequesterName(entries[i].name)
      BY <2>3 DEF validEntry, ValidateAccountName, validateRequesterName,
                  isAccountRune, isAccountRuneADCS
    <2> QED
      BY <2>4, <2>6, <2>7
  <1> QED
    BY <1>1, Invariance, PTL

\* Two canonical IDs of one workload are one text.
LEMMA CanonicalIsOne ==
  ASSUME NEW id \in Id, ValidateSPIFFEID(id), NEW other \in Id, ValidateSPIFFEID(other),
         SameWorkload(id, other)
  PROVE  id = other
  <1>1. /\ id.path \in Seq(Piece) /\ other.path \in Seq(Piece)
        /\ id.td \in TrustDomain /\ other.td \in TrustDomain
        /\ id = [scheme |-> id.scheme, td |-> id.td, path |-> id.path,
                 fragment |-> id.fragment, long |-> id.long]
        /\ other = [scheme |-> other.scheme, td |-> other.td, path |-> other.path,
                    fragment |-> other.fragment, long |-> other.long]
        /\ id.fragment \in BOOLEAN /\ other.fragment \in BOOLEAN
        /\ id.long \in BOOLEAN /\ other.long \in BOOLEAN
    BY DEF Id
  <1>2. /\ id.scheme = "spiffe" /\ other.scheme = "spiffe"
        /\ ~id.fragment /\ ~other.fragment /\ ~id.long /\ ~other.long
        /\ id.td.form = "plain" /\ other.td.form = "plain"
        /\ \A i \in DOMAIN id.path : id.path[i].form = "plain"
        /\ \A i \in DOMAIN other.path : other.path[i].form = "plain"
    BY DEF ValidateSPIFFEID, isTrustDomain, isSegment
  <1>3. id.td = other.td
    <2>1. id.td.name = other.td.name
      BY DEF SameWorkload
    <2> QED
      BY <1>1, <1>2, <2>1 DEF TrustDomain
  <1>4. id.path = other.path
    <2> HIDE DEF TrustDomain
    <2>1. /\ DOMAIN id.path = 1 .. Len(id.path)
          /\ DOMAIN other.path = 1 .. Len(other.path)
      BY <1>1
    <2>2. Resolved(id.path) = id.path /\ Resolved(other.path) = other.path
      BY <1>1, <1>2, <2>1, PlainIsResolved
    <2> QED
      BY <2>2 DEF SameWorkload
  <1> QED
    BY <1>1, <1>2, <1>3, <1>4

\* The workload behind a certificate gets the account of its entry if its ID is
\* canonical, and none otherwise, for paths of any length and every spelling.
THEOREM NobodyIsMissed == SnapshotSpec => []LookupMissesNobody
  <1>1. IInv => LookupMissesNobody
    <2> SUFFICES ASSUME IInv, Loaded # Refused, NEW uri \in Ids,
                        SPIFFEIDFromPeer(<<uri>>) # Refused
                 PROVE  LET id == SPIFFEIDFromPeer(<<uri>>)
                            meant == {entry \in ToSet(file[1].entries) :
                                        SameWorkload(entry.id, uri)}
                        IN  IF ValidateSPIFFEID(id) /\ meant # {}
                            THEN /\ Lookup(Loaded, id) \in
                                      {[sid |-> e.sid, name |-> e.name] : e \in meant}
                                 /\ \A e \in meant : e.id = id
                            ELSE Lookup(Loaded, id) = NoMapping
      BY DEF LookupMissesNobody
    <2> DEFINE id == SPIFFEIDFromPeer(<<uri>>)
               entries == file[1].entries
               meant == {entry \in ToSet(entries) : SameWorkload(entry.id, uri)}
    <2>1. uri \in Id
      BY SnapshotAssumption
    <2>2. uri.scheme # "other" /\ id = [uri EXCEPT !.scheme = "spiffe", !.fragment = FALSE]
      <3>1. Len(<<uri>>) = 1 /\ <<uri>>[1] = uri
        OBVIOUS
      <3> QED
        BY <3>1 DEF SPIFFEIDFromPeer
    <2>3. /\ id \in Id /\ id.scheme = "spiffe" /\ id.fragment = FALSE
          /\ id.td = uri.td /\ id.path = uri.path /\ id.long = uri.long
      <3> HIDE DEF id
      <3> QED
        BY <2>1, <2>2 DEF Id
    <2> HIDE DEF id
    <2>4. \A other : SameWorkload(other, uri) <=> SameWorkload(other, id)
      BY <2>2, <2>3 DEF SameWorkload
    <2>5. SameWorkload(id, uri)
      BY <2>2, <2>3 DEF SameWorkload
    <2>6. file \in Seq(Document)
      BY DEF IInv
    <2>7. /\ \A i \in DOMAIN entries :
               /\ entries[i] \in Entry /\ validEntry(entries[i])
               /\ entries[i].id \in DOMAIN Loaded
               /\ Lookup(Loaded, entries[i].id) =
                    [sid |-> entries[i].sid, name |-> entries[i].name]
          /\ \A known \in DOMAIN Loaded : \E i \in DOMAIN entries : entries[i].id = known
      BY <2>6, LoadedIs
    <2> HIDE DEF entries
    <2>8. \A e \in ToSet(entries) : \E i \in DOMAIN entries : e = entries[i]
      BY DEF ToSet
    <2>9. CASE ValidateSPIFFEID(id) /\ meant # {}
      <3>1. ASSUME NEW e \in meant
            PROVE  e.id = id /\ Lookup(Loaded, id) = [sid |-> e.sid, name |-> e.name]
        <4>1. PICK i \in DOMAIN entries : e = entries[i]
          BY <2>8
        <4>2. e.id \in Id /\ ValidateSPIFFEID(e.id)
          BY <2>7, <4>1, EntryIs DEF validEntry
        <4>3. SameWorkload(e.id, id)
          BY <2>4
        <4>4. e.id = id
          BY <2>3, <2>9, <4>2, <4>3, CanonicalIsOne
        <4> QED
          BY <2>7, <4>1, <4>4
      <3>2. PICK e \in meant : TRUE
        BY <2>9
      <3>3. Lookup(Loaded, id) \in {[sid |-> x.sid, name |-> x.name] : x \in meant}
        <4>1. Lookup(Loaded, id) = [sid |-> e.sid, name |-> e.name]
          BY <3>1
        <4> HIDE DEF meant
        <4> QED
          BY <4>1
      <3> QED
        BY <2>9, <3>1, <3>3 DEF id, entries
    <2>10. CASE ~(ValidateSPIFFEID(id) /\ meant # {})
      <3>1. id \notin DOMAIN Loaded
        <4> SUFFICES ASSUME id \in DOMAIN Loaded PROVE FALSE
          OBVIOUS
        <4>1. PICK i \in DOMAIN entries : entries[i].id = id
          BY <2>7
        <4>2. ValidateSPIFFEID(id)
          BY <2>7, <4>1 DEF validEntry
        <4>3. entries[i] \in meant
          BY <2>5, <4>1 DEF ToSet
        <4> QED
          BY <2>10, <4>2, <4>3
      <3>2. Lookup(Loaded, id) = NoMapping
        BY <3>1 DEF Lookup
      <3> QED
        BY <2>10, <3>2 DEF id, entries
    <2> QED
      BY <2>9, <2>10
  <1> QED
    BY <1>1, Invariance, PTL
=============================================================================
