------------------------- MODULE KeyedLimiterProofs -------------------------
(***************************************************************************)
(* What ratelimit.Keyed promises for any number of callers and goroutines: *)
(* eviction is exact for every caller whose bucket no sweep raced with,    *)
(* and the map holds no bucket of a caller that went away.                 *)
(*                                                                         *)
(* Both rest on who may touch a bucket when.  A bucket has one caller, and *)
(* is in the map or in the hands of that caller's goroutines; the map and  *)
(* the sweep are the business of the goroutine that holds k.mu.            *)
(***************************************************************************)
EXTENDS KeyedLimiter, TLAPS

\* The lemmas about one bucket.  They are about no behaviour of a Limiter, so its
\* variables stand for nothing here.
One == INSTANCE LimiterProofs WITH
         MaxForward <- 0, bucket <- 0, answer <- 0, forward <- 0,
         seen <- 0, window <- 0, sinceFull <- 0

Typed ==
    /\ clock \in 0 .. MaxTime
    /\ kmu \in Procs \cup {NoProc}
    /\ bmu \in [Ids -> Procs \cup {NoProc}]
    /\ buckets \in [Callers -> Ids \cup {NoId}]
    /\ heap \in [Reachable(buckets, call) -> Bucket]
    /\ swept \in 0 .. clock
    /\ call \in [Procs -> Sections]
    /\ ideal \in [Callers -> Bucket]
    /\ raced \subseteq Callers

\* k.mu is held from the reading of the clock to the lookup.
HoldsMutex == \A p \in Procs : call[p].at \in {"sweep", "evict", "lookup"} => kmu = p

\* A bucket is a caller's while it is in the map or one of its calls has it.
Owns(key, id) ==
    \/ buckets[key] = id
    \/ \E p \in Procs : HasBucket(call[p]) /\ call[p].key = key /\ call[p].b = id

OneOwner == \A id \in Ids : \A k, l \in Callers : Owns(k, id) /\ Owns(l, id) => k = l

\* No reading of the clock is from the future.
ReadBefore ==
    /\ \A id \in Reachable(buckets, call) : heap[id].last <= clock
    /\ \A key \in Callers : ideal[key].last <= clock

\* The buckets a sweep has still to decide about.
Ahead(c) ==
    CASE c.at = "sweep" -> c.todo
      [] c.at = "evict" -> c.todo \cup {c.idle}
      [] OTHER -> {}

\* A sweep decides about buckets of the map, by the clock it began at.
SweepsTheMap ==
    \A p \in Procs :
      /\ Ahead(call[p]) \subseteq Mapped(buckets)
      /\ call[p].at \in {"sweep", "evict"} => call[p].now = swept
      /\ call[p].at = "evict" => call[p].idle \notin call[p].todo

\* A caller that no sweep raced with takes from the bucket in the map.
TakesFromTheMap ==
    \A p \in Procs :
      HasBucket(call[p]) /\ call[p].key \notin raced => buckets[call[p].key] = call[p].b

IsAhead(key) == \E p \in Procs : key \in Ahead(call[p])

Calling(key) == \E p \in Procs : HasBucket(call[p]) /\ call[p].key = key

\* A bucket in the map has all the tokens that the time since its caller last
\* took gives an empty one, whoever took and whatever a sweep did to its clock.
Earned(key) ==
    LET b == heap[buckets[key]]
    IN  b.tokens = Capacity \/ (b.last - ideal[key].last) * Rate <= b.tokens

\* It was last read for its caller or by a sweep; the sweep that has still to
\* decide about it began an idle period later than the one that read it.
LastRead(key) ==
    LET last == heap[buckets[key]].last
    IN  \/ Calling(key)
        \/ last <= ideal[key].last
        \/ IF IsAhead(key) THEN swept - last >= Idle ELSE last <= swept

\* It has a reason to be in the map.
Stays(key) ==
    \/ Calling(key)
    \/ swept - ideal[key].last < Idle
    \/ (swept - ideal[key].last) * Rate < Capacity

Accounted(key) == Earned(key) /\ LastRead(key) /\ (IsAhead(key) \/ Stays(key))

EntriesAccounted == \A key \in Mapped(buckets) : Accounted(key)

IInv ==
    /\ Typed
    /\ HoldsMutex
    /\ OneOwner
    /\ ReadBefore
    /\ SweepsTheMap
    /\ TakesFromTheMap
    /\ EntriesAccounted
    /\ ExactUnlessRaced
-----------------------------------------------------------------------------
\* One bucket is the same in both modules.
LEMMA OneBucket ==
  /\ One!Bucket = Bucket /\ One!Capacity = Capacity
  /\ \A b, t : One!advanceLocked(b, t) = advanceLocked(b, t)
  /\ \A b : One!Admits(b) <=> Admits(b)
  /\ \A b : One!Spend(b) = Spend(b)
  /\ \A t : One!newAt(t) = newAt(t)
  BY DEF One!Bucket, Bucket, One!Capacity, Capacity, One!advanceLocked, advanceLocked,
         One!Admits, Admits, One!Spend, Spend, One!newAt, newAt

LEMMA CapacityIsPositive == Capacity \in Nat /\ Capacity >= Unit
  BY One!CapacityIsPositive, OneBucket, BucketAssumption

LEMMA AdvanceBounds ==
  ASSUME NEW b \in Bucket, NEW now \in Int
  PROVE  /\ advanceLocked(b, now) \in Bucket
         /\ advanceLocked(b, now).last = now
  BY One!AdvanceBounds, OneBucket, BucketAssumption

LEMMA AdvanceComposes ==
  ASSUME NEW b \in Bucket, NEW now \in Int, NEW later \in Int, b.last <= now, now <= later
  PROVE  advanceLocked(advanceLocked(b, now), later) = advanceLocked(b, later)
  BY One!AdvanceComposes, OneBucket, BucketAssumption

LEMMA SameLevelStays ==
  ASSUME NEW b \in Bucket, NEW c \in Bucket, NEW now \in Int, NEW later \in Int,
         b.last <= now, c.last <= now, now <= later,
         advanceLocked(b, now).tokens = advanceLocked(c, now).tokens
  PROVE  advanceLocked(b, later) = advanceLocked(c, later)
  BY One!SameLevelStays, OneBucket, BucketAssumption

LEMMA NewIsFull ==
  ASSUME NEW now \in Int
  PROVE  newAt(now) \in Bucket /\ newAt(now).last = now /\ newAt(now).tokens = Capacity
  BY One!NewIsFull, OneBucket, BucketAssumption

LEMMA FullStays ==
  ASSUME NEW b \in Bucket, NEW now \in Int, b.tokens = Capacity
  PROVE  advanceLocked(b, now).tokens = Capacity
  BY One!FullStays, OneBucket, BucketAssumption

LEMMA SpendBounds ==
  ASSUME NEW b \in Bucket, Admits(b)
  PROVE  Spend(b) \in Bucket /\ Spend(b).last = b.last /\ Spend(b).tokens = b.tokens - Unit
  BY One!SpendBounds, OneBucket, BucketAssumption
\* More ticks earn no less.
LEMMA MoreTicks ==
  ASSUME NEW i \in Int, NEW j \in Int, i <= j
  PROVE  i * Rate <= j * Rate
  BY BucketAssumption

\* A bucket that has what the ticks since t give an empty one still has it after a
\* refill, be it to an earlier reading.
LEMMA RefillEarns ==
  ASSUME NEW b \in Bucket, NEW now \in Int, NEW t \in Int,
         b.tokens = Capacity \/ (b.last - t) * Rate <= b.tokens
  PROVE  \/ advanceLocked(b, now).tokens = Capacity
         \/ (now - t) * Rate <= advanceLocked(b, now).tokens
  <1>1. b.tokens \in Int /\ b.last \in Int /\ Rate \in Nat
    BY CapacityIsPositive, BucketAssumption DEF Bucket
  <1>2. CASE b.tokens = Capacity
    BY <1>2, FullStays
  <1>3. CASE (b.last - t) * Rate <= b.tokens /\ now <= b.last
    <2>1. (now - t) * Rate <= (b.last - t) * Rate
      BY <1>1, <1>3, MoreTicks
    <2>2. advanceLocked(b, now).tokens = b.tokens
      BY <1>3 DEF advanceLocked
    <2>3. (now - t) * Rate \in Int /\ (b.last - t) * Rate \in Int
      BY <1>1
    <2> QED
      BY <1>1, <1>3, <2>1, <2>2, <2>3
  <1>4. CASE (b.last - t) * Rate <= b.tokens /\ ~(now <= b.last)
    <2>1. (now - t) * Rate = (now - b.last) * Rate + (b.last - t) * Rate
      BY <1>1
    <2>2. /\ (now - t) * Rate \in Int /\ (now - b.last) * Rate \in Int
          /\ (b.last - t) * Rate \in Int
      BY <1>1
    <2>3. \/ advanceLocked(b, now).tokens = Capacity
          \/ advanceLocked(b, now).tokens = b.tokens + (now - b.last) * Rate
      BY <1>4 DEF advanceLocked
    <2> QED
      BY <1>1, <1>4, <2>1, <2>2, <2>3
  <1> QED
    BY <1>2, <1>3, <1>4
-----------------------------------------------------------------------------
\* What each section of Allow has for locals.
LEMMA SectionLocals ==
  ASSUME NEW c \in Sections
  PROVE  /\ c.at \in {"returned", "lock", "sweep", "lookup", "evict", "take", "taking"}
         /\ c.at = "returned" => c = Returned
         /\ c.at # "returned" => c.key \in Callers
         /\ c.at \in {"sweep", "lookup", "evict"} => c.now \in 0 .. clock /\ c.todo \in SUBSET Callers
         /\ c.at = "evict" => c.idle \in Callers
         /\ HasBucket(c) => c.b \in Ids /\ c.key \in Callers
  BY DEF Sections, Returned, HasBucket

LEMMA SectionsMade ==
  ASSUME NEW key \in Callers
  PROVE  /\ Returned \in Sections /\ Returned.at = "returned"
         /\ Waiting(key) \in Sections /\ Waiting(key).at = "lock"
         /\ \A id \in Ids, at \in {"take", "taking"} :
              /\ Taking(at, key, id) \in Sections
              /\ Taking(at, key, id).at = at
              /\ Taking(at, key, id).key = key
              /\ Taking(at, key, id).b = id
  BY DEF Sections, Returned, Waiting, Taking

LEMMA HoldingMade ==
  ASSUME NEW key \in Callers, NEW now \in 0 .. clock, NEW todo \in SUBSET Callers,
         NEW at \in {"sweep", "lookup"}
  PROVE  /\ Holding(at, key, now, todo) \in Sections
         /\ Holding(at, key, now, todo).at = at
         /\ Holding(at, key, now, todo).key = key
         /\ Holding(at, key, now, todo).now = now
         /\ Holding(at, key, now, todo).todo = todo
  BY DEF Sections, Holding

LEMMA EvictingMade ==
  ASSUME NEW key \in Callers, NEW now \in 0 .. clock, NEW todo \in SUBSET Callers,
         NEW idle \in Callers
  PROVE  /\ Evicting(key, now, todo, idle) \in Sections
         /\ Evicting(key, now, todo, idle).at = "evict"
         /\ Evicting(key, now, todo, idle).now = now
         /\ Evicting(key, now, todo, idle).todo = todo
         /\ Evicting(key, now, todo, idle).idle = idle
  BY DEF Sections, Evicting

LEMMA ReachableForm ==
  ASSUME NEW m, NEW c, NEW id
  PROVE  id \in Reachable(m, c) <=>
           \/ \E key \in Callers : m[key] # NoId /\ m[key] = id
           \/ \E p \in Procs : HasBucket(c[p]) /\ c[p].b = id
  BY DEF Reachable, Mapped

\* What is reachable is what is some caller's.
LEMMA ReachableIsOwned ==
  ASSUME Typed
  PROVE  /\ Reachable(buckets, call) \subseteq Ids
         /\ \A id \in Ids : id \in Reachable(buckets, call) <=> \E key \in Callers : Owns(key, id)
         /\ \A key \in Mapped(buckets) : buckets[key] \in Ids /\ buckets[key] \in Reachable(buckets, call)
         /\ \A p \in Procs : HasBucket(call[p]) => call[p].b \in Reachable(buckets, call)
  <1>1. \A key \in Callers : buckets[key] \in Ids \cup {NoId}
    BY DEF Typed
  <1>2. \A p \in Procs : HasBucket(call[p]) => call[p].b \in Ids /\ call[p].key \in Callers
    <2>1. \A p \in Procs : call[p] \in Sections
      BY DEF Typed
    <2> QED
      BY <2>1, SectionLocals
  <1>3. NoId \notin Ids
    BY KeyedAssumption
  <1>4. \A id : id \in Reachable(buckets, call) <=>
               \/ \E key \in Callers : buckets[key] # NoId /\ buckets[key] = id
               \/ \E p \in Procs : HasBucket(call[p]) /\ call[p].b = id
    BY ReachableForm
  <1>5. Reachable(buckets, call) \subseteq Ids
    BY <1>1, <1>2, <1>4
  <1>6. ASSUME NEW id \in Ids
        PROVE  id \in Reachable(buckets, call) <=> \E key \in Callers : Owns(key, id)
    BY <1>2, <1>3, <1>4 DEF Owns
  <1>7. \A key \in Mapped(buckets) : buckets[key] \in Ids /\ buckets[key] \in Reachable(buckets, call)
    BY <1>1, <1>4 DEF Mapped
  <1>8. \A p \in Procs : HasBucket(call[p]) => call[p].b \in Reachable(buckets, call)
    BY <1>4
  <1> QED
    BY <1>5, <1>6, <1>7, <1>8

LEMMA TypedIsTypeOK == Typed => TypeOK
  BY DEF Typed, TypeOK

LEMMA InitEstablishes == Init => IInv
  <1> SUFFICES ASSUME Init PROVE IInv
    OBVIOUS
  <1>1. 0 \in 0 .. MaxTime /\ 0 \in 0 .. 0 /\ clock = 0 /\ swept = 0
    BY KeyedAssumption DEF Init
  <1>2. \A p \in Procs : call[p] = Returned /\ call[p].at = "returned" /\ ~HasBucket(call[p])
    BY DEF Init, Returned, HasBucket
  <1>3. Mapped(buckets) = {} /\ \A key \in Callers : buckets[key] = NoId
    BY DEF Init, Mapped
  <1>4. Reachable(buckets, call) = {}
    BY <1>2, <1>3 DEF Reachable
  <1>5. newAt(0) \in Bucket /\ newAt(0).last = 0 /\ newAt(0).tokens = Capacity
    BY NewIsFull
  <1>6. Typed
    <2>1. heap \in [Reachable(buckets, call) -> Bucket]
      BY <1>4 DEF Init
    <2>2. call \in [Procs -> Sections]
      BY DEF Init, Sections
    <2> QED
      BY <1>1, <1>5, <2>1, <2>2 DEF Init, Typed
  <1>7. HoldsMutex /\ OneOwner /\ SweepsTheMap /\ TakesFromTheMap /\ EntriesAccounted
    <2>1. \A id \in Ids : \A key \in Callers : ~Owns(key, id)
      BY <1>2, <1>3, KeyedAssumption DEF Owns
    <2>2. \A p \in Procs : Ahead(call[p]) = {}
      BY <1>2 DEF Ahead
    <2> QED
      BY <1>2, <1>3, <2>1, <2>2 DEF HoldsMutex, OneOwner, SweepsTheMap, TakesFromTheMap, EntriesAccounted
  <1>8. ReadBefore
    BY <1>1, <1>4, <1>5 DEF Init, ReadBefore
  <1>9. ExactUnlessRaced
    BY <1>1, <1>3, <1>5, FullStays DEF Init, ExactUnlessRaced, Level, IdealLevel
  <1> QED
    BY <1>6, <1>7, <1>8, <1>9 DEF IInv
-----------------------------------------------------------------------------
\* Time passes alike for the bucket a caller has and the one it would have.
LEMMA TickKeeps ==
  ASSUME IInv, Tick
  PROVE  IInv'
  <1>1. /\ clock \in 0 .. MaxTime /\ clock < MaxTime /\ clock' = clock + 1 /\ MaxTime \in Nat
        /\ swept \in 0 .. clock
        /\ UNCHANGED <<kmu, bmu, buckets, heap, swept, call, ideal, raced>>
    BY KeyedAssumption DEF IInv, Typed, Tick
  <1>2. clock' \in 0 .. MaxTime /\ swept \in 0 .. clock' /\ 0 .. clock \subseteq 0 .. clock'
    BY <1>1
  <1>3. Sections \subseteq Sections'
    BY <1>2 DEF Sections
  <1>4. Reachable(buckets, call)' = Reachable(buckets, call)
    BY <1>1
  <1>5. Typed'
    BY <1>1, <1>2, <1>3, <1>4 DEF IInv, Typed
  <1>6. HoldsMutex' /\ SweepsTheMap' /\ TakesFromTheMap' /\ EntriesAccounted'
    BY <1>1 DEF IInv, HoldsMutex, SweepsTheMap, TakesFromTheMap, EntriesAccounted, Accounted,
                Earned, LastRead, Stays, IsAhead, Calling
  <1>7. OneOwner'
    BY <1>1 DEF IInv, OneOwner, Owns
  <1>8. ReadBefore'
    <2>1. \A b \in Bucket : b.last <= clock => b.last <= clock'
      BY <1>1 DEF Bucket
    <2>2. /\ \A id \in Reachable(buckets, call) : heap[id] \in Bucket
          /\ \A key \in Callers : ideal[key] \in Bucket
      BY DEF IInv, Typed
    <2> QED
      BY <1>1, <1>4, <2>1, <2>2 DEF IInv, ReadBefore
  <1>9. ExactUnlessRaced'
    <2> SUFFICES ASSUME NEW key \in Callers \ raced PROVE Level(key)' = IdealLevel(key)'
      BY <1>1 DEF ExactUnlessRaced
    <2>1. ideal[key] \in Bucket /\ ideal[key].last <= clock /\ clock \in Int /\ clock' \in Int
          /\ clock <= clock'
      BY <1>1 DEF IInv, Typed, ReadBefore
    <2>2. Level(key) = IdealLevel(key)
      BY DEF IInv, ExactUnlessRaced
    <2>3. CASE buckets[key] = NoId
      <3>1. /\ newAt(clock) \in Bucket /\ newAt(clock).last = clock
            /\ newAt(clock).tokens = Capacity
        BY <2>1, NewIsFull
      <3>2. /\ advanceLocked(newAt(clock), clock).tokens = Capacity
            /\ advanceLocked(newAt(clock), clock').tokens = Capacity
        BY <2>1, <3>1, FullStays
      <3>3. advanceLocked(ideal[key], clock).tokens = advanceLocked(newAt(clock), clock).tokens
        BY <2>2, <2>3, <3>2 DEF Level, IdealLevel
      <3>4. clock <= clock /\ newAt(clock).last <= clock
        BY <2>1, <3>1
      <3>5. advanceLocked(ideal[key], clock') = advanceLocked(newAt(clock), clock')
        BY <2>1, <3>1, <3>3, <3>4, SameLevelStays
      <3>6. advanceLocked(ideal[key], clock').tokens = Capacity
        BY <3>2, <3>5
      <3> QED
        BY <1>1, <2>3, <3>6 DEF Level, IdealLevel
    <2>4. CASE buckets[key] # NoId
      <3>1. buckets[key] \in Reachable(buckets, call)
        BY <2>4, ReachableIsOwned DEF IInv, Mapped
      <3>2. heap[buckets[key]] \in Bucket /\ heap[buckets[key]].last <= clock
        BY <3>1 DEF IInv, Typed, ReadBefore
      <3>3. advanceLocked(ideal[key], clock).tokens = advanceLocked(heap[buckets[key]], clock).tokens
        BY <2>2, <2>4 DEF Level, IdealLevel
      <3>4. advanceLocked(ideal[key], clock') = advanceLocked(heap[buckets[key]], clock')
        BY <2>1, <3>2, <3>3, SameLevelStays
      <3> QED
        BY <1>1, <2>4, <3>4 DEF Level, IdealLevel
    <2> QED
      BY <2>3, <2>4
  <1> QED
    BY <1>5, <1>6, <1>7, <1>8, <1>9 DEF IInv
-----------------------------------------------------------------------------
\* What is said of an entry stays true if nothing it is about changes.
LEMMA EntryStays ==
  ASSUME NEW key, Accounted(key), swept' = swept,
         heap'[buckets'[key]] = heap[buckets[key]],
         ideal'[key] = ideal[key],
         Calling(key) => Calling(key)',
         IsAhead(key)' <=> IsAhead(key)
  PROVE  Accounted(key)'
  <1>1. Earned(key)'
    BY DEF Accounted, Earned
  <1>2. LastRead(key)'
    BY DEF Accounted, LastRead
  <1>3. IsAhead(key)' \/ Stays(key)'
    BY DEF Accounted, Stays
  <1> QED
    BY <1>1, <1>2, <1>3 DEF Accounted

\* A step that touches no bucket and no entry, and gives a goroutine no bucket.
LEMMA MovingOn ==
  ASSUME IInv, NEW p \in Procs, NEW c \in Sections,
         HasBucket(c) <=> HasBucket(call[p]),
         HasBucket(c) => c.key = call[p].key /\ c.b = call[p].b,
         call' = [call EXCEPT ![p] = c],
         kmu' \in Procs \cup {NoProc}, bmu' \in [Ids -> Procs \cup {NoProc}], swept' \in 0 .. clock,
         UNCHANGED <<clock, buckets, heap, ideal, raced>>
  PROVE  /\ Typed' /\ OneOwner' /\ ReadBefore' /\ TakesFromTheMap' /\ ExactUnlessRaced'
         /\ call'[p] = c /\ \A q \in Procs : q # p => call'[q] = call[q]
         /\ \A key : Calling(key)' <=> Calling(key)
  <1>1. call \in [Procs -> Sections]
    BY DEF IInv, Typed
  <1>2. /\ call'[p] = c /\ \A q \in Procs : q # p => call'[q] = call[q]
        /\ call' \in [Procs -> Sections]
    BY <1>1
  <1>3. \A q \in Procs : HasBucket(call'[q]) <=> HasBucket(call[q])
    BY <1>2
  <1>4. \A q \in Procs : HasBucket(call[q]) =>
                           call'[q].key = call[q].key /\ call'[q].b = call[q].b
    BY <1>2
  <1>5. Reachable(buckets', call') = Reachable(buckets, call)
    BY <1>3, <1>4 DEF Reachable, Mapped
  <1>6. Sections' = Sections
    BY DEF Sections
  <1>7. Typed'
    BY <1>2, <1>5, <1>6 DEF IInv, Typed
  <1>8. \A key \in Callers, id \in Ids : Owns(key, id)' <=> Owns(key, id)
    BY <1>3, <1>4 DEF Owns
  <1>9. OneOwner'
    BY <1>8 DEF IInv, OneOwner
  <1>10. ReadBefore'
    BY <1>5 DEF IInv, ReadBefore
  <1>11. TakesFromTheMap'
    BY <1>3, <1>4 DEF IInv, TakesFromTheMap
  <1>12. ExactUnlessRaced'
    BY DEF IInv, ExactUnlessRaced, Level, IdealLevel
  <1>13. \A key : Calling(key)' <=> Calling(key)
    BY <1>3, <1>4 DEF Calling
  <1> QED
    BY <1>2, <1>7, <1>9, <1>10, <1>11, <1>12, <1>13

\* Entries stay accounted for when no goroutine's sweep gets on either.
LEMMA EntriesStay ==
  ASSUME IInv, UNCHANGED <<buckets, heap, ideal, swept>>,
         \A key : Calling(key)' <=> Calling(key),
         \A q \in Procs : Ahead(call'[q]) = Ahead(call[q])
  PROVE  EntriesAccounted'
  <1>1. \A key : IsAhead(key)' <=> IsAhead(key)
    BY DEF IsAhead
  <1> QED
    BY <1>1, EntryStays DEF IInv, EntriesAccounted, Mapped

LEMMA CallKeeps ==
  ASSUME IInv, NEW p \in Procs, NEW key \in Callers, Call(p, key)
  PROVE  IInv'
  <1> DEFINE c == Waiting(key)
  <1>1. c \in Sections /\ c.at = "lock" /\ call[p].at = "returned"
        /\ ~HasBucket(c) /\ ~HasBucket(call[p])
    BY SectionsMade DEF Call, HasBucket
  <1>2. /\ call' = [call EXCEPT ![p] = c]
        /\ UNCHANGED <<clock, kmu, bmu, buckets, heap, swept, ideal, raced>>
    BY DEF Call
  <1> HIDE DEF c
  <1>3. /\ Typed' /\ OneOwner' /\ ReadBefore' /\ TakesFromTheMap' /\ ExactUnlessRaced'
        /\ call'[p] = c /\ (\A q \in Procs : q # p => call'[q] = call[q])
        /\ \A l : Calling(l)' <=> Calling(l)
    BY <1>1, <1>2, MovingOn DEF IInv, Typed
  <1>4. Ahead(c) = {} /\ Ahead(call[p]) = {}
    BY <1>1 DEF Ahead
  <1>5. HoldsMutex'
    BY <1>1, <1>2, <1>3 DEF IInv, HoldsMutex
  <1>6. SweepsTheMap'
    BY <1>1, <1>2, <1>3, <1>4 DEF IInv, SweepsTheMap
  <1>7. EntriesAccounted'
    BY <1>2, <1>3, <1>4, EntriesStay
  <1> QED
    BY <1>3, <1>5, <1>6, <1>7 DEF IInv

\* The goroutine in front of the map and the sweep is the only one.
LEMMA Alone ==
  ASSUME IInv, NEW p \in Procs, kmu \in {p, NoProc}, NEW q \in Procs, q # p
  PROVE  Ahead(call[q]) = {} /\ call[q].at \notin {"sweep", "evict", "lookup"}
  BY KeyedAssumption DEF IInv, HoldsMutex, Ahead

LEMMA LockKeeps ==
  ASSUME IInv, NEW p \in Procs, Lock(p)
  PROVE  IInv'
  <1> DEFINE due == clock - swept >= Idle
             key == call[p].key
             c == IF due THEN Holding("sweep", key, clock, Mapped(buckets))
                         ELSE Holding("lookup", key, clock, {})
  <1>1. /\ call[p].at = "lock" /\ kmu = NoProc /\ kmu' = p
        /\ swept' = IF due THEN clock ELSE swept
        /\ call' = [call EXCEPT ![p] = c]
        /\ UNCHANGED <<clock, bmu, buckets, heap, ideal, raced>>
    BY DEF Lock
  <1>2. key \in Callers /\ clock \in 0 .. clock /\ Mapped(buckets) \in SUBSET Callers
        /\ swept \in 0 .. clock /\ clock \in Nat
    <2>1. call[p] \in Sections /\ clock \in Nat /\ swept \in 0 .. clock
      BY KeyedAssumption DEF IInv, Typed
    <2> QED
      BY <1>1, <2>1, SectionLocals DEF Mapped
  <1>3. /\ c \in Sections /\ c.at \in {"sweep", "lookup"} /\ c.now = clock
        /\ due => c.at = "sweep" /\ c.todo = Mapped(buckets)
        /\ ~due => c.at = "lookup"
        /\ ~HasBucket(c) /\ ~HasBucket(call[p])
    <2>0. HasBucket(call[p]) <=> FALSE
      BY <1>1 DEF HasBucket
    <2> HIDE DEF key
    <2>1. CASE due
      BY <1>2, <2>0, <2>1, HoldingMade DEF HasBucket
    <2>2. CASE ~due
      BY <1>2, <2>0, <2>2, HoldingMade DEF HasBucket
    <2> QED
      BY <2>1, <2>2
  <1> HIDE DEF c, key
  <1>4. swept' \in 0 .. clock
    BY <1>1, <1>2
  <1>5. /\ Typed' /\ OneOwner' /\ ReadBefore' /\ TakesFromTheMap' /\ ExactUnlessRaced'
        /\ call'[p] = c /\ (\A q \in Procs : q # p => call'[q] = call[q])
        /\ \A l : Calling(l)' <=> Calling(l)
    BY <1>1, <1>3, <1>4, MovingOn DEF IInv, Typed
  <1>6. \A q \in Procs : q # p =>
            Ahead(call[q]) = {} /\ call[q].at \notin {"sweep", "evict", "lookup"}
    BY <1>1, Alone
  <1>7. HoldsMutex'
    BY <1>1, <1>5, <1>6 DEF HoldsMutex
  <1>8. Ahead(call[p]) = {} /\ Ahead(c) = IF due THEN Mapped(buckets) ELSE {}
    BY <1>1, <1>3 DEF Ahead
  <1>9. SweepsTheMap'
    BY <1>1, <1>3, <1>5, <1>6, <1>8 DEF SweepsTheMap
  \* Nobody else reads buckets for a sweep: those read by one were read by the last.
  <1>10. EntriesAccounted'
    <2>1. \A q \in Procs : Ahead(call[q]) = {}
      BY <1>6, <1>8
    <2>2. CASE due
      <3> SUFFICES ASSUME NEW l \in Mapped(buckets) PROVE Accounted(l)'
        BY <1>1 DEF EntriesAccounted
      <3>1. Earned(l) /\ LastRead(l) /\ ~IsAhead(l)
        BY <2>1 DEF IInv, EntriesAccounted, Accounted, IsAhead
      <3>2. IsAhead(l)'
        BY <1>5, <1>8, <2>2 DEF IsAhead
      <3>3. Earned(l)'
        BY <1>1, <3>1 DEF Earned
      <3>4. heap[buckets[l]] \in Bucket
        BY ReachableIsOwned DEF IInv, Typed
      <3>5. heap[buckets[l]].last <= swept => clock - heap[buckets[l]].last >= Idle
        BY <1>2, <2>2, <3>4, KeyedAssumption DEF Bucket
      <3>6. LastRead(l)'
        BY <1>1, <1>5, <2>2, <3>1, <3>2, <3>5 DEF LastRead
      <3> QED
        BY <3>2, <3>3, <3>6 DEF Accounted
    <2>3. CASE ~due
      BY <1>1, <1>5, <1>6, <1>8, <2>1, <2>3, EntriesStay
    <2> QED
      BY <2>2, <2>3
  <1> QED
    BY <1>5, <1>7, <1>9, <1>10 DEF IInv

\* A bucket the sweep passes was read within the idle period, and not by a sweep;
\* one it found idle is still ahead of it.
LEMMA SweepCheckKeeps ==
  ASSUME IInv, NEW p \in Procs, NEW key \in Callers, SweepCheck(p, key)
  PROVE  IInv'
  <1> DEFINE todo == call[p].todo \ {key}
             stale == Stale(heap[buckets[key]], call[p].now)
             c == IF stale THEN Evicting(call[p].key, call[p].now, todo, key)
                           ELSE Holding("sweep", call[p].key, call[p].now, todo)
  <1>1. /\ call[p].at = "sweep" /\ key \in call[p].todo
        /\ call' = [call EXCEPT ![p] = c]
        /\ UNCHANGED <<clock, kmu, bmu, buckets, heap, swept, ideal, raced>>
    BY DEF SweepCheck
  <1>2. /\ call[p].key \in Callers /\ call[p].now \in 0 .. clock /\ todo \in SUBSET Callers
        /\ call[p] \in Sections /\ swept \in 0 .. clock /\ kmu \in Procs \cup {NoProc}
    <2>1. call[p] \in Sections /\ swept \in 0 .. clock /\ kmu \in Procs \cup {NoProc}
      BY DEF IInv, Typed
    <2> QED
      BY <1>1, <2>1, SectionLocals
  <1>3. /\ c \in Sections /\ c.at \in {"sweep", "evict"} /\ c.now = call[p].now
        /\ stale => c.at = "evict" /\ c.todo = todo /\ c.idle = key
        /\ ~stale => c.at = "sweep" /\ c.todo = todo
        /\ ~HasBucket(c) /\ ~HasBucket(call[p])
    <2>0. HasBucket(call[p]) <=> FALSE
      BY <1>1 DEF HasBucket
    <2> HIDE DEF todo
    <2>1. CASE stale
      BY <1>2, <2>0, <2>1, EvictingMade DEF HasBucket
    <2>2. CASE ~stale
      BY <1>2, <2>0, <2>2, HoldingMade DEF HasBucket
    <2> QED
      BY <2>1, <2>2
  <1> HIDE DEF c
  <1>4. /\ Typed' /\ OneOwner' /\ ReadBefore' /\ TakesFromTheMap' /\ ExactUnlessRaced'
        /\ call'[p] = c /\ (\A q \in Procs : q # p => call'[q] = call[q])
        /\ \A l : Calling(l)' <=> Calling(l)
    BY <1>1, <1>2, <1>3, MovingOn DEF IInv, Typed
  <1>5. Ahead(call[p]) = call[p].todo /\ Ahead(c) = IF stale THEN call[p].todo ELSE todo
    BY <1>1, <1>3 DEF Ahead
  <1>6. HoldsMutex'
    BY <1>1, <1>3, <1>4 DEF IInv, HoldsMutex
  <1>7. SweepsTheMap'
    BY <1>1, <1>3, <1>4, <1>5 DEF IInv, SweepsTheMap
  <1>8. EntriesAccounted'
    <2> SUFFICES ASSUME NEW k \in Mapped(buckets) PROVE Accounted(k)'
      BY <1>1 DEF EntriesAccounted
    <2>1. Accounted(k)
      BY DEF IInv, EntriesAccounted
    <2>2. CASE stale \/ k # key
      <3>1. IsAhead(k)' <=> IsAhead(k)
        BY <1>4, <1>5, <2>2 DEF IsAhead
      <3> QED
        BY <1>1, <1>4, <2>1, <3>1, EntryStays
    <2>3. CASE ~stale /\ k = key
      <3>1. call[p].now = swept /\ IsAhead(k)
        BY <1>1, <1>5, <2>3 DEF IInv, SweepsTheMap, IsAhead
      <3>2. heap[buckets[k]] \in Bucket /\ ideal[k] \in Bucket /\ Idle \in Nat
        BY ReachableIsOwned, KeyedAssumption DEF IInv, Typed, Mapped
      <3>3. swept - heap[buckets[k]].last < Idle
        BY <1>2, <2>3, <3>1, <3>2 DEF Stale, Bucket
      <3>4. Calling(k) \/ heap[buckets[k]].last <= ideal[k].last
        BY <1>2, <2>1, <3>1, <3>2, <3>3 DEF Accounted, LastRead, Bucket
      <3>5. Earned(k)'
        BY <1>1, <2>1 DEF Accounted, Earned
      <3>6. LastRead(k)'
        BY <1>1, <1>4, <3>4 DEF LastRead
      <3>7. Stays(k)'
        <4>1. Calling(k) \/ swept - ideal[k].last < Idle
          BY <1>2, <3>2, <3>3, <3>4 DEF Bucket
        <4> QED
          BY <1>1, <1>4, <4>1 DEF Stays
      <3> QED
        BY <3>5, <3>6, <3>7 DEF Accounted
    <2> QED
      BY <2>2, <2>3
  <1> QED
    BY <1>4, <1>6, <1>7, <1>8 DEF IInv

LEMMA SweepDoneKeeps ==
  ASSUME IInv, NEW p \in Procs, SweepDone(p)
  PROVE  IInv'
  <1> DEFINE c == Holding("lookup", call[p].key, call[p].now, {})
  <1>1. /\ call[p].at = "sweep" /\ call[p].todo = {}
        /\ call' = [call EXCEPT ![p] = c]
        /\ UNCHANGED <<clock, kmu, bmu, buckets, heap, swept, ideal, raced>>
    BY DEF SweepDone
  <1>2. /\ call[p].key \in Callers /\ call[p].now \in 0 .. clock /\ swept \in 0 .. clock
        /\ kmu \in Procs \cup {NoProc}
    <2>1. call[p] \in Sections /\ swept \in 0 .. clock /\ kmu \in Procs \cup {NoProc}
      BY DEF IInv, Typed
    <2> QED
      BY <1>1, <2>1, SectionLocals
  <1>3. c \in Sections /\ c.at = "lookup" /\ ~HasBucket(c) /\ ~HasBucket(call[p])
    BY <1>1, <1>2, HoldingMade DEF HasBucket
  <1> HIDE DEF c
  <1>4. /\ Typed' /\ OneOwner' /\ ReadBefore' /\ TakesFromTheMap' /\ ExactUnlessRaced'
        /\ call'[p] = c /\ (\A q \in Procs : q # p => call'[q] = call[q])
        /\ \A l : Calling(l)' <=> Calling(l)
    BY <1>1, <1>2, <1>3, MovingOn DEF IInv, Typed
  <1>5. Ahead(call[p]) = {} /\ Ahead(c) = {}
    BY <1>1, <1>3 DEF Ahead
  <1>6. HoldsMutex'
    BY <1>1, <1>3, <1>4 DEF IInv, HoldsMutex
  <1>7. SweepsTheMap'
    BY <1>1, <1>3, <1>4, <1>5 DEF IInv, SweepsTheMap
  <1>8. EntriesAccounted'
    BY <1>1, <1>4, <1>5, EntriesStay
  <1> QED
    BY <1>4, <1>6, <1>7, <1>8 DEF IInv
-----------------------------------------------------------------------------
\* Evicting a full bucket changes no level; re-basing one changes none either,
\* for the reading it is re-based to is not before its last.
LEMMA SweepEvictKeeps ==
  ASSUME IInv, NEW p \in Procs, SweepEvict(p)
  PROVE  IInv'
  <1> DEFINE k == call[p].idle
             now == call[p].now
             id == buckets[k]
             b == advanceLocked(heap[id], now)
             c == Holding("sweep", call[p].key, now, call[p].todo)
             held == \E q \in Procs : HasBucket(call[q]) /\ call[q].b = id
  <1>1. /\ call[p].at = "evict"
        /\ buckets' = IF Full(b) THEN [buckets EXCEPT ![k] = NoId] ELSE buckets
        /\ call' = [call EXCEPT ![p] = c]
        /\ heap' = [i \in Reachable(buckets', call') |-> [heap EXCEPT ![id] = b][i]]
        /\ raced' = IF (Full(b) /\ held) \/ now < heap[id].last THEN raced \cup {k} ELSE raced
        /\ UNCHANGED <<clock, kmu, bmu, swept, ideal>>
    BY DEF SweepEvict, Evicts, Restrict
  <1>2. /\ call \in [Procs -> Sections] /\ buckets \in [Callers -> Ids \cup {NoId}]
        /\ heap \in [Reachable(buckets, call) -> Bucket] /\ ideal \in [Callers -> Bucket]
        /\ raced \subseteq Callers /\ clock \in Nat /\ swept \in 0 .. clock
        /\ NoId \notin Ids
    BY KeyedAssumption DEF IInv, Typed
  <1>3. /\ call[p].key \in Callers /\ now \in 0 .. clock /\ call[p].todo \in SUBSET Callers
        /\ k \in Callers /\ now \in Int
    BY <1>1, <1>2, SectionLocals
  <1>4. k \in Mapped(buckets) /\ call[p].todo \subseteq Mapped(buckets) /\ now = swept
    BY <1>1 DEF IInv, SweepsTheMap, Ahead
  <1>5. id \in Ids /\ id \in Reachable(buckets, call) /\ heap[id] \in Bucket /\ heap[id].last <= clock
    BY <1>2, <1>4, ReachableIsOwned DEF IInv, ReadBefore
  <1>6. b \in Bucket /\ b.last = now
    BY <1>3, <1>5, AdvanceBounds
  <1>7. c \in Sections /\ c.at = "sweep" /\ c.todo = call[p].todo /\ c.now = now
        /\ ~HasBucket(c) /\ ~HasBucket(call[p])
    BY <1>1, <1>3, HoldingMade DEF HasBucket
  <1> HIDE DEF c, b, now
  <1>8. /\ call'[p] = c /\ \A q \in Procs : q # p => call'[q] = call[q]
        /\ call' \in [Procs -> Sections]
        /\ \A q \in Procs : HasBucket(call'[q]) => HasBucket(call[q]) /\ call'[q] = call[q]
    <2>1. /\ call'[p] = c /\ \A q \in Procs : q # p => call'[q] = call[q]
          /\ call' \in [Procs -> Sections]
      BY <1>1, <1>2, <1>7
    <2> QED
      BY <1>7, <2>1
  \* The map: only the idle caller's bucket may leave it.
  <1>9. /\ buckets' \in [Callers -> Ids \cup {NoId}]
        /\ \A l \in Callers : buckets'[l] # NoId => buckets'[l] = buckets[l]
        /\ \A l \in Callers : l # k => buckets'[l] = buckets[l]
        /\ Full(b) => buckets'[k] = NoId
        /\ ~Full(b) => buckets' = buckets
    BY <1>1, <1>2, <1>3
  <1>10. \A l \in Callers, i \in Ids : Owns(l, i)' => Owns(l, i)
    <2> SUFFICES ASSUME NEW l \in Callers, NEW i \in Ids, Owns(l, i)' PROVE Owns(l, i)
      OBVIOUS
    <2>1. CASE buckets'[l] = i
      BY <1>2, <1>9, <2>1 DEF Owns
    <2>2. CASE \E q \in Procs : HasBucket(call'[q]) /\ call'[q].key = l /\ call'[q].b = i
      BY <1>8, <2>2 DEF Owns
    <2> QED
      BY <2>1, <2>2 DEF Owns
  <1>11. Reachable(buckets', call') \subseteq Reachable(buckets, call)
    <2> SUFFICES ASSUME NEW i \in Reachable(buckets', call')
                 PROVE  i \in Reachable(buckets, call)
      OBVIOUS
    <2>1. CASE \E l \in Callers : buckets'[l] # NoId /\ buckets'[l] = i
      BY <1>9, <2>1, ReachableForm
    <2>2. CASE \E q \in Procs : HasBucket(call'[q]) /\ call'[q].b = i
      BY <1>8, <2>2, ReachableForm
    <2> QED
      BY <2>1, <2>2, ReachableForm
  <1>12. /\ heap' \in [Reachable(buckets', call') -> Bucket]
         /\ \A i \in Reachable(buckets', call') : heap'[i] = IF i = id THEN b ELSE heap[i]
    BY <1>1, <1>2, <1>5, <1>6, <1>11
  <1>13. Sections' = Sections
    BY <1>1 DEF Sections
  <1>14. raced' \subseteq Callers /\ raced \subseteq raced'
    BY <1>1, <1>2, <1>3
  <1>15. Typed'
    BY <1>1, <1>8, <1>9, <1>12, <1>13, <1>14 DEF IInv, Typed
  <1>16. HoldsMutex'
    BY <1>1, <1>7, <1>8 DEF IInv, HoldsMutex
  <1>17. OneOwner'
    BY <1>10 DEF IInv, OneOwner
  <1>18. ReadBefore'
    <2>1. ASSUME NEW i \in Reachable(buckets', call') PROVE heap'[i].last <= clock
      <3>1. CASE i = id
        BY <1>2, <1>3, <1>6, <1>12, <3>1
      <3>2. CASE i # id
        BY <1>11, <1>12, <3>2 DEF IInv, ReadBefore
      <3> QED
        BY <3>1, <3>2
    <2>2. \A l \in Callers : ideal[l].last <= clock
      BY DEF IInv, ReadBefore
    <2> QED
      BY <1>1, <2>1, <2>2 DEF ReadBefore
  \* Others are not sweeping, and this one goes on with the rest.
  <1>19. \A q \in Procs : q # p => Ahead(call[q]) = {} /\ call[q].at \notin {"sweep", "evict", "lookup"}
    <2>1. kmu = p
      BY <1>1 DEF IInv, HoldsMutex
    <2> QED
      BY <2>1, Alone
  <1>20. Ahead(c) = call[p].todo /\ Ahead(call[p]) = call[p].todo \cup {k}
    BY <1>1, <1>7 DEF Ahead
  <1>21. SweepsTheMap'
    <2>1. call[p].todo \subseteq Mapped(buckets')
      <3>1. k \notin call[p].todo
        BY <1>1 DEF IInv, SweepsTheMap
      <3> QED
        BY <1>4, <1>9, <3>1 DEF Mapped
    <2> QED
      BY <1>1, <1>4, <1>7, <1>8, <1>19, <1>20, <2>1 DEF SweepsTheMap
  <1>22. TakesFromTheMap'
    <2> SUFFICES ASSUME NEW q \in Procs, HasBucket(call'[q]), call'[q].key \notin raced'
                 PROVE  buckets'[call'[q].key] = call'[q].b
      BY DEF TakesFromTheMap
    <2>1. HasBucket(call[q]) /\ call'[q] = call[q] /\ call[q].key \notin raced /\ call[q].key \in Callers
      BY <1>2, <1>8, <1>14, SectionLocals
    <2>2. buckets[call[q].key] = call[q].b
      BY <2>1 DEF IInv, TakesFromTheMap
    <2>3. CASE call[q].key = k
      <3>1. held
        BY <2>1, <2>2, <2>3
      <3>2. ~Full(b)
        BY <1>1, <2>1, <2>3, <3>1
      <3> QED
        BY <1>9, <2>1, <2>2, <3>2
    <2>4. CASE call[q].key # k
      BY <1>9, <2>1, <2>2, <2>4
    <2> QED
      BY <2>3, <2>4
  <1>23. ASSUME NEW l \in Mapped(buckets'), l # k
         PROVE  heap'[buckets'[l]] = heap[buckets[l]] /\ l \in Mapped(buckets)
    <2>1. l \in Callers /\ buckets'[l] = buckets[l] /\ l \in Mapped(buckets)
      BY <1>9, <1>23 DEF Mapped
    <2>2. buckets[l] \in Ids
      BY <2>1, ReachableIsOwned DEF IInv
    <2>3. buckets[l] # id
      BY <1>3, <1>5, <1>23, <2>1, <2>2 DEF IInv, OneOwner, Owns
    <2>4. buckets'[l] \in Reachable(buckets', call')
      BY <1>23, ReachableForm DEF Mapped
    <2> QED
      BY <1>12, <2>1, <2>3, <2>4
  <1>24. ASSUME k \in Mapped(buckets')
         PROVE  heap'[buckets'[k]] = b /\ buckets'[k] = id /\ ~Full(b)
    <2>1. ~Full(b) /\ buckets'[k] = id
      BY <1>9, <1>24 DEF Mapped
    <2>2. id \in Reachable(buckets', call')
      BY <1>24, <2>1, ReachableForm DEF Mapped
    <2> QED
      BY <1>12, <2>1, <2>2
  \* What stays is not full, so it was taken from too recently for it to be.
  <1>25. EntriesAccounted'
    <2> SUFFICES ASSUME NEW l \in Mapped(buckets') PROVE Accounted(l)'
      BY DEF EntriesAccounted
    <2>1. \A m : Calling(m) <=> Calling(m)'
      <3>1. \A q \in Procs : HasBucket(call[q]) => HasBucket(call'[q]) /\ call'[q] = call[q]
        BY <1>7, <1>8
      <3> QED
        BY <1>8, <3>1 DEF Calling
    <2>2. \A m : m # k => (IsAhead(m)' <=> IsAhead(m))
      BY <1>8, <1>20 DEF IsAhead
    <2>3. CASE l # k
      <3>1. heap'[buckets'[l]] = heap[buckets[l]] /\ l \in Mapped(buckets)
        BY <1>23, <2>3
      <3>2. Accounted(l)
        BY <3>1 DEF IInv, EntriesAccounted
      <3> QED
        BY <1>1, <2>1, <2>2, <2>3, <3>1, <3>2, EntryStays
    <2>4. CASE l = k
      <3>1. heap'[buckets'[l]] = b /\ ~Full(b)
        BY <1>24, <2>4
      <3>2. ideal[l] \in Bucket /\ ideal[l].last \in Int /\ swept \in Int /\ Capacity \in Nat
        BY <1>2, <1>3, <2>4, CapacityIsPositive DEF Bucket
      <3>3. ~IsAhead(l)'
        <4>1. k \notin call[p].todo
          BY <1>1 DEF IInv, SweepsTheMap
        <4> QED
          BY <1>8, <1>19, <1>20, <2>4, <4>1 DEF IsAhead
      <3>4. b.tokens = Capacity \/ (now - ideal[l].last) * Rate <= b.tokens
        <4>1. heap[id].tokens = Capacity \/ (heap[id].last - ideal[l].last) * Rate <= heap[id].tokens
          BY <1>4, <2>4 DEF IInv, EntriesAccounted, Accounted, Earned
        <4> QED
          BY <1>3, <1>5, <3>2, <4>1, RefillEarns DEF b
      <3>5. Earned(l)'
        BY <1>1, <1>6, <3>1, <3>4 DEF Earned
      <3>6. LastRead(l)'
        BY <1>1, <1>4, <1>6, <3>1, <3>2, <3>3 DEF LastRead
      <3>7. (swept - ideal[l].last) * Rate < Capacity
        <4>1. b.tokens \in Int /\ b.tokens < Capacity
          BY <1>6, <3>1, <3>2 DEF Full, Bucket
        <4>2. (swept - ideal[l].last) * Rate \in Int
          BY <3>2, BucketAssumption
        <4> QED
          BY <1>4, <3>2, <3>4, <4>1, <4>2
      <3>8. Stays(l)'
        BY <1>1, <3>7 DEF Stays
      <3> QED
        BY <2>4, <3>5, <3>6, <3>8 DEF Accounted
    <2> QED
      BY <2>3, <2>4
  <1>26. ExactUnlessRaced'
    <2> SUFFICES ASSUME NEW l \in Callers \ raced' PROVE Level(l)' = IdealLevel(l)'
      BY DEF ExactUnlessRaced
    <2>1. Level(l) = IdealLevel(l) /\ IdealLevel(l)' = IdealLevel(l)
      BY <1>1, <1>14 DEF IInv, ExactUnlessRaced, IdealLevel
    <2>2. CASE l # k
      <3>1. CASE buckets[l] = NoId
        BY <1>9, <2>1, <2>2, <3>1 DEF Level
      <3>2. CASE buckets[l] # NoId
        BY <1>1, <1>9, <1>23, <2>1, <2>2, <3>2 DEF Level, Mapped
      <3> QED
        BY <3>1, <3>2
    <2>3. CASE l = k
      <3>1. ~(now < heap[id].last) /\ heap[id].last \in Int
        BY <1>1, <1>5, <2>3 DEF Bucket
      <3>2. heap[id].last <= now /\ now <= clock /\ clock \in Int
        BY <1>2, <1>3, <3>1
      <3>3. advanceLocked(b, clock) = advanceLocked(heap[id], clock)
        BY <1>3, <1>5, <3>2, AdvanceComposes DEF b
      <3>4. Level(k) = advanceLocked(heap[id], clock).tokens
        BY <1>2, <1>5 DEF Level
      <3>5. CASE Full(b)
        <4>1. b.tokens = Capacity
          BY <1>6, <3>5, CapacityIsPositive DEF Bucket, Full
        <4>2. advanceLocked(b, clock).tokens = Capacity
          BY <1>6, <3>2, <4>1, FullStays
        <4> QED
          BY <1>9, <2>1, <2>3, <3>3, <3>4, <3>5, <4>2 DEF Level
      <3>6. CASE ~Full(b)
        <4>1. k \in Mapped(buckets')
          BY <1>4, <1>9, <3>6 DEF Mapped
        <4>2. buckets'[l] # NoId /\ heap'[buckets'[l]] = b /\ clock' = clock
          BY <1>1, <1>24, <2>3, <4>1 DEF Mapped
        <4>3. Level(l)' = advanceLocked(b, clock).tokens
          BY <4>2 DEF Level
        <4> QED
          BY <2>1, <2>3, <3>3, <3>4, <4>3
      <3> QED
        BY <3>5, <3>6
    <2> QED
      BY <2>2, <2>3
  <1> QED
    BY <1>15, <1>16, <1>17, <1>18, <1>21, <1>22, <1>25, <1>26 DEF IInv
-----------------------------------------------------------------------------
\* A caller that has a bucket is given it; another gets a new one, which is full,
\* as the absent one was.
LEMMA LookupKeeps ==
  ASSUME IInv, NEW p \in Procs, Lookup(p)
  PROVE  IInv'
  <1> DEFINE k == call[p].key
             known == buckets[k]
  <1>1. /\ call[p].at = "lookup" /\ kmu' = NoProc
        /\ UNCHANGED <<clock, bmu, swept, ideal, raced>>
    BY DEF Lookup
  <1>2. /\ call \in [Procs -> Sections] /\ buckets \in [Callers -> Ids \cup {NoId}]
        /\ heap \in [Reachable(buckets, call) -> Bucket] /\ ideal \in [Callers -> Bucket]
        /\ raced \subseteq Callers /\ clock \in Nat /\ swept \in 0 .. clock
        /\ NoId \notin Ids
    BY KeyedAssumption DEF IInv, Typed
  <1>3. k \in Callers
    BY <1>1, <1>2, SectionLocals
  <1>4. \A q \in Procs : q # p => Ahead(call[q]) = {} /\ call[q].at \notin {"sweep", "evict", "lookup"}
    <2>1. kmu = p
      BY <1>1 DEF IInv, HoldsMutex
    <2> QED
      BY <2>1, Alone
  <1>5. \A q \in Procs : Ahead(call[q]) = {}
    BY <1>1, <1>4 DEF Ahead
  <1>6. Sections' = Sections
    BY <1>1 DEF Sections
  \* Either way the caller has its own bucket in hand, and no other bucket moved.
  <1>7. SUFFICES ASSUME NEW id \in Ids,
                        call' = [call EXCEPT ![p] = Taking("take", k, id)],
                        buckets' = [buckets EXCEPT ![k] = id],
                        known # NoId => id = known,
                        known = NoId => id \notin Reachable(buckets, call),
                        heap' \in [Reachable(buckets, call) \cup {id} -> Bucket],
                        heap'[id] = IF known = NoId THEN newAt(clock) ELSE heap[id],
                        \A i \in Reachable(buckets, call) : i # id => heap'[i] = heap[i]
                 PROVE  IInv'
    <2>1. CASE known # NoId
      <3>1. /\ call' = [call EXCEPT ![p] = Taking("take", k, known)] /\ heap' = heap /\ buckets' = buckets
        BY <2>1 DEF Lookup
      <3>2. known \in Ids /\ known \in Reachable(buckets, call)
        BY <1>2, <1>3, <2>1, ReachableIsOwned DEF IInv, Mapped
      <3>3. buckets' = [buckets EXCEPT ![k] = known]
        BY <1>2, <1>3, <3>1
      <3>4. Reachable(buckets, call) \cup {known} = Reachable(buckets, call)
        BY <3>2
      <3> QED
        BY <1>2, <1>7, <2>1, <3>1, <3>2, <3>3, <3>4
    <2>2. CASE known = NoId
      <3>1. PICK id \in Ids \ DOMAIN heap :
              /\ buckets' = [buckets EXCEPT ![k] = id]
              /\ heap' = [i \in DOMAIN heap \cup {id} |-> IF i = id THEN newAt(clock) ELSE heap[i]]
              /\ call' = [call EXCEPT ![p] = Taking("take", k, id)]
        BY <2>2 DEF Lookup
      <3>2. DOMAIN heap = Reachable(buckets, call) /\ newAt(clock) \in Bucket
        BY <1>2, NewIsFull
      <3>3. heap' \in [Reachable(buckets, call) \cup {id} -> Bucket]
        BY <1>2, <3>1, <3>2
      <3> QED
        BY <1>2, <1>7, <2>2, <3>1, <3>2, <3>3
    <2> QED
      BY <2>1, <2>2
  <1> DEFINE c == Taking("take", k, id)
  <1>8. /\ c \in Sections /\ c.at = "take" /\ HasBucket(c) /\ c.key = k /\ c.b = id
        /\ ~HasBucket(call[p])
    BY <1>1, <1>3, SectionsMade DEF HasBucket
  <1>9. /\ call'[p] = c /\ (\A q \in Procs : q # p => call'[q] = call[q])
        /\ call' \in [Procs -> Sections]
    BY <1>2, <1>7, <1>8
  <1>10. /\ buckets' \in [Callers -> Ids \cup {NoId}] /\ buckets'[k] = id
         /\ \A l \in Callers : l # k => buckets'[l] = buckets[l]
    BY <1>2, <1>3, <1>7
  <1> HIDE DEF k, known, c
  <1>11. Reachable(buckets', call') = Reachable(buckets, call) \cup {id}
    <2>1. ASSUME NEW i \in Reachable(buckets', call') PROVE i \in Reachable(buckets, call) \cup {id}
      <3>1. CASE \E l \in Callers : buckets'[l] # NoId /\ buckets'[l] = i
        BY <1>10, <3>1, ReachableForm
      <3>2. CASE \E q \in Procs : HasBucket(call'[q]) /\ call'[q].b = i
        BY <1>8, <1>9, <3>2, ReachableForm
      <3> QED
        BY <2>1, <3>1, <3>2, ReachableForm
    <2>2. id \in Reachable(buckets', call')
      BY <1>2, <1>3, <1>10, ReachableForm
    <2>3. ASSUME NEW i \in Reachable(buckets, call) PROVE i \in Reachable(buckets', call')
      <3>1. CASE \E l \in Callers : buckets[l] # NoId /\ buckets[l] = i
        <4> PICK l \in Callers : buckets[l] # NoId /\ buckets[l] = i
          BY <3>1
        <4>1. CASE l = k
          BY <1>7, <2>2, <4>1 DEF known
        <4>2. CASE l # k
          BY <1>10, <4>2, ReachableForm
        <4> QED
          BY <4>1, <4>2
      <3>2. CASE \E q \in Procs : HasBucket(call[q]) /\ call[q].b = i
        BY <1>8, <1>9, <3>2, ReachableForm
      <3> QED
        BY <2>3, <3>1, <3>2, ReachableForm
    <2> QED
      BY <2>1, <2>2, <2>3
  <1>12. Typed'
    BY <1>1, <1>2, <1>6, <1>7, <1>9, <1>10, <1>11 DEF IInv, Typed
  <1>13. HoldsMutex'
    BY <1>4, <1>8, <1>9 DEF HoldsMutex
  \* The bucket in hand was the caller's, or nobody's.
  <1>14. ASSUME NEW l \in Callers, Owns(l, id) PROVE l = k
    <2>1. CASE known # NoId
      <3>1. Owns(k, id)
        BY <1>7, <2>1 DEF Owns, known
      <3> QED
        BY <1>3, <1>14, <3>1 DEF IInv, OneOwner
    <2>2. CASE known = NoId
      BY <1>7, <1>14, <2>2, ReachableIsOwned DEF IInv
    <2> QED
      BY <2>1, <2>2
  <1>15. OneOwner'
    <2>1. ASSUME NEW l \in Callers, NEW i \in Ids, Owns(l, i)'
          PROVE  Owns(l, i) \/ (l = k /\ i = id)
      <3>1. CASE buckets'[l] = i
        BY <1>10, <3>1 DEF Owns
      <3>2. CASE \E q \in Procs : HasBucket(call'[q]) /\ call'[q].key = l /\ call'[q].b = i
        BY <1>8, <1>9, <3>2 DEF Owns
      <3> QED
        BY <2>1, <3>1, <3>2 DEF Owns
    <2> QED
      BY <1>14, <2>1 DEF IInv, OneOwner
  <1>16. ReadBefore'
    <2>1. heap'[id].last <= clock
      <3>1. CASE known = NoId
        BY <1>2, <1>7, <3>1, NewIsFull
      <3>2. CASE known # NoId
        <4>1. id \in Reachable(buckets, call)
          BY <1>2, <1>3, <1>7, <3>2, ReachableForm DEF known
        <4> QED
          BY <1>7, <3>2, <4>1 DEF IInv, ReadBefore
      <3> QED
        BY <3>1, <3>2
    <2> QED
      BY <1>1, <1>7, <1>11, <2>1 DEF IInv, ReadBefore
  <1>17. \A q \in Procs : Ahead(call'[q]) = {}
    BY <1>5, <1>8, <1>9 DEF Ahead
  <1>18. SweepsTheMap'
    BY <1>4, <1>8, <1>9, <1>17 DEF SweepsTheMap
  <1>19. TakesFromTheMap'
    <2> SUFFICES ASSUME NEW q \in Procs, HasBucket(call'[q]), call'[q].key \notin raced
                 PROVE  buckets'[call'[q].key] = call'[q].b
      BY <1>1 DEF TakesFromTheMap
    <2>1. CASE q = p
      BY <1>8, <1>9, <1>10, <2>1
    <2>2. CASE q # p
      <3>1. call'[q] = call[q] /\ call[q].key \in Callers /\ call[q].b \in Ids
            /\ buckets[call[q].key] = call[q].b
        BY <1>2, <1>9, <2>2, SectionLocals DEF IInv, TakesFromTheMap
      <3>2. CASE call[q].key = k
        BY <1>2, <1>7, <1>10, <3>1, <3>2 DEF known
      <3>3. CASE call[q].key # k
        BY <1>10, <3>1, <3>3
      <3> QED
        BY <3>2, <3>3
    <2> QED
      BY <2>1, <2>2
  <1>20. ASSUME NEW l \in Callers, l # k, buckets[l] # NoId
         PROVE  heap'[buckets[l]] = heap[buckets[l]]
    <2>1. l \in Mapped(buckets) /\ buckets[l] \in Ids /\ buckets[l] \in Reachable(buckets, call)
      BY <1>20, ReachableIsOwned DEF IInv, Mapped
    <2>2. buckets[l] # id
      BY <1>14, <1>20 DEF Owns
    <2> QED
      BY <1>7, <2>1, <2>2
  <1>21. EntriesAccounted'
    <2> SUFFICES ASSUME NEW l \in Callers, buckets'[l] # NoId PROVE Accounted(l)'
      BY DEF EntriesAccounted, Mapped
    <2>1. (l = k => Calling(l)') /\ (Calling(l) => Calling(l)')
      BY <1>8, <1>9 DEF Calling
    <2>2. ~IsAhead(l) /\ ~IsAhead(l)'
      BY <1>5, <1>17 DEF IsAhead
    <2>3. buckets[l] # NoId => Accounted(l)
      BY DEF IInv, EntriesAccounted, Mapped
    <2>4. CASE l # k
      <3>1. buckets[l] # NoId /\ heap'[buckets'[l]] = heap[buckets[l]]
        BY <1>10, <1>20, <2>4
      <3> QED
        BY <1>1, <2>1, <2>2, <2>3, <3>1, EntryStays
    <2>5. CASE l = k /\ known # NoId
      <3>1. buckets[l] # NoId /\ heap'[buckets'[l]] = heap[buckets[l]]
        BY <1>7, <1>10, <2>5 DEF known
      <3> QED
        BY <1>1, <2>1, <2>2, <2>3, <3>1, EntryStays
    <2>6. CASE l = k /\ known = NoId
      <3>1. heap'[buckets'[l]].tokens = Capacity
        BY <1>2, <1>7, <1>10, <2>6, NewIsFull
      <3> QED
        BY <2>1, <2>6, <3>1 DEF Accounted, Earned, LastRead, Stays, Capacity
    <2> QED
      BY <2>4, <2>5, <2>6
  <1>22. ExactUnlessRaced'
    <2> SUFFICES ASSUME NEW l \in Callers \ raced PROVE Level(l)' = IdealLevel(l)'
      BY <1>1 DEF ExactUnlessRaced
    <2>1. Level(l) = IdealLevel(l) /\ IdealLevel(l)' = IdealLevel(l)
      BY <1>1 DEF IInv, ExactUnlessRaced, IdealLevel
    <2>2. CASE l # k
      BY <1>1, <1>10, <1>20, <2>1, <2>2 DEF Level
    <2>3. CASE l = k /\ known # NoId
      <3>1. buckets'[l] = buckets[l] /\ heap'[buckets'[l]] = heap[buckets[l]]
        BY <1>7, <1>10, <2>3 DEF known
      <3> QED
        BY <1>1, <2>1, <3>1 DEF Level
    <2>4. CASE l = k /\ known = NoId
      <3>1. buckets'[l] # NoId /\ heap'[buckets'[l]] = newAt(clock)
        BY <1>2, <1>7, <1>10, <2>4
      <3>2. advanceLocked(newAt(clock), clock).tokens = Capacity
        BY <1>2, NewIsFull, FullStays
      <3>3. Level(l) = Capacity
        BY <2>4 DEF Level, known
      <3> QED
        BY <1>1, <2>1, <3>1, <3>2, <3>3 DEF Level
    <2> QED
      BY <2>2, <2>3, <2>4
  <1> QED
    BY <1>12, <1>13, <1>15, <1>16, <1>18, <1>19, <1>21, <1>22 DEF IInv
-----------------------------------------------------------------------------
\* Allow leaves a bucket, and buckets of one level alike.
LEMMA AllowLeaves ==
  ASSUME NEW b \in Bucket, NEW now \in Int
  PROVE  /\ Allow(b, now) \in Bucket /\ Allow(b, now).last = now
         /\ \A c \in Bucket : advanceLocked(b, now).tokens = advanceLocked(c, now).tokens
                             => Allow(b, now) = Allow(c, now)
  <1>1. advanceLocked(b, now) \in Bucket /\ advanceLocked(b, now).last = now
    BY AdvanceBounds
  <1>2. Allow(b, now) \in Bucket /\ Allow(b, now).last = now
    BY <1>1, SpendBounds DEF Allow
  <1>3. ASSUME NEW c \in Bucket, advanceLocked(b, now).tokens = advanceLocked(c, now).tokens
        PROVE  Allow(b, now) = Allow(c, now)
    <2>1. advanceLocked(b, now) = advanceLocked(c, now)
      BY <1>3 DEF advanceLocked
    <2> QED
      BY <2>1 DEF Allow
  <1> QED
    BY <1>2, <1>3

LEMMA TakeLockKeeps ==
  ASSUME IInv, NEW p \in Procs, TakeLock(p)
  PROVE  IInv'
  <1> DEFINE c == Taking("taking", call[p].key, call[p].b)
  <1>1. /\ call[p].at = "take" /\ HasBucket(call[p])
        /\ bmu' = [bmu EXCEPT ![call[p].b] = p]
        /\ call' = [call EXCEPT ![p] = c]
        /\ UNCHANGED <<clock, kmu, buckets, heap, swept, ideal, raced>>
    BY DEF TakeLock, HasBucket
  <1>2. /\ call[p].key \in Callers /\ call[p].b \in Ids /\ swept \in 0 .. clock
        /\ kmu \in Procs \cup {NoProc} /\ bmu \in [Ids -> Procs \cup {NoProc}]
    <2>1. /\ call[p] \in Sections /\ swept \in 0 .. clock
          /\ kmu \in Procs \cup {NoProc} /\ bmu \in [Ids -> Procs \cup {NoProc}]
      BY DEF IInv, Typed
    <2> QED
      BY <1>1, <2>1, SectionLocals
  <1>3. /\ c \in Sections /\ c.at = "taking" /\ HasBucket(c)
        /\ c.key = call[p].key /\ c.b = call[p].b
    BY <1>2, SectionsMade DEF HasBucket
  <1> HIDE DEF c
  <1>4. bmu' \in [Ids -> Procs \cup {NoProc}]
    BY <1>1, <1>2
  <1>5. /\ Typed' /\ OneOwner' /\ ReadBefore' /\ TakesFromTheMap' /\ ExactUnlessRaced'
        /\ call'[p] = c /\ (\A q \in Procs : q # p => call'[q] = call[q])
        /\ \A l : Calling(l)' <=> Calling(l)
    BY <1>1, <1>2, <1>3, <1>4, MovingOn
  <1>6. Ahead(call[p]) = {} /\ Ahead(c) = {}
    BY <1>1, <1>3 DEF Ahead
  <1>7. HoldsMutex'
    BY <1>1, <1>3, <1>5 DEF IInv, HoldsMutex
  <1>8. SweepsTheMap'
    BY <1>1, <1>3, <1>5, <1>6 DEF IInv, SweepsTheMap
  <1>9. EntriesAccounted'
    BY <1>1, <1>5, <1>6, EntriesStay
  <1> QED
    BY <1>5, <1>7, <1>8, <1>9 DEF IInv

\* A take is from the caller's own bucket, and alike from the one it would have.
LEMMA TakeKeeps ==
  ASSUME IInv, NEW p \in Procs, Take(p)
  PROVE  IInv'
  <1> DEFINE k == call[p].key
             id == call[p].b
             left == Allow(heap[id], clock)
  <1>1. /\ call[p].at = "taking" /\ HasBucket(call[p])
        /\ call' = [call EXCEPT ![p] = Returned]
        /\ bmu' = [bmu EXCEPT ![id] = NoProc]
        /\ heap' = [i \in Reachable(buckets, call') |-> [heap EXCEPT ![id] = left][i]]
        /\ ideal' = [ideal EXCEPT ![k] = Allow(ideal[k], clock)]
        /\ UNCHANGED <<clock, kmu, buckets, swept, raced>>
    BY DEF Take, Restrict, IInv, Typed, HasBucket
  <1>2. /\ call \in [Procs -> Sections] /\ buckets \in [Callers -> Ids \cup {NoId}]
        /\ heap \in [Reachable(buckets, call) -> Bucket] /\ ideal \in [Callers -> Bucket]
        /\ clock \in Nat /\ swept \in 0 .. clock /\ NoId \notin Ids
    BY KeyedAssumption DEF IInv, Typed
  <1>3. k \in Callers /\ id \in Ids /\ id \in Reachable(buckets, call) /\ heap[id] \in Bucket
    BY <1>1, <1>2, SectionLocals, ReachableIsOwned DEF IInv
  <1>4. left \in Bucket /\ left.last = clock
    BY <1>2, <1>3, AllowLeaves
  <1>5. /\ ideal' \in [Callers -> Bucket] /\ ideal'[k] = Allow(ideal[k], clock)
        /\ ideal'[k].last = clock /\ \A l \in Callers : l # k => ideal'[l] = ideal[l]
    BY <1>1, <1>2, <1>3, AllowLeaves
  <1>6. /\ call'[p] = Returned /\ (\A q \in Procs : q # p => call'[q] = call[q])
        /\ Returned.at = "returned" /\ Returned \in Sections /\ call' \in [Procs -> Sections]
        /\ ~HasBucket(Returned) /\ bmu' \in [Ids -> Procs \cup {NoProc}]
    <2>1. bmu \in [Ids -> Procs \cup {NoProc}]
      BY DEF IInv, Typed
    <2> QED
      BY <1>1, <1>2, <1>3, <2>1, SectionsMade DEF HasBucket
  <1> HIDE DEF k, id, left
  <1>7. Reachable(buckets, call') \subseteq Reachable(buckets, call)
    <2> SUFFICES ASSUME NEW i \in Reachable(buckets, call') PROVE i \in Reachable(buckets, call)
      OBVIOUS
    <2>1. CASE \E l \in Callers : buckets[l] # NoId /\ buckets[l] = i
      BY <2>1, ReachableForm
    <2>2. CASE \E q \in Procs : HasBucket(call'[q]) /\ call'[q].b = i
      BY <1>6, <2>2, ReachableForm
    <2> QED
      BY <2>1, <2>2, ReachableForm
  <1>8. /\ heap' \in [Reachable(buckets, call') -> Bucket]
        /\ \A i \in Reachable(buckets, call') : heap'[i] = IF i = id THEN left ELSE heap[i]
    BY <1>1, <1>2, <1>3, <1>4, <1>7
  <1>9. Sections' = Sections
    BY <1>1 DEF Sections
  <1>10. Typed'
    BY <1>1, <1>5, <1>6, <1>8, <1>9 DEF IInv, Typed
  <1>11. HoldsMutex'
    BY <1>1, <1>6 DEF IInv, HoldsMutex
  <1>12. OneOwner'
    <2>1. ASSUME NEW l \in Callers, NEW i \in Ids, Owns(l, i)' PROVE Owns(l, i)
      <3>1. CASE buckets[l] = i
        BY <3>1 DEF Owns
      <3>2. CASE \E q \in Procs : HasBucket(call'[q]) /\ call'[q].key = l /\ call'[q].b = i
        BY <1>6, <3>2 DEF Owns
      <3> QED
        BY <1>1, <2>1, <3>1, <3>2 DEF Owns
    <2> QED
      BY <2>1 DEF IInv, OneOwner
  <1>13. ReadBefore'
    <2>1. ASSUME NEW i \in Reachable(buckets, call') PROVE heap'[i].last <= clock
      <3>1. CASE i = id
        BY <1>2, <1>4, <1>8, <3>1
      <3>2. CASE i # id
        BY <1>7, <1>8, <3>2 DEF IInv, ReadBefore
      <3> QED
        BY <3>1, <3>2
    <2>2. ASSUME NEW l \in Callers PROVE ideal'[l].last <= clock
      <3>1. CASE l = k
        BY <1>2, <1>5, <3>1
      <3>2. CASE l # k
        BY <1>5, <3>2 DEF IInv, ReadBefore
      <3> QED
        BY <3>1, <3>2
    <2> QED
      BY <1>1, <2>1, <2>2 DEF ReadBefore
  <1>14. \A q \in Procs : Ahead(call'[q]) = Ahead(call[q])
    BY <1>1, <1>6 DEF Ahead
  <1>15. SweepsTheMap'
    BY <1>1, <1>6, <1>14 DEF IInv, SweepsTheMap
  <1>16. TakesFromTheMap'
    BY <1>1, <1>6 DEF IInv, TakesFromTheMap
  <1>17. ASSUME NEW l \in Callers, buckets[l] # NoId
         PROVE  /\ heap'[buckets[l]] = IF buckets[l] = id THEN left ELSE heap[buckets[l]]
                /\ buckets[l] = id => l = k
    <2>1. buckets[l] \in Reachable(buckets, call')
      BY <1>17, ReachableForm
    <2>2. Owns(l, buckets[l]) /\ Owns(k, id)
      BY <1>1 DEF Owns, k, id
    <2> QED
      BY <1>3, <1>8, <2>1, <2>2 DEF IInv, OneOwner
  <1>18. EntriesAccounted'
    <2> SUFFICES ASSUME NEW l \in Callers, buckets[l] # NoId PROVE Accounted(l)'
      BY <1>1 DEF EntriesAccounted, Mapped
    <2>1. IsAhead(l)' <=> IsAhead(l)
      BY <1>14 DEF IsAhead
    <2>2. CASE l # k
      <3>1. heap'[buckets[l]] = heap[buckets[l]] /\ ideal'[l] = ideal[l]
        BY <1>5, <1>17, <2>2
      <3>2. Calling(l) => Calling(l)'
        BY <1>6, <2>2 DEF Calling, k
      <3>3. Accounted(l)
        BY DEF IInv, EntriesAccounted, Mapped
      <3> QED
        BY <1>1, <2>1, <3>1, <3>2, <3>3, EntryStays
    \* Its caller took just now.
    <2>3. CASE l = k
      <3> DEFINE last == heap'[buckets[l]].last
                 tokens == heap'[buckets[l]].tokens
      <3>1. buckets[l] \in Reachable(buckets, call')
        BY ReachableForm
      <3>2. last \in Int /\ tokens \in Nat /\ last <= clock
        <4>1. heap'[buckets[l]] \in Bucket /\ heap'[buckets[l]].last <= clock
          BY <1>1, <1>8, <1>13, <3>1 DEF ReadBefore
        <4> QED
          BY <4>1, CapacityIsPositive DEF Bucket
      <3> HIDE DEF last, tokens
      <3>3. (last - clock) * Rate <= 0
        BY <1>2, <3>2, BucketAssumption
      <3>4. Earned(l)'
        <4>1. (last - clock) * Rate \in Int
          BY <1>2, <3>2, BucketAssumption
        <4>2. (last - clock) * Rate <= tokens
          BY <3>2, <3>3, <4>1
        <4> QED
          BY <1>1, <1>5, <2>3, <4>2 DEF Earned, last, tokens
      <3>5. LastRead(l)'
        BY <1>1, <1>5, <2>3, <3>2 DEF LastRead, last
      <3>6. Stays(l)'
        BY <1>1, <1>2, <1>5, <2>3, KeyedAssumption DEF Stays
      <3> QED
        BY <3>4, <3>5, <3>6 DEF Accounted
    <2> QED
      BY <2>2, <2>3
  <1>19. ExactUnlessRaced'
    <2> SUFFICES ASSUME NEW l \in Callers \ raced PROVE Level(l)' = IdealLevel(l)'
      BY <1>1 DEF ExactUnlessRaced
    <2>1. Level(l) = IdealLevel(l)
      BY DEF IInv, ExactUnlessRaced
    <2>2. CASE l = k
      <3>1. buckets[l] = id
        BY <1>1, <2>2 DEF IInv, TakesFromTheMap, k, id
      <3>2. buckets[l] # NoId /\ heap'[buckets[l]] = left
        BY <1>2, <1>3, <1>17, <3>1
      <3>3. advanceLocked(heap[id], clock).tokens = advanceLocked(ideal[k], clock).tokens
        BY <2>1, <2>2, <3>1, <3>2 DEF Level, IdealLevel
      <3>4. left = ideal'[k]
        BY <1>2, <1>3, <1>5, <3>3, AllowLeaves DEF left
      <3> QED
        BY <1>1, <2>2, <3>2, <3>4 DEF Level, IdealLevel
    <2>3. CASE l # k /\ buckets[l] = NoId
      BY <1>1, <1>5, <2>1, <2>3 DEF Level, IdealLevel
    <2>4. CASE l # k /\ buckets[l] # NoId
      <3>1. heap'[buckets[l]] = heap[buckets[l]]
        BY <1>17, <2>4
      <3> QED
        BY <1>1, <1>5, <2>1, <2>4, <3>1 DEF Level, IdealLevel
    <2> QED
      BY <2>2, <2>3, <2>4
  <1> QED
    BY <1>10, <1>11, <1>12, <1>13, <1>15, <1>16, <1>18, <1>19 DEF IInv

LEMMA NextKeeps == IInv /\ [Next]_vars => IInv'
  <1> SUFFICES ASSUME IInv, [Next]_vars PROVE IInv'
    OBVIOUS
  <1>1. CASE Tick
    BY <1>1, TickKeeps
  <1>2. ASSUME NEW p \in Procs, NEW key \in Callers, Call(p, key) PROVE IInv'
    BY <1>2, CallKeeps
  <1>3. ASSUME NEW p \in Procs, Step(p) PROVE IInv'
    BY <1>3, LockKeeps, SweepCheckKeeps, SweepDoneKeeps, SweepEvictKeeps, LookupKeeps,
       TakeLockKeeps, TakeKeeps DEF Step, LockBucket
  <1>4. CASE UNCHANGED vars
    <2>1. UNCHANGED <<clock, kmu, bmu, buckets, heap, swept, call, ideal, raced>>
      BY <1>4 DEF vars
    <2>2. Sections' = Sections
      BY <2>1 DEF Sections
    <2>3. Typed' /\ HoldsMutex' /\ OneOwner' /\ ReadBefore'
      BY <2>1, <2>2 DEF IInv, Typed, HoldsMutex, OneOwner, Owns, ReadBefore
    <2>4. SweepsTheMap' /\ TakesFromTheMap' /\ EntriesAccounted' /\ ExactUnlessRaced'
      BY <2>1 DEF IInv, SweepsTheMap, TakesFromTheMap, ExactUnlessRaced, Level, IdealLevel,
                  EntriesAccounted, Accounted, Earned, LastRead, Stays, IsAhead, Calling
    <2> QED
      BY <2>3, <2>4 DEF IInv
  <1> QED
    BY <1>1, <1>2, <1>3, <1>4 DEF Next
-----------------------------------------------------------------------------
\* Who may touch which bucket, and what that says of its level, holds throughout.
THEOREM Invariance == Spec => []IInv
  BY InitEstablishes, NextKeeps, PTL DEF Spec

\* Every variable keeps its type, and the heap is what is reachable.
THEOREM TypeCorrect == Spec => []TypeOK
  <1>1. IInv => TypeOK
    BY TypedIsTypeOK DEF IInv
  <1> QED
    BY <1>1, Invariance, PTL

\* For any number of callers and goroutines, a caller has the tokens it would have
\* if no bucket was ever evicted, unless a sweep raced with one of its calls.
THEOREM EvictionIsExact == Spec => []ExactUnlessRaced
  <1>1. IInv => ExactUnlessRaced
    BY DEF IInv
  <1> QED
    BY <1>1, Invariance, PTL

\* For any number of callers and goroutines, and however their calls meet the sweeps,
\* the map holds no bucket of a caller that went away for the idle period and for the
\* time that an empty bucket takes to fill.
THEOREM TheMapForgets == Spec => []IdleCallersLeave
  <1>1. IInv => IdleCallersLeave
    <2> SUFFICES ASSUME IInv, \A p \in Procs : call[p].at \notin {"sweep", "evict"},
                        NEW key \in Mapped(buckets)
                 PROVE  Stays(key)
      BY DEF IdleCallersLeave, Stays, Calling
    <2>1. ~IsAhead(key)
      BY DEF IsAhead, Ahead
    <2> QED
      BY <2>1 DEF IInv, EntriesAccounted, Accounted
  <1> QED
    BY <1>1, Invariance, PTL
=============================================================================
