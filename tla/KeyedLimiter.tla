---------------------------- MODULE KeyedLimiter ----------------------------
(***************************************************************************)
(* ratelimit.Keyed: one bucket per caller in a map, and the sweep that     *)
(* evicts idle ones, under the goroutines of concurrent requests.          *)
(*                                                                         *)
(* There are two levels of locks.  k.mu guards the map and is held from    *)
(* the reading of the clock, through a sweep if one is due, to the lookup. *)
(* Each bucket's own mutex guards its level: the sweep takes it twice for  *)
(* a bucket (the idle check, then fullAt) and releases it in between, and  *)
(* Allow on the bucket runs after k.mu was released.  So a bucket that a   *)
(* goroutine has looked up can be read, re-based and evicted by another's  *)
(* sweep before its owner takes from it.  Every step here is one critical  *)
(* section of a bucket, or of k.mu where no bucket is touched; but the     *)
(* section of a take is two steps, so that a sweep, which has k.mu, can    *)
(* come to a bucket whose mutex another goroutine has.                     *)
(*                                                                         *)
(* The clock is Go's monotonic one: it never goes back.  A reading of it   *)
(* does go stale, though: `now` is taken once, before the sweep.           *)
(***************************************************************************)
EXTENDS TokenBucket, FiniteSets, Functions

CONSTANTS
    Callers,   \* SPIFFE IDs, the keys
    Procs,     \* goroutines that call Allow
    Ids,       \* addresses of buckets
    NoId,      \* no bucket
    NoProc,    \* a mutex is free
    Idle,      \* Keyed.idle, in ticks
    MaxTime    \* bound on the clock

ASSUME KeyedAssumption ==
    /\ NoId \notin Ids
    /\ NoProc \notin Procs
    /\ Idle \in Nat \ {0}
    /\ MaxTime \in Nat

VARIABLES
    clock,
    kmu,       \* Keyed.mu: the goroutine that holds it
    bmu,       \* Limiter.mu of each bucket: the goroutine that holds it
    buckets,   \* Keyed.buckets
    heap,      \* the Limiters that are in the map or held by a goroutine
    swept,     \* Keyed.swept
    call,      \* where each goroutine is in Allow, with its locals
    ideal,     \* for each caller, the bucket it would have without eviction
    raced      \* callers whose bucket a sweep evicted or re-based mid-call

vars == <<clock, kmu, bmu, buckets, heap, swept, call, ideal, raced>>

Returned == [at |-> "returned"]

\* Locals of Allow: the key, the reading of the clock, the buckets the sweep
\* has still to look at, the one it is at, and the one looked up.
Waiting(key) == [at |-> "lock", key |-> key]
Holding(at, key, now, todo) == [at |-> at, key |-> key, now |-> now, todo |-> todo]
Evicting(key, now, todo, idle) ==
    [at |-> "evict", key |-> key, now |-> now, todo |-> todo, idle |-> idle]
Taking(at, key, b) == [at |-> at, key |-> key, b |-> b]

\* A goroutine has a bucket in hand from the lookup to the end of its take.
HasBucket(c) == c.at \in {"take", "taking"}

Mapped(m) == {key \in Callers : m[key] # NoId}

\* What the garbage collector keeps.
Reachable(m, c) ==
    {m[key] : key \in Mapped(m)} \cup {c[p].b : p \in {q \in Procs : HasBucket(c[q])}}

Init ==
    /\ clock = 0
    /\ kmu = NoProc
    /\ bmu = [id \in Ids |-> NoProc]
    /\ buckets = [key \in Callers |-> NoId]
    /\ heap = [id \in {} |-> newAt(0)]
    /\ swept = 0
    /\ call = [p \in Procs |-> Returned]
    /\ ideal = [key \in Callers |-> newAt(0)]
    /\ raced = {}

Tick ==
    /\ clock < MaxTime
    /\ clock' = clock + 1
    /\ UNCHANGED <<kmu, bmu, buckets, heap, swept, call, ideal, raced>>

\* A request of the caller reaches Keyed.Allow.
Call(p, key) ==
    /\ call[p] = Returned
    /\ call' = [call EXCEPT ![p] = Waiting(key)]
    /\ UNCHANGED <<clock, kmu, bmu, buckets, heap, swept, ideal, raced>>

\* Allow takes k.mu, reads the clock and starts a sweep if one is due.
Lock(p) ==
    LET due == clock - swept >= Idle
        key == call[p].key
    IN  /\ call[p].at = "lock"
        /\ kmu = NoProc
        /\ kmu' = p
        /\ swept' = IF due THEN clock ELSE swept
        /\ call' = [call EXCEPT ![p] =
             IF due THEN Holding("sweep", key, clock, Mapped(buckets))
                    ELSE Holding("lookup", key, clock, {})]
        /\ UNCHANGED <<clock, bmu, buckets, heap, ideal, raced>>

\* Nobody has the mutex of the bucket.
Free(id) == bmu[id] = NoProc

Stale(b, now) == now - b.last >= Idle

\* sweepLocked looks at one more bucket, in any order, under the bucket's mutex.
SweepCheck(p, key) ==
    LET c == call[p]
        todo == c.todo \ {key}
    IN  /\ c.at = "sweep"
        /\ key \in c.todo
        /\ Free(buckets[key])
        /\ call' = [call EXCEPT ![p] =
             IF Stale(heap[buckets[key]], c.now)
             THEN Evicting(c.key, c.now, todo, key)
             ELSE Holding("sweep", c.key, c.now, todo)]
        /\ UNCHANGED <<clock, kmu, bmu, buckets, heap, swept, ideal, raced>>

SweepDone(p) ==
    /\ call[p].at = "sweep"
    /\ call[p].todo = {}
    /\ call' = [call EXCEPT ![p] = Holding("lookup", call[p].key, call[p].now, {})]
    /\ UNCHANGED <<clock, kmu, bmu, buckets, heap, swept, ideal, raced>>

\* Evict whether or not the bucket is full.
EvictsAny(b) == TRUE

\* Re-base what is idle and evict nothing.
EvictsNever(b) == FALSE

Evicts(b) == Full(b)

\* sweepLocked calls fullAt on the idle bucket, which is deleted if it is full.
\* The delete comes after the bucket's mutex is released; a taker that slips in
\* between does not look at the map, so it is one that comes after.
SweepEvict(p) ==
    LET c == call[p]
        id == buckets[c.idle]
        b == advanceLocked(heap[id], c.now)
        held == \E q \in Procs : HasBucket(call[q]) /\ call[q].b = id
        next == [call EXCEPT ![p] = Holding("sweep", c.key, c.now, c.todo)]
        kept == IF Evicts(b) THEN [buckets EXCEPT ![c.idle] = NoId] ELSE buckets
    IN  /\ c.at = "evict"
        /\ Free(id)
        /\ buckets' = kept
        /\ call' = next
        /\ heap' = Restrict([heap EXCEPT ![id] = b], Reachable(kept, next))
        /\ raced' = IF (Evicts(b) /\ held) \/ c.now < heap[id].last
                    THEN raced \cup {c.idle} ELSE raced
        /\ UNCHANGED <<clock, kmu, bmu, swept, ideal>>

\* Allow finds or creates the caller's bucket and releases k.mu.
Lookup(p) ==
    LET c == call[p]
        known == buckets[c.key]
    IN  /\ c.at = "lookup"
        /\ kmu' = NoProc
        /\ \/ /\ known # NoId
              /\ call' = [call EXCEPT ![p] = Taking("take", c.key, known)]
              /\ UNCHANGED <<buckets, heap>>
           \/ /\ known = NoId
              /\ Ids \ DOMAIN heap # {}
              /\ LET id == CHOOSE i \in Ids \ DOMAIN heap : TRUE
                 IN  /\ buckets' = [buckets EXCEPT ![c.key] = id]
                     /\ heap' = [i \in DOMAIN heap \cup {id} |->
                                   IF i = id THEN newAt(clock) ELSE heap[i]]
                     /\ call' = [call EXCEPT ![p] = Taking("take", c.key, id)]
        /\ UNCHANGED <<clock, bmu, swept, ideal, raced>>

\* b.Allow takes the bucket's mutex, after k.mu was released.
TakeLock(p) ==
    LET c == call[p]
    IN  /\ c.at = "take"
        /\ Free(c.b)
        /\ bmu' = [bmu EXCEPT ![c.b] = p]
        /\ call' = [call EXCEPT ![p] = Taking("taking", c.key, c.b)]
        /\ UNCHANGED <<clock, kmu, buckets, heap, swept, ideal, raced>>

\* What Allow on a bucket leaves: a token less if one was there.
Allow(b, now) ==
    LET refilled == advanceLocked(b, now)
    IN  IF Admits(refilled) THEN Spend(refilled) ELSE refilled

\* b.Allow reads the clock, takes a token if there is one and returns.
Take(p) ==
    LET c == call[p]
        next == [call EXCEPT ![p] = Returned]
    IN  /\ c.at = "taking"
        /\ call' = next
        /\ bmu' = [bmu EXCEPT ![c.b] = NoProc]
        /\ heap' = Restrict([heap EXCEPT ![c.b] = Allow(@, clock)], Reachable(buckets, next))
        /\ ideal' = [ideal EXCEPT ![c.key] = Allow(@, clock)]
        /\ UNCHANGED <<clock, kmu, buckets, swept, raced>>

\* The steps that wait for a bucket's mutex.
LockBucket(p) == (\E key \in Callers : SweepCheck(p, key)) \/ SweepEvict(p) \/ TakeLock(p)

\* Before it takes, and with the bucket's mutex in hand, Allow makes sure under
\* k.mu that the bucket is still in the map.
StepRechecks(p) ==
    \/ Lock(p) \/ LockBucket(p) \/ SweepDone(p) \/ Lookup(p)
    \/ kmu = NoProc /\ Take(p)

Step(p) == Lock(p) \/ LockBucket(p) \/ SweepDone(p) \/ Lookup(p) \/ Take(p)

Next ==
    \/ Tick
    \/ \E p \in Procs : Step(p) \/ \E key \in Callers : Call(p, key)

Spec == Init /\ [][Next]_vars

\* A runnable goroutine runs, and sync.Mutex hands a starved waiter the lock:
\* taking a mutex, which others take in between, is strongly fair.
FairSpec ==
    /\ Spec
    /\ \A p \in Procs : WF_vars(Step(p)) /\ SF_vars(Lock(p)) /\ SF_vars(LockBucket(p))
-----------------------------------------------------------------------------
\* Where a goroutine is in Allow, as a record of its locals.
Sections ==
    {Returned} \cup
    [at : {"lock"}, key : Callers] \cup
    [at : {"sweep", "lookup"}, key : Callers, now : 0 .. clock, todo : SUBSET Callers] \cup
    [at : {"evict"}, key : Callers, now : 0 .. clock, todo : SUBSET Callers, idle : Callers] \cup
    [at : {"take", "taking"}, key : Callers, b : Ids]

TypeOK ==
    /\ clock \in 0 .. MaxTime
    /\ kmu \in Procs \cup {NoProc}
    /\ bmu \in [Ids -> Procs \cup {NoProc}]
    /\ buckets \in [Callers -> Ids \cup {NoId}]
    /\ DOMAIN heap = Reachable(buckets, call)
    /\ \A id \in DOMAIN heap : heap[id] \in Bucket
    /\ swept \in 0 .. clock
    /\ call \in [Procs -> Sections]
    /\ ideal \in [Callers -> Bucket]
    /\ raced \subseteq Callers

\* What a caller could take now: an absent bucket is one that is full.
Level(key) ==
    IF buckets[key] = NoId THEN Capacity ELSE advanceLocked(heap[buckets[key]], clock).tokens

IdealLevel(key) == advanceLocked(ideal[key], clock).tokens

\* Eviction is exact, as the comment on Keyed argues, unless a sweep touched
\* the bucket while another goroutine was between its lookup and its take: a
\* caller has the tokens it would have if no bucket was ever evicted.
ExactUnlessRaced ==
    \A key \in Callers \ raced : Level(key) = IdealLevel(key)

\* The map does not grow with callers that went away.  Between sweeps, whoever has
\* a bucket has a call under way, or made one less than the idle period before the
\* last sweep or, if that is longer, less than the time an empty bucket takes to
\* fill: no bucket outlives both, however often a sweep found it idle, re-based its
\* clock and let it stay.  (ideal[key].last is when the caller last took.)
IdleCallersLeave ==
    (\A p \in Procs : call[p].at \notin {"sweep", "evict"}) =>
        \A key \in Mapped(buckets) :
          \/ \E p \in Procs : HasBucket(call[p]) /\ call[p].key = key
          \/ swept - ideal[key].last < Idle
          \/ (swept - ideal[key].last) * Rate < Capacity

\* Every call of Allow returns.  A sweep waits for the mutex of a bucket with k.mu
\* in hand, and a take is stopped with a bucket's mutex in hand; no goroutine is
\* left waiting, because none that has a bucket's mutex waits for another.
AllowReturns ==
    \A p \in Procs : call[p].at = "lock" ~> call[p] = Returned

\* The comment on Keyed: eviction cannot hand anyone a limit they had already
\* spent.  No take is admitted that the caller's own tokens do not cover.
NoLimitHandedBack ==
    [][\A p \in Procs :
         Take(p) /\ ~Admits(advanceLocked(ideal[call[p].key], clock))
           => ~Admits(advanceLocked(heap[call[p].b], clock))]_vars
=============================================================================
