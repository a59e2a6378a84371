----------------------------- MODULE Admission -----------------------------
(***************************************************************************)
(* The two limits of Broker.Issue together: a request spends a token of    *)
(* its caller's bucket, is resolved (the lookup and the CSR's proof), and  *)
(* spends a token of the bucket that all callers share.  A client that is  *)
(* refused is told when to come back, in whole seconds, by handleIssue.    *)
(*                                                                         *)
(* Clients are the goroutines of requests; several may be one caller's.    *)
(* Between two steps of one any other may go on.  Both limits read         *)
(* time.Now, which does not go back, and no bucket is evicted here:        *)
(* KeyedLimiter is about eviction and Limiter about clocks that do.        *)
(*                                                                         *)
(* What the properties speak of is kept by an observer: it follows one     *)
(* client (Watched), and from a moment it chooses counts what is done for  *)
(* that client's caller.                                                   *)
(***************************************************************************)
EXTENDS Integers, FiniteSets

CONSTANTS
    Clients,
    Callers,
    CallerOf,     \* CallerOf[k]: the caller that client k is
    Watched,      \* the client that is followed
    Second,       \* ticks in a second
    OwnRate, OwnBurst, OwnUnit,
    SharedRate, SharedBurst, SharedUnit,
    MaxTime       \* bound on the clock

Own == INSTANCE TokenBucket WITH Rate <- OwnRate, Burst <- OwnBurst, Unit <- OwnUnit
Shared == INSTANCE TokenBucket WITH Rate <- SharedRate, Burst <- SharedBurst, Unit <- SharedUnit

ASSUME AdmissionAssumption ==
    /\ CallerOf \in [Clients -> Callers]
    /\ Watched \in Clients
    /\ {Second, OwnRate, OwnBurst, OwnUnit, SharedRate, SharedBurst, SharedUnit}
         \subseteq Nat \ {0}
    /\ MaxTime \in Nat

VARIABLES
    clock,
    own,       \* Broker.callerLimit: a bucket for each caller
    shared,    \* Broker.globalLimit
    stage,     \* where each client's request is
    told,      \* what Watched was told last, and which limits others drew from since
    window     \* what was done for Watched's caller, beyond what was
               \* on its way, since the observer began

vars == <<clock, own, shared, stage, told, window>>

Caller == CallerOf[Watched]

\* The time in which a caller's own limit earns a token.
TokenTime == (OwnUnit + OwnRate - 1) \div OwnRate

InFlight == Cardinality({k \in Clients : CallerOf[k] = Caller /\ stage[k] # "idle"})

\* Nothing was told, or nothing more can be said of what was.
Untold == [by |-> "nobody", until |-> 0, earned |-> 0, drawn |-> {}]

\* Another client has drawn a token from a limit: what the observer keeps of it.
Drawn(limit) ==
    LET drawn == told.drawn \union {limit}
    IN  told' = IF told.by = "own" /\ limit = "shared" THEN told
                ELSE IF told.by = "shared" /\ drawn # {"own", "shared"}
                THEN [told EXCEPT !.drawn = drawn]
                ELSE Untold

Init ==
    /\ clock = 0
    /\ own = [c \in Callers |-> Own!newAt(0)]
    /\ shared = Shared!newAt(0)
    /\ stage = [k \in Clients |-> "idle"]
    /\ told = Untold
    /\ window = [from |-> 0, resolved |-> 0, asked |-> 0]

\* The header is cut to whole seconds.
HeaderCut(wait) == wait \div Second

\* Retry-After: the wait, rounded up to whole seconds.
RetryAfterHeader(wait) == (wait + Second - 1) \div Second

\* A rate_limited refusal, by one of the limits.
Limited(k, by, wait) ==
    /\ stage' = [stage EXCEPT ![k] = "idle"]
    /\ told' = IF k # Watched THEN told
               ELSE [by |-> by, until |-> clock + Second * RetryAfterHeader(wait),
                     earned |-> IF by = "own" THEN 0 ELSE clock + TokenTime, drawn |-> {}]

\* The caller's own limit, before any other work is done for the request.
OwnLimit(k) ==
    LET c == CallerOf[k]
        b == Own!advanceLocked(own[c], clock)
    IN  /\ stage[k] = "idle"
        /\ \/ /\ Own!Admits(b)
              /\ own' = [own EXCEPT ![c] = Own!Spend(b)]
              /\ stage' = [stage EXCEPT ![k] = "resolve"]
              /\ IF k = Watched THEN told' = IF told.by = "own" THEN Untold ELSE told
                 ELSE IF c = Caller THEN Drawn("own")
                 ELSE UNCHANGED told
           \/ /\ ~Own!Admits(b)
              /\ own' = [own EXCEPT ![c] = b]
              /\ Limited(k, "own", Own!RetryAfter(b))
        /\ UNCHANGED <<clock, shared, window>>

\* The lookup and the proof of possession: work done for the caller, whether or
\* not it is mapped.  A refusal here is not rate_limited and tells no time.
Resolve(k) ==
    /\ stage[k] = "resolve"
    /\ \/ /\ stage' = [stage EXCEPT ![k] = "ask"]
          /\ UNCHANGED told
       \/ /\ stage' = [stage EXCEPT ![k] = "idle"]
          /\ told' = IF k = Watched THEN Untold ELSE told
    /\ window' = [window EXCEPT !.resolved = IF CallerOf[k] = Caller THEN @ + 1 ELSE @]
    /\ UNCHANGED <<clock, own, shared>>

\* The limit that all callers share, the last thing before the CA.
GlobalLimit(k) ==
    LET b == Shared!advanceLocked(shared, clock)
    IN  /\ stage[k] = "ask"
        /\ \/ /\ Shared!Admits(b)
              /\ shared' = Shared!Spend(b)
              /\ stage' = [stage EXCEPT ![k] = "idle"]
              /\ IF k = Watched THEN told' = Untold ELSE Drawn("shared")
              /\ window' = [window EXCEPT !.asked = IF CallerOf[k] = Caller THEN @ + 1 ELSE @]
           \/ /\ ~Shared!Admits(b)
              /\ shared' = b
              /\ Limited(k, "shared", Shared!RetryAfter(b))
              /\ UNCHANGED window
        /\ UNCHANGED <<clock, own>>

\* Time passes.
Tick ==
    /\ clock < MaxTime
    /\ clock' = clock + 1
    /\ UNCHANGED <<own, shared, stage, told, window>>

\* The observer begins to count, at a time of its choice.
Watch ==
    /\ window.from = 0
    /\ clock > 0
    /\ window' = [from |-> clock, resolved |-> -InFlight, asked |-> -InFlight]
    /\ UNCHANGED <<clock, own, shared, stage, told>>

Next ==
    \/ \E k \in Clients : OwnLimit(k) \/ Resolve(k) \/ GlobalLimit(k)
    \/ Tick \/ Watch

Spec == Init /\ [][Next]_vars
-----------------------------------------------------------------------------
TypeOK ==
    /\ clock \in 0 .. MaxTime
    /\ own \in [Callers -> Own!Bucket]
    /\ shared \in Shared!Bucket
    /\ stage \in [Clients -> {"idle", "resolve", "ask"}]
    /\ told \in [by : {"nobody", "own", "shared"}, until : Nat, earned : Nat,
                 drawn : SUBSET {"own", "shared"}]
    /\ window \in [from : Nat, resolved : Int, asked : Int]

\* One caller cannot take the others' share, nor the broker's time, by asking
\* often or by several connections at once: what is resolved for it in any
\* period, and what it draws from the shared limit, is at most what its own limit
\* admits and what was on its way when the period began.  It holds of a caller
\* that is not mapped too.
ShareIsBounded ==
    LET earned == OwnBurst * OwnUnit + OwnRate * (clock - window.from)
    IN  window.resolved * OwnUnit <= earned /\ window.asked * OwnUnit <= earned

\* The client comes back later than it was told.
Honours == told.by # "nobody" /\ clock > told.until

\* When a client that does what Retry-After says succeeds.  The limit that
\* refused it admits the retry, unless another client took the token first; but
\* after a refusal by the shared limit its own limit does so only if the wait was
\* also long enough to earn the token that the refused attempt had spent.
HonouredRetryIsAdmitted ==
    [][/\ OwnLimit(Watched) /\ Honours /\ clock >= told.earned /\ "own" \notin told.drawn
            => stage'[Watched] # "idle"
       /\ GlobalLimit(Watched) /\ Honours /\ told.by = "shared" /\ "shared" \notin told.drawn
            => shared'.tokens < Shared!advanceLocked(shared, clock).tokens
      ]_vars
=============================================================================
