# TLA+ models of spiffe-ad-broker

The broker exchanges a workload's SPIFFE SVID for a certificate that Active Directory accepts. It
decides which account a workload may act as, asks a CA for a certificate of that account, writes
the issuance down and hands the certificate over. This directory holds specifications of its
parts, model-checked with TLC on small instances, and theorems about them, proved with TLAPS for
every value of the constants. `src/` below is the repository.

## 1. Inventory

| Component | State | Operations | Its correctness |
|---|---|---|---|
| Issuance path, `internal/broker` | the two limits, the request being served; the rest is immutable | `New`, `Issue`, `recordIssuance`, `refused` | what a workload gets is mapped, verified and recorded; the draw on the CA is bounded |
| Token bucket, `ratelimit.Limiter` | tokens, last reading of the clock | `New`, `Allow`, `advanceLocked`, `fullAt` | burst and rate hold in every period, no refusal without cause, an exact wait |
| Per-caller limiter, `ratelimit.Keyed` | map of buckets, time of the last sweep | `Allow`, `sweepLocked` | eviction changes no caller's limit; idle buckets go; no deadlock |
| Issuance record, `record.File` | an append-only file | `Open`, `Record`, `Close` | an acknowledged row is on the disk and readable |
| TLS material, `tlsconf.Source` | certificate, bundle, stamps of three files | `NewSource`, `materialForHandshake`, `load` | rotated files take effect, bad files keep the last good ones |
| `adcs` backend, `issuer/adcs` | an immutable configuration; a CES exchange for each request | `New`, `Issue`, `submit`, `verify` | returns a credential of the target account, its issuer first, or nothing; what starts can issue |
| CMC request, `cmc.go` | none | `Agent.Validate`, `buildCMC`, `signPKIData`, the validators of names | the CA reads in it the CSR, the template and the account that were asked for, and nothing else |
| WSTEP messages, `wstep.go` | none | `buildRSTForCMC`, `parseRSTRC`, `chainFrom` | the request is carried whole, the answer is read to the last token |
| `subordinate` backend | none | `Issue` (a stub) | refuses |
| Mapping snapshot, `internal/mapping` | immutable after `Parse` | `Parse`, `Lookup`, validators | every entry of what loads is in force, one account for a caller, none by default |
| SIDs and the AD extension, `internal/encoding` | none | `MarshalSID`, `UnmarshalSID`, build and parse the extension | one account, one form, the documented bytes |
| HTTP transport, `transport/httpapi` | none of its own | `handleIssue`, peer identity, body and CSR decoding, refusals | identity only from a verified peer, stable reasons |
| Process, `cmd/spiffe-ad-broker` | listener, the components above | `run`: start, serve, shut down | the record outlives the requests that need it |

**How they interact.** `run` parses the snapshot, builds the backend and the limits, opens the
record and serves mutual TLS; each connection calls `materialForHandshake`. `handleIssue` takes
the SPIFFE ID from the peer certificate and the CSR from the body and calls `Broker.Issue`, which
in this order takes a token of the caller's limit, looks the caller up, parses the CSR, takes a
token of the global limit, calls the backend, records the result with write and fsync, and
returns. The backend posts to CES over the network and checks what comes back. Handlers share the
two limits and the record, each behind a mutex; the snapshot is read without one.

**What is hard.** The rows of `hazards` in `PROJECT.json` name the lines. In short:

- *Interleaving and atomicity.* `Keyed.Allow` drops its mutex between lookup and take, while
  another goroutine sweeps. The TLS files are stat-ed and read one after another while they are
  rotated. The record is closed while handlers run.
- *Partial failure.* The CA issues and the answer is lost, refused, or cannot be recorded; a write
  is cut short; a sync fails; a load fails for a reason that is not in the files.
- *Crash and restart.* A kill or a power loss between the CA's answer, write, sync and reply; a
  restart with another snapshot and full limits.
- *Unreliable and late answers.* CES answers late, never, or for another account.
- *Numeric edges.* Refill, cap and rounding of the bucket; a clock that steps back; Retry-After in
  whole seconds over two limits; the widths and the endianness of a SID.
- *Rules written twice and text that nothing escapes.* The SID and the account name are validated
  in two packages; a name goes into a text of `name=value` pairs; a SPIFFE ID has many spellings and
  is compared as text; the signed attributes are encoded twice.

## 2. Modules

| Module | Models | State and actions against the code |
|---|---|---|
| `TokenBucket` | `ratelimit.go` | operators on one bucket: `newAt`, `advanceLocked`, `Admits`, `Spend`, `RetryAfter`, `Full` |
| `Limiter` | one `Limiter` and its clock | `Allow` is the critical section; `Tick` and `StepBack` are the clock; `Watch` starts an observer's period |
| `KeyedLimiter` | `Keyed` with goroutines | one action for each critical section: `Lock`, `SweepCheck`, `SweepEvict`, `SweepDone`, `Lookup`, and two for a take, `TakeLock` and `Take`; `kmu` is the map's mutex, `bmu` each bucket's; `ideal` is a limiter that never evicts |
| `Admission` | both limits of `Broker.Issue` with time, and `Retry-After` of `handleIssue` | `OwnLimit`, `Resolve`, `GlobalLimit`, one for each limit or check; `Tick`; an observer follows one client (`told`) and counts what is done for its caller (`window`) |
| `Account` | (abstract) what a `Recorder` promises | `Enter`, `Acknowledge`, `Lose` |
| `RecordFile` | `record.File` and its file | `Write`/`WriteFails`, `Sync`/`SyncFails` under the mutex, `Close`, `Exit`, `PowerLoss`, `Restart`; implements `Account` |
| `Promise` | (abstract) what the broker promises | extends `Account` with `Deliver` |
| `Issuance` | `Broker.Issue`, `handleIssue`'s checks, `adcs` `Issue`/`submit`/`verify`, `run` | one action for each step that touches shared state: `Arrive`, `CallerLimit`, `Resolve`, `GlobalLimit`, `BackendIssue`, `CAIssues`, `Receive`/`SubmitFails`, `AppendRow`, `SyncRow`, `Reply`, and `Refill`, `Start`, `CloseRecord`, `Outage`; implements `Promise` |
| `TLSSource` | `tlsconf.Source` | each stat and read is an action (`Enter`, `Stat`, `StatFails`, `Restat`, `LoadGlitches`, `Read`) beside the writers' (`Replace`, `BeginWrite`, `EndWrite`) |
| `SID` | `encoding/sid.go`, `encoding/ntdsext.go`, `mapping/sid.go` | operators named after the functions; the state is an input that grows by a byte or a part |
| `AccountName` | `mapping/account.go` and the account checks of `cmc.go` | operators: the two validators and their two allowlists |
| `Snapshot` | `mapping.go`, `spiffeid.go`, `httpapi/peer.go` | `Parse`, `Lookup`, `ValidateSPIFFEID`, `SPIFFEIDFromPeer` as operators; the state is a file that is written a document, bracket or entry at a time; composes `SID` and `AccountName` |
| `CMC` | `cmc.go`, `buildRSTForCMC` | operators: what is built and what is signed; `CAReads` is what a CA that verifies it reads (external) |
| `Response` | `parseRSTRC`, `chainFrom`, `certsFromPKCS7`, `verify` | actions `Parse`, `NextToken` and `NextCertificate` (a turn of each of `chainFrom`'s two loops), `Verify` |
| `Backend` | `adcs.go` from `New` to the credential | `New`, `Issue`, `IssueFails`, `SubmitFails`, and the CA's `HonestCA` and `AnyAnswer`; composes `CMC` and `Response` |

`MCIssuance`, `MCRecordFile`, `MCTLSSource`, `MCSnapshot`, `MCBackend` and `MCAdmission` give
constants their values and name symmetry sets. `LimiterProofs`, `KeyedLimiterProofs`,
`AdmissionProofs`, `RecordFileProofs`, `IssuanceProofs`, `TLSSourceProofs`, `SnapshotProofs` (with
`SID`) and `BackendProofs` (with `CMC` and `Response`) hold the proofs. Beside some definitions
stands a variant with one mistake (a dropped guard, a missing reset; for instance `VerifiesAnySID`,
`AckUnsynced`, `EscapedNot`). No specification uses them: they are the mutants that show each
property fails when the code is wrong.

`Issuance` composes the parts through what they promise: the limits are counters with `Refill` for
time (`Admission` has them with a clock), the record is a set of rows of which unacknowledged ones
may be lost (which `RecordFile` shows the file to be, through `Account`), a snapshot is a function
from callers to accounts (which `Snapshot` works out), and `verify` is a predicate on the
certificate (which `Backend` works out).

### Abstractions

- **Time and numbers.** The bucket counts fractions of a token in integers; the code's `float64`
  is taken as exact. The clock is Go's monotonic one; in `Limiter`, `StepBack` is there because
  `advanceLocked` defends against it and `now` can be replaced. `Admission` has no such steps and
  evicts no bucket: `Limiter` and `KeyedLimiter` are about those. A nil limiter admits everything
  and is not a state.
- **Certificates** are, in `Issuance`, named by the request that caused them: a request asks at most
  once and a CA never reuses a serial. The CA is trusted with the key it certifies and with nothing
  else. It may issue for any account, without its issuer, late or never.
- **The disk.** A sync that fails may leave any of the unsynced bytes off the disk for good, and
  later syncs, which find nothing to do for them, succeed (as Linux does). A power loss cuts the
  file anywhere beyond what was synced and leaves holes in what was not, or was given up. The
  file's directory entry is taken to exist.
- **TLS files.** A file is the number of its rewrites and whether it is whole, and this is also
  its stamp: the code takes a rewrite to change mtime. Key and certificate match when they are of
  the same rewrite.
- **SIDs.** A text is a list of parts, each the canonical decimal of a number, one with leading
  zeros, or no decimal. DER is abstracted to whether the nesting is the required one. Byte and
  field widths are parameters.
- **SPIFFE IDs** are cut at the slashes; a piece is a name in one of its spellings (plain,
  percent-encoded, with a character that is not allowed) or one of those that name nothing (empty,
  `.`, `..`). Upper case is a spelling of a trust domain; in a path, case tells names apart. Which
  IDs are one workload is RFC 3986's to say, not the code's. `url.Parse` followed by `URL.String`
  puts the scheme in lower case and drops an empty fragment.
- **Account names and regInfo** are sequences of what the encodings tell apart: the separator, the
  text `%5C` it travels as, `&`, `=`, and words without any of them.
- **The CMC** is a record of what its elements hold; only the tag of the signed attributes is kept
  of the DER. Digests and signatures are terms that are equal when what they are made from is.
- **The caller's limit** of `Issuance` may refuse a caller only when its counter is empty; that
  eviction leaves a caller's level alone is the question of `KeyedLimiter`.
- **Early answers.** A peer certificate whose SPIFFE ID is present but not canonical is refused
  after the body is decoded, one without any before; `EarlyAnswers` allows both orders.

## 3. Runs

| Run | Asks | Shows |
|---|---|---|
| `limiter` | `WindowBound`, `BurstBeforeRefusal`, `RetryAfterIsExact` | in no period more than burst and rate; no refusal before a burst; the reported wait is right to the tick, whatever the clock does |
| `keyed` | `ExactUnlessRaced`, `IdleCallersLeave`, `AllowReturns` | eviction leaves every level as it would be without it, unless a sweep and a take of one bucket overlap; the map forgets callers that went away; every call returns, with a sweep that waits for a bucket's mutex while it holds the map's |
| `keyed_orphan` | `NoLimitHandedBack` | **violated**: with that overlap a caller is admitted once more |
| `admission` | `ShareIsBounded`, `HonouredRetryIsAdmitted` | a caller gets no more of what is shared than its own limit admits, over any number of connections; when exactly a client that waits as `Retry-After` says is admitted |
| `record` | `AckedIsDurable`, `EachTearCostsOneRow`, `KeepsAccount` | every acknowledged row stays whole on the disk, whatever syncs failed before it; a torn row costs at most one other; the file implements `Account` |
| `record_torn` | `TailIsWorstCase` | **violated**: an acknowledged row is glued to a torn one |
| `issuance` | `DeliveredIsRecorded`, `DeliveredIsMapped`, `RecordedExists`, `AskedIsMapped`, `CADrawIsBounded`, `KeepsPromise`, `EveryRequestSettles` | the promise to the workload and to the operator, through restarts and a CA that does what it likes; the CA is asked only for an account that is mapped and named, and a refused request spends nothing of its budget |
| `refusal_unnamed` | `RefusalLeavesNothingUnnamed` | **violated**: after a lost or refused answer a certificate exists that nothing names |
| `tls` | `QuietTakesEffect`, `NeverBackward`, `ReportedOncePerChange` | settled files take effect at the next handshake, nothing goes back, one report for each bad state |
| `tls_rotation` | `RotationTakesEffect` | **violated**: a load that failed by accident records the stamps of good files |
| `snapshot` | `CodecIsBijection`, `MixedEndian`, `VerifyReadsMapping`, `EveryEntryIsInForce`, `LookupMissesNobody`, `LookupNeedsNoChecks` | the SID codec is a bijection with the documented layout; what loads is in force entry for entry, under every spelling; what a lookup returns can be encoded and named |
| `backend` | `RequestSaysWhatWasAsked`, `StartedCanIssue`, `HonestCAIsAccepted`, `ChainIsPresentable`, `ReturnsExactlyUsable` | the CA reads what was asked; a credential is returned exactly when it is usable, with its issuer first and its chain complete; with an honest CA, exactly when the SID and the name are one account's |

Each passing run also checks its module's `TypeOK`.

### Bounds, and why they are enough

- `limiter`: rate 2, burst 2 and 7 fractions to a token, so that a token is no whole number of
  ticks and the wait is rounded; the `MaxForward` = 9 ticks are more than an empty bucket needs to
  be full. The theorems need none of these.
- `keyed`: two goroutines and two callers make every overlap of a sweep with a take, of the
  sweeper's own caller and of another; `Idle` = 2 with `MaxTime` = 3 (4 in `keyed_orphan`) lets a
  bucket become idle, be swept and be made again, and one that is not yet full be kept by a sweep and
  evicted by the next. Four ids are more than the buckets that are ever
  reachable: one for each caller and one orphan for each goroutine.
- `admission`: two connections of one caller and one of another, so that both a caller's own
  connection and a stranger can take the token a client waits for. An own token takes 5 ticks and a
  shared one 2, with seconds of 3: no wait is a whole number of seconds, the wait for an own token
  is rounded up by a tick, and one for a shared token may or may not earn the own token back. 7
  ticks are a wait of either kind, the rounding and the attempt after it.
- `record`: a row that is torn, one that is glued to it and one that follows; two outages, so that
  a restarted process ends as well. The theorems need neither.
- `issuance`: two requests, so that one waits for the record's mutex of the other and both draw on
  the same bucket; two callers, so that one is mapped and one is not, and two snapshots that
  differ in the account, in who is mapped and in who has an account name; bursts of one, one
  refilled token and one outage, so that the bound on the draw is met exactly.
- `tls`: each file is rewritten once and the bundle twice, which is what it takes for a handshake
  to read one state, stamp a second and meet a third; two handshakes wait for one another.
- `snapshot`: for the SIDs, bytes of 3 values, an authority of 3 bytes, sub-authorities of 2 bytes
  and at most 2 of them. `Values` are the numbers at and beyond the limits of every field (8 and 9,
  26 and 27), and those whose bytes differ, so that a swapped order shows; texts go one part beyond
  the longest SID, bytes up to it and one more. Files have up to three documents or brackets and two
  entries, so that a duplicate, an entry of a second document and what follows a bracket occur; IDs
  have paths of every two pieces and one oddity in the other parts; an entry has one thing out of
  the ordinary at a time, because `validEntry` looks at each by itself.
- `backend`: names of up to four pieces, which is what it takes to close a field of regInfo and open
  another; one of the words is the name of a field. Agents with an RSA, an ECDSA and another key,
  one without the policy and one with the wrong key. Answers of up to two tokens of two
  certificates over four: the right leaf, one for another account, one that signed itself and their
  CA, and what does not parse.

### Deadlock

Deadlock is checked in `limiter`, `keyed`, `keyed_orphan` and the `tls` runs. In the others the
system comes to an end: each request is made once, each row is recorded once and the number of
outages is bounded (`issuance`, `record`), a single request or input is worked off (`backend`,
`snapshot`), or the clock reaches its bound (`admission`).

### Fairness

- `KeyedLimiter!FairSpec`: weak fairness of each goroutine's next step, because a runnable goroutine
  runs, and strong fairness of `Lock` and `LockBucket`, the steps that take the map's or a bucket's
  mutex, because `sync.Mutex` hands a waiter that starved for a millisecond the lock. Nothing is
  assumed of calls or of the clock.
- `Issuance!FairSpec`: weak fairness of each request's handler. While it waits for CES, what is
  always enabled is `SubmitFails`: the HTTP client has a timeout (`-adcs-timeout`). No fairness is
  assumed of the CA, of the refill of tokens, of outages or of restarts.
- All other specifications are checked for safety only.

## 4. Findings

Four statements of the repository that the code does not keep; `PROJECT.json` quotes the lines.

1. `ratelimit.go:191`: a bucket can be evicted between the lookup and the take of another
   goroutine, and the caller then gets a full one. The cost is bounded: a token for each overlap.
2. `record.go:156`: `O_APPEND` after a torn row glues the next row to it, acknowledged or not, so
   that a malformed line need not be the last and may hold an issuance that was acknowledged.
3. `adcs.go:166`: when `submit` or `verify` fails after the CA was asked, a certificate may exist
   that neither the record nor a log line names.
4. `tlsconf.go:145`: a load that fails for a passing reason (no file descriptors) records the
   stamps, and good files are not read until they are touched again.

`ExactUnlessRaced`, `EachTearCostsOneRow` and `QuietTakesEffect` say what does hold in place of 1, 2
and 4.

Four more are kept in view by a property of a passing run that says what does hold, with the
exception named in it: the wait of a global refusal leaves out the caller's own limit, whose token
the refused request spent, so that a client that honours `Retry-After` can be refused again,
contrary to `server.go:29-30` (`broker.go:235`, `HonouredRetryIsAdmitted`); `dec.More` does not see
a closing bracket, so that trailing content after one loads, contrary to `mapping.go:118-119`
(`mapping.go:120`, `EveryEntryIsInForce`); a peer's ID is not looked up verbatim, contrary to
`peer.go:30-33`, because `URL.String` lower-cases its scheme and drops an empty fragment, which
`ValidateSPIFFEID` would have refused (`peer.go:34`, `LookupMissesNobody`); and `New` takes an agent
whose key `signPKIData` cannot use, Ed25519 for one, so that a backend starts that refuses every
request, contrary to `adcs.go:90-93` (`adcs.go:94`, `StartedCanIssue`).

Noticed while reading and not the subject of a run: a bundle that is cut between two PEM blocks
loads as one of fewer CAs (`tlsconf.go:172`) until the rest is written, which is then seen; an
unmapped caller is told `rate_limited` although `errors.go:42-43` says such a caller is mapped
(`broker.go:201`); an entry without an account name spends a global token before `adcs.go:147`
refuses it; `verify` compares the SID of a certificate and not its public key (`adcs.go:219`); with
three or more certificates the swap in `verify` can leave the chain out of leaf-first order
(`issuer.go:116-119`); `WriteTimeout` and the
default `-adcs-timeout` are both 30 s while `shutdownGrace` is 15 s; the directory entry of a new
record file is not synced; a rotation that is caught halfway serves the new certificate with the
old bundle until the next handshake, by design.

## 5. Proofs

All theorems are about the specification of their module, for all values of the constants that
satisfy the named assumptions, and no bound of the runs is needed beyond being a natural number.

**One limit** (`LimiterProofs`, from `BucketAssumption` and `LimiterAssumption`) begins with lemmas
about the arithmetic of one bucket, on which three components rest: `AdvanceBounds` and
`RetryAfterBounds` (what a refill gives, and what the division does to the wait), that a refill in
two goes gives what it gives in one (`AdvanceComposes`), and that a wait is long enough (`WaitEarns`).
`KeyedLimiterProofs` takes them from there with `INSTANCE`, and `AdmissionProofs` once for each of its
limits. The theorems about a `Limiter` are `TypeCorrect`, `WindowIsBounded`,
`BurstIsAvailable`, `RetryAfterIsRight`. `WindowBound` is not inductive: it does not say where the
tokens that are still in the bucket came from, nor how far the clock can be ahead of the last
reading. `IInv` (`Accounting`) adds both: what was admitted in the period and what is left come out
of one capacity and the ticks up to the last reading (`WindowAccounted`); the clock is ahead of that
reading by no more ticks than have passed since (`ReadingIsBehind`); the admissions since the bucket
was full cover what it lacks (`SpentAccounted`); and the last refusal still describes the bucket
(`RefusalDescribesBucket`).

**The per-caller limiter** (`KeyedLimiterProofs`): `TypeCorrect`, `EvictionIsExact`,
`TheMapForgets`, for any number of goroutines and callers. `ExactUnlessRaced` compares the bucket a
caller has with the one that was never evicted, and is inductive only with what says who may touch a
bucket when: the map is the business of the goroutine that holds `k.mu` (`HoldsMutex`), a bucket has
one caller (`OneOwner`), a caller that no sweep raced with takes from the bucket in the map
(`TakesFromTheMap`), no reading of the clock is from the future (`ReadBefore`), and a sweep decides by
the clock it began at (`SweepsTheMap`). That an idle bucket is a full one comes from the lemmas of the
token bucket. For `TheMapForgets`, it does not
do to look at the clock of a bucket: a sweep that finds it idle and keeps it sets that clock forward.
`EntriesAccounted` says of each entry what survives this: its bucket has all the tokens that the time
since its caller last took gives an empty one (`Earned`); it was last read for its caller or by a
sweep, and one that has still to decide about it began an idle period after that (`LastRead`); and
unless it is still ahead of the sweep, it has a reason to be in the map (`Stays`). So an entry whose
caller is away is idle when the next sweep comes to it, and full once the time was enough to fill it.

**Both limits** (`AdmissionProofs`, from `AdmissionAssumption`): `TypeCorrect`, `OneCallersShare`,
`HonouredRetry`, for any number of clients. The bounds of `ShareIsBounded` are about requests that
were resolved or asked for; `ShareAccounted` counts those that have a token and are on their way as
well, and charges them, with what is left, to one full bucket and the time since (`Paid`).
`HonouredRetryIsAdmitted` is about one moment; `OwnPromise` and `SharedPromise` say at the time of the
refusal what each bucket will have at every later time, as long as nobody draws on it.

**The issuance path** (`IssuanceProofs`, from `IssuanceAssumption`): `TypeCorrect`,
`DeliveredAreRecorded`, `DeliveredAreMapped`, `RecordedExist`, `AskedAreMapped`. A property of the
delivered says nothing of the request that is about to be, so `IInv` (`Invariance`) says what is
true of a request because of the step it is at: `Serves` (a request in flight is of the snapshot
its process serves), `Resolved` (past the lookup it is mapped and proven), `Vetted` (past `verify`
its certificate is the mapped one), `Entered` (past the write its row is in the file, past the sync
it is acknowledged), and what stays true when it is over or its process is gone: `AckedKept`,
`RowsAllowed`, `AskedResolved`, `HandedOver`. Each action has a lemma; those that only move a
request on share `MoveKeeps`.

`PromiseKept` proves that `Issuance` implements `Promise` under the mapping of its rows to the
credentials the registry allows: `AppendRow` is `Enter`, `SyncRow` is `Acknowledge`, `Reply` is
`Deliver`, `Outage` is `Lose`, and all other steps stutter.

**The draw on the CA** (`IssuanceProofs`): `CADrawBounded`. `DrawAccounted` strengthens its first
part with the tokens that are left and the requests that have one and have not yet asked, and with
what a process that ended took with it. The second, that a process spent its tokens on no request it
refused, needs that a request that is still on its way has no answer yet (`SpentOnPassing`,
`Unanswered`).

**The record file** (`RecordFileProofs`, from `RecordAssumption`): `TypeCorrect`, `AckedAreDurable`,
`AccountKept`, `TearsCostOneRowEach`. `AckedIsDurable` does not say why the sync that acknowledges a
row covers it: it says nothing of the row before that. `IInv` (`Invariance`) adds `WrittenIsLast` (a
row whose sync is under way is the last in the file, beyond what any sync before covered and
untouched by one that failed, because the mutex is held from the write to the end of the sync) and
`UnwrittenIsAbsent` (a row that is still to be written has left no piece behind, so that its write
is its entry). With it a sync that succeeds can acknowledge only bytes that no failed sync gave up,
which is what would break if a failed sync were tried again. `AppendKeepsRows` and `SurvivesBounds`
state what a write and a power loss do to the places of rows. `AccountKept` proves that the file
implements `Account` with `Present`, the rows that are whole in it, as the account: `Write` is
`Enter`, `Sync` is `Acknowledge`, `PowerLoss` is `Lose`, and a write that was cut short, which adds
no row and completes none with what stood before it, stutters. So the account that `Issuance` relies
on is one that the file keeps.

`TearsCostOneRowEach` counts. `TearsAccounted` adds to the bound that a tear at the end of the file,
or one that a power loss may make, has not cost a row yet (`TearIsOpen`): each tear has cost a row
or may still cost the next, and not both.

**The TLS material** (`TLSSourceProofs`): `TypeCorrect`, `ReportedOnce`, `NeverGoesBack`,
`QuietFilesTakeEffect`, for any number of handshakes and rewrites. `Rank` orders the states of a
file, half written before whole. What is served and what is stamped is no newer than the disk
(`NothingIsAhead`); the looks of one handshake come one after another, from the mutex over the stats
to the reads, so each sees a state no older than the one before (`LooksInOrder`); stamps that match
the disk are of a load that got what is on the disk, but for a failure by accident
(`StampsMeanLoaded`); and the ranks of the stamps grow with every report (`ReportsCovered`). All of it
rests on the mutex being held from the first look to the last (`HoldsMutex`).

**The `adcs` backend** (`BackendProofs`): `TypeCorrect`, `CAIsToldWhatWasAsked`, `StartedIssues`,
`FailsClosedOnly`, `ChainIsWhole`, `HonestAnswersCount`, for names of any length and answers of any
number of tokens and certificates. That the CA reads what was asked needs the text of `regInfo`
worked out place by place: where the names and the two separators stand, that nothing in a name that
passed the validators ends a field, and what decoding makes of each place. The rest is one inductive
invariant over the two loops of `chainFrom`: what was looked at and what is left are the answer
(`LooksInOrder`), the chain holds each certificate as often as it was met (`Counted`), the leaf was
recognised exactly if one of those met is it (`Recognising`). The swap in `verify` is a bijection of
places, so it keeps every count; the first place of the leaf is the least of a set of numbers, which
well-founded induction gives.

**The SID codec and the snapshot** (`SnapshotProofs`, from `SIDAssumption`, `RefusedAssumption` and
`SnapshotAssumption`): `TypeCorrect`, `OneBinaryForm`, `LayoutIsMixed`, `VerifyAgreesWithMapping`,
`AllInForce`, `NobodyIsMissed`, `NoChecksAfterLookup`. They hold for every width of a byte and of the
fields, so for the code's 8 bits, 6 bytes and 4 bytes, which no run could enumerate, and for files,
paths and names of any length. The inputs' types (`IInv`) are the whole inductive invariant; what is
hard is the functions. `Power` and `Number` are recursive functions, for which the prover has no
equation until somebody shows that a function with it exists. `Induction` (a set of numbers with 0 and
with the next of each is all of them) is proved from the well-foundedness of the strict subsets of a
finite set, `Recursion` (there is a function that takes a given step from each number to the next)
from `Induction`, and the equations of `Power` and `Number` from `Recursion` (`PowerIs`,
`NumberReads`). On these rest `NumberOfDigits` and `DigitsOfNumber`: to read the digits of a number
gives the number, and the digits of what was read are the ones that were read, because to divide by a
power is to divide by the base again and again (`DivisionNests`). `MarshalIs` and `UnmarshalIs` say
what each byte and each part is, `ByteAt` and `ByteOf` that a place in the binary form is one byte of
one field; so reading what was written gives the text back (`WrittenIsRead`) and writing what was read
gives the bytes back (`ReadIsWritten`). For the lookups, `LoadedIs` says what a file that loads is
like, `PlainIsResolved` that a canonical path is resolved already, and so two canonical IDs of one
workload are one text (`CanonicalIsOne`).

**Only model-checked.** Liveness (`AllowReturns`, `EveryRequestSettles`) is beyond the prover. Every
other property of a passing run is the statement of a theorem. The runs that find a violation show
it on a small instance, which is all that a counterexample needs.

## 6. Not modelled

- **Durations of the process.** Which of `WriteTimeout`, the CES timeout and `shutdownGrace` fires
  first follows from three numbers of which two are constants, and nothing in the repository says
  how they should be ordered. What any of them does to a request at any step is in `Issuance`: a
  reply that is lost, a wait that ends, a record that is closed, a process that stops.
- **The directory** that holds the record file. That its entry survives a power loss is the file
  system's affair; no comment or doc speaks of it.
- `encoding/cdp.go`: an encoder that nothing in the program calls. `buildRST` likewise.
- Flags and logging: they validate and assemble configuration before anything runs.
- The text of messages: HTTP status codes (one table) and bodies, the layout of DER, XML, base64 and
  PEM, and the JSON decoder.
- The public key of a certificate that came back: no code looks at it.

## 7. Plan

Done, the most important behaviour first, each with its proofs: `TokenBucket`, `Limiter`,
`KeyedLimiter`; `Account`, `RecordFile`; `Promise`, `Issuance`; `TLSSource`; `SID`, `AccountName` and
`Snapshot`; `CMC`, `Response` and `Backend`; `Admission`.

What is left is at the seams between the modules. `Issuance` uses the parts through what they promise.
That the record keeps its promise is a refinement that is proved (`AccountKept`); that the limits, the
snapshot and the backend keep theirs is said by properties of those modules, and to compose them with
`Issuance` in one specification, or to state their promises as modules of their own, is what comes
next.

## 8. Running

```
tlc -workers 2 -config Issuance.cfg MCIssuance.tla     # likewise for each pair under "runs"
tlapm IssuanceProofs.tla                               # likewise the other seven *Proofs modules
```

The largest runs take under two minutes on two cores (`admission`, 3.4 million states; `tls`, 1.5
million; `snapshot`, 570 thousand); `IssuanceProofs`, `AdmissionProofs`, `BackendProofs` and
`SnapshotProofs` take the longest to prove.
