------------------------------ MODULE Issuance ------------------------------
(***************************************************************************)
(* The issuance path: a request from the moment the transport has it to    *)
(* the moment its answer is on the wire, through Broker.Issue, the adcs    *)
(* backend, the CA and the issuance record, with the process that serves   *)
(* it being stopped, killed and started again.                             *)
(*                                                                         *)
(* Each request is a goroutine.  It takes a step where it touches what     *)
(* others touch: the caller's limit, the global limit, the wire to the CA, *)
(* the record file, the wire to the workload.  What it computes in between *)
(* from its own data and the immutable snapshot is part of the next step.  *)
(*                                                                         *)
(* A certificate is named by the request that caused it: a request asks    *)
(* the CA at most once and the CA never issues one serial twice.  The CA   *)
(* is trusted with the key it certifies and with nothing else: it may      *)
(* issue for another account than the one named, leave out the SID or its  *)
(* own certificate, answer late, or never.                                 *)
(***************************************************************************)
EXTENDS Integers, FiniteSets

CONSTANTS
    Requests,      \* requests; each is made once
    Callers,       \* canonical SPIFFE IDs
    NoCaller,      \* a peer without one
    Snapshots,     \* mapping snapshots that pass broker.New
    NoVersion,     \* the version of no snapshot
    Accounts,      \* AD accounts
    NoAccount,     \* no mapping entry; no SID in a certificate
    Registry,      \* Registry[v][c]: the account snapshot v maps c to
    Named,         \* Named[v]: callers whose entry carries an ad_account
    CallerBurst,
    GlobalBurst,
    MaxRefills,    \* bound on tokens that arrive
    MaxOutages     \* bound on ends of the process

ASSUME IssuanceAssumption ==
    /\ NoCaller \notin Callers
    /\ NoAccount \notin Accounts
    /\ NoVersion \notin Snapshots
    /\ Registry \in [Snapshots -> [Callers -> Accounts \cup {NoAccount}]]
    /\ Named \in [Snapshots -> SUBSET Callers]
    /\ CallerBurst \in Nat \ {0}
    /\ GlobalBurst \in Nat \ {0}
    /\ MaxRefills \in Nat
    /\ MaxOutages \in Nat

Backends == {"adcs", "subordinate"}

\* What the body of a request holds: no CSR at all, a CSR that does not parse or
\* whose proof of possession fails, or a good one.
Bodies == {"malformed", "unproven", "proven"}

Reasons == {"unauthenticated", "invalid_request", "no_mapping", "not_implemented",
            "rate_limited", "internal"}

VARIABLES
    process,       \* "down", "serving", or "closed" (serving, its record closed)
    snapshot,      \* the snapshot the process serves
    backend,       \* the backend it was started with
    req,           \* each request: where it is, what it asks, how it was answered
    callerTokens,  \* Broker.callerLimit
    globalTokens,  \* Broker.globalLimit
    refills,       \* tokens that have arrived
    certs,         \* the CA's certificates: the account, and if its issuer came along
    asked,         \* requests the CA may have been asked to issue for
    account,       \* rows in the record file
    acked,         \* rows whose sync succeeded
    named,         \* requests whose certificate's serial an error log line names
    delivered,     \* requests whose credential reached the workload
    outages        \* ends of the process so far

vars == <<process, snapshot, backend, req, callerTokens, globalTokens, refills,
          certs, asked, account, acked, named, delivered, outages>>

NoCert == [sid |-> NoAccount, complete |-> FALSE, exists |-> FALSE]

\* Where a request is: what Issue does next.
Steps == {"limit", "resolve", "budget", "backend", "ces", "append", "sync", "reply"}

NotMade == [at |-> "new", caller |-> NoCaller, body |-> "malformed", version |-> NoVersion,
            answer |-> "none"]

FullCallers == [c \in Callers |-> CallerBurst]

Init ==
    /\ process = "down"
    /\ snapshot \in Snapshots
    /\ backend \in Backends
    /\ req = [r \in Requests |-> NotMade]
    /\ callerTokens = FullCallers
    /\ globalTokens = GlobalBurst
    /\ refills = 0
    /\ certs = [r \in Requests |-> NoCert]
    /\ asked = {}
    /\ account = {}
    /\ acked = {}
    /\ named = {}
    /\ delivered = {}
    /\ outages = 0
-----------------------------------------------------------------------------
Target(r) == Registry[snapshot][req[r].caller]

\* The row recordIssuance writes for the certificate the CA issued.
Row(r) == [request |-> r, caller |-> req[r].caller, sid |-> Target(r), snapshot |-> snapshot]

At(r, step) == req[r].at = step /\ process # "down"

Proceed(r, step) == req' = [req EXCEPT ![r].at = step]

Refuse(r, reason) == req' = [req EXCEPT ![r].at = "done", ![r].answer = reason]

\* SPIFFEIDFromPeer, and Issue's own check of what it returned: the verified
\* certificate of the peer carries one URI, a canonical SPIFFE ID.
Authenticated(caller) == caller # NoCaller

\* decodeBody and decodeCSRPEM: the body is one JSON object around one PEM CSR.
Decoded(body) == body # "malformed"

\* What a request may be answered before Issue does anything.  A peer without a
\* SPIFFE ID is refused before its body is read, and one whose SPIFFE ID is not
\* canonical after.
EarlyAnswers(caller, body) ==
    IF Authenticated(caller) /\ Decoded(body) THEN {"none"}
    ELSE (IF Authenticated(caller) THEN {} ELSE {"unauthenticated"})
         \cup (IF Decoded(body) THEN {} ELSE {"invalid_request"})

\* handleIssue up to the call of Issue, and Issue's check of the caller.  While
\* Shutdown drains, and after it gave up, a connection that was accepted before
\* can still bring a request.
Arrive(r, caller, body) ==
    /\ process # "down"
    /\ req[r].at = "new"
    /\ \E answer \in EarlyAnswers(caller, body) :
         req' = [req EXCEPT ![r] =
           [at |-> IF answer = "none" THEN "limit" ELSE "done",
            caller |-> caller,
            body |-> body,
            version |-> snapshot,
            answer |-> answer]]
    /\ UNCHANGED <<process, snapshot, backend, callerTokens, globalTokens, refills,
                   certs, asked, account, acked, named, delivered, outages>>

Spent(tokens) == tokens - 1

\* callerLimit.Allow, before anything is looked up or parsed.
CallerLimit(r) ==
    LET caller == req[r].caller
    IN  /\ At(r, "limit")
        /\ \/ /\ callerTokens[caller] > 0
              /\ callerTokens' = [callerTokens EXCEPT ![caller] = Spent(@)]
              /\ Proceed(r, "resolve")
           \/ /\ callerTokens[caller] = 0
              /\ Refuse(r, "rate_limited")
              /\ UNCHANGED callerTokens
        /\ UNCHANGED <<process, snapshot, backend, globalTokens, refills, certs, asked,
                       account, acked, named, delivered, outages>>

\* ParseCertificateRequest and Request.Validate: the CSR parses and its signature
\* shows that the workload holds the key.
Proven(body) == body = "proven"

\* globalLimit.Allow comes first: what is then refused has taken its token.
ResolveOnBudget(r) ==
    /\ At(r, "resolve")
    /\ \/ /\ globalTokens > 0
          /\ globalTokens' = Spent(globalTokens)
          /\ \/ Target(r) = NoAccount /\ Refuse(r, "no_mapping")
             \/ Target(r) # NoAccount /\ ~Proven(req[r].body) /\ Refuse(r, "invalid_request")
             \/ Target(r) # NoAccount /\ Proven(req[r].body) /\ Proceed(r, "backend")
       \/ /\ globalTokens = 0
          /\ Refuse(r, "rate_limited")
          /\ UNCHANGED globalTokens
    /\ UNCHANGED <<process, snapshot, backend, callerTokens, refills, certs, asked,
                   account, acked, named, delivered, outages>>

\* registry.Lookup, and then the CSR itself.
Resolve(r) ==
    /\ At(r, "resolve")
    /\ \/ Target(r) = NoAccount /\ Refuse(r, "no_mapping")
       \/ Target(r) # NoAccount /\ ~Proven(req[r].body) /\ Refuse(r, "invalid_request")
       \/ Target(r) # NoAccount /\ Proven(req[r].body) /\ Proceed(r, "budget")
    /\ UNCHANGED <<process, snapshot, backend, callerTokens, globalTokens, refills,
                   certs, asked, account, acked, named, delivered, outages>>

\* globalLimit.Allow, the last thing before the backend.
GlobalLimit(r) ==
    /\ At(r, "budget")
    /\ \/ /\ globalTokens > 0
          /\ globalTokens' = Spent(globalTokens)
          /\ Proceed(r, "backend")
       \/ /\ globalTokens = 0
          /\ Refuse(r, "rate_limited")
          /\ UNCHANGED globalTokens
    /\ UNCHANGED <<process, snapshot, backend, callerTokens, refills, certs, asked,
                   account, acked, named, delivered, outages>>

\* adcs.Issue without its check of the account name.
BackendIssueUnnamed(r) ==
    /\ At(r, "backend")
    /\ \/ backend = "subordinate" /\ Refuse(r, "not_implemented") /\ UNCHANGED asked
       \/ backend = "adcs" /\ asked' = asked \cup {r} /\ Proceed(r, "ces")
    /\ UNCHANGED <<process, snapshot, backend, callerTokens, globalTokens, refills,
                   certs, account, acked, named, delivered, outages>>

\* backend.Issue up to the POST to CES: subordinate does not issue, and adcs
\* names the target by its account name, which the entry may not carry.
BackendIssue(r) ==
    /\ At(r, "backend")
    /\ \/ /\ backend = "subordinate"
          /\ Refuse(r, "not_implemented")
          /\ UNCHANGED asked
       \/ /\ backend = "adcs"
          /\ req[r].caller \notin Named[snapshot]
          /\ Refuse(r, "internal")
          /\ UNCHANGED asked
       \/ /\ backend = "adcs"
          /\ req[r].caller \in Named[snapshot]
          /\ asked' = asked \cup {r}
          /\ Proceed(r, "ces")
    /\ UNCHANGED <<process, snapshot, backend, callerTokens, globalTokens, refills,
                   certs, account, acked, named, delivered, outages>>

\* The CA issues for a request it was asked, for whichever account it resolved
\* the name to, whether or not the broker still waits for the answer.
CAIssues(r, sid, complete) ==
    /\ r \in asked
    /\ ~certs[r].exists
    /\ certs' = [certs EXCEPT ![r] = [sid |-> sid, complete |-> complete, exists |-> TRUE]]
    /\ UNCHANGED <<process, snapshot, backend, req, callerTokens, globalTokens, refills,
                   asked, account, acked, named, delivered, outages>>

\* verify without the SID check.
VerifiesAnySID(cert, target) == cert.complete

\* verify: the certificate carries the SID the snapshot says, and its issuer.
Verifies(cert, target) == cert.sid = target /\ cert.complete

\* The response of CES reaches submit and verify looks at what came back.
Receive(r) ==
    /\ At(r, "ces")
    /\ certs[r].exists
    /\ IF Verifies(certs[r], Target(r)) THEN Proceed(r, "append") ELSE Refuse(r, "internal")
    /\ UNCHANGED <<process, snapshot, backend, callerTokens, globalTokens, refills,
                   certs, asked, account, acked, named, delivered, outages>>

\* submit waits for the CA's answer for as long as it takes.
SubmitWaits(r) ==
    /\ At(r, "ces")
    /\ certs[r].exists
    /\ Refuse(r, "internal")
    /\ UNCHANGED <<process, snapshot, backend, callerTokens, globalTokens, refills,
                   certs, asked, account, acked, named, delivered, outages>>

\* submit fails: the CA refused, the answer was lost or cannot be read, the
\* client's timeout passed, or the workload went away and took the context
\* with it.  What the CA did, or will do, is not known here.
SubmitFails(r) ==
    /\ At(r, "ces")
    /\ Refuse(r, "internal")
    /\ UNCHANGED <<process, snapshot, backend, callerTokens, globalTokens, refills,
                   certs, asked, account, acked, named, delivered, outages>>

\* recordIssuance cannot record: the serial is logged and the request refused.
RecordFails(r) ==
    /\ Refuse(r, "internal")
    /\ named' = named \cup {r}

\* File.mu is held by a goroutine between its write and the end of its sync.
RecordBusy == \E r \in Requests : At(r, "sync")

\* Record appends the row, or fails: the write fails, or the record is closed.
AppendRow(r) ==
    /\ At(r, "append")
    /\ ~RecordBusy
    /\ \/ /\ process # "closed"
          /\ account' = account \cup {Row(r)}
          /\ Proceed(r, "sync")
          /\ UNCHANGED named
       \/ /\ RecordFails(r)
          /\ UNCHANGED account
    /\ UNCHANGED <<process, snapshot, backend, callerTokens, globalTokens, refills,
                   certs, asked, acked, delivered, outages>>

\* The credential is returned although the row is not on disk.
AckUnsynced(r) == acked

Ack(r) == acked \cup {Row(r)}

\* Record syncs and returns; or the sync fails, with the row in the file.
SyncRow(r) ==
    /\ At(r, "sync")
    /\ \/ /\ acked' = Ack(r)
          /\ Proceed(r, "reply")
          /\ UNCHANGED named
       \/ /\ RecordFails(r)
          /\ UNCHANGED acked
    /\ UNCHANGED <<process, snapshot, backend, callerTokens, globalTokens, refills,
                   certs, asked, account, delivered, outages>>

\* The response is written.  It does not reach a workload that went away, or
\* one that the server's WriteTimeout cut off.
Reply(r) ==
    /\ At(r, "reply")
    /\ req' = [req EXCEPT ![r].at = "done", ![r].answer = "ok"]
    /\ delivered' \in {delivered, delivered \cup {r}}
    /\ UNCHANGED <<process, snapshot, backend, callerTokens, globalTokens, refills,
                   certs, asked, account, acked, named, outages>>

Handle(r) ==
    \/ CallerLimit(r) \/ Resolve(r) \/ GlobalLimit(r) \/ BackendIssue(r)
    \/ Receive(r) \/ SubmitFails(r) \/ AppendRow(r) \/ SyncRow(r) \/ Reply(r)
-----------------------------------------------------------------------------
\* Tokens arrive in a full bucket too.
RefillUncapped ==
    /\ process # "down"
    /\ refills < MaxRefills
    /\ refills' = refills + 1
    /\ globalTokens' = globalTokens + 1
    /\ UNCHANGED <<process, snapshot, backend, req, callerTokens, certs, asked, account,
                   acked, named, delivered, outages>>

\* Time gives back a token that was spent.
Refill ==
    /\ process # "down"
    /\ refills < MaxRefills
    /\ refills' = refills + 1
    /\ \/ /\ globalTokens < GlobalBurst
          /\ globalTokens' = globalTokens + 1
          /\ UNCHANGED callerTokens
       \/ \E c \in Callers :
            /\ callerTokens[c] < CallerBurst
            /\ callerTokens' = [callerTokens EXCEPT ![c] = @ + 1]
            /\ UNCHANGED globalTokens
    /\ UNCHANGED <<process, snapshot, backend, req, certs, asked, account, acked, named,
                   delivered, outages>>

\* run starts: the snapshot and the backend are whatever the files and the
\* flags now say, the limiters are full, and the record is opened as it is.
Start ==
    /\ process = "down"
    /\ process' = "serving"
    /\ snapshot' \in Snapshots
    /\ backend' \in Backends
    /\ callerTokens' = FullCallers
    /\ globalTokens' = GlobalBurst
    /\ UNCHANGED <<req, refills, certs, asked, account, acked, named, delivered, outages>>

\* run returns and its deferred Close closes the record: Shutdown has waited for
\* the requests in flight, or its grace passed with some left, or ServeTLS failed.
CloseRecord ==
    /\ process = "serving"
    /\ ~RecordBusy
    /\ process' = "closed"
    /\ UNCHANGED <<snapshot, backend, req, callerTokens, globalTokens, refills, certs,
                   asked, account, acked, named, delivered, outages>>

\* A power loss takes rows that were synced.
LostAny == SUBSET account

\* The rows a power loss can take are those not synced.
Lost == {rows \in SUBSET account : acked \subseteq rows}

\* The process exits, is killed, or the machine loses power: the requests in
\* flight are gone.
Outage ==
    /\ process # "down"
    /\ outages < MaxOutages
    /\ outages' = outages + 1
    /\ process' = "down"
    /\ req' = [r \in Requests |-> IF req[r].at \in Steps THEN [req[r] EXCEPT !.at = "dead"]
                                  ELSE req[r]]
    /\ account' \in Lost
    /\ UNCHANGED <<snapshot, backend, callerTokens, globalTokens, refills, certs, asked,
                   acked, named, delivered>>

Next ==
    \/ \E r \in Requests :
         \/ \E caller \in Callers \cup {NoCaller}, body \in Bodies : Arrive(r, caller, body)
         \/ Handle(r)
         \/ \E sid \in Accounts \cup {NoAccount}, complete \in BOOLEAN : CAIssues(r, sid, complete)
    \/ Refill \/ Start \/ CloseRecord \/ Outage

Spec == Init /\ [][Next]_vars

\* A goroutine in a process that runs takes its next step; the step that ends
\* the wait for the CA is, at the latest, the timeout of the HTTP client.
FairSpec == Spec /\ \A r \in Requests : WF_vars(Handle(r))
-----------------------------------------------------------------------------
Credentials ==
    [request : Requests, caller : Callers, sid : Accounts, snapshot : Snapshots]

Request ==
    [at : Steps \cup {"new", "done", "dead"},
     caller : Callers \cup {NoCaller},
     body : Bodies,
     version : Snapshots \cup {NoVersion},
     answer : Reasons \cup {"none", "ok"}]

TypeOK ==
    /\ process \in {"down", "serving", "closed"}
    /\ snapshot \in Snapshots
    /\ backend \in Backends
    /\ req \in [Requests -> Request]
    /\ callerTokens \in [Callers -> 0 .. CallerBurst]
    /\ globalTokens \in 0 .. GlobalBurst
    /\ refills \in 0 .. MaxRefills
    /\ certs \in [Requests -> [sid : Accounts \cup {NoAccount}, complete : BOOLEAN,
                                exists : BOOLEAN]]
    /\ asked \subseteq Requests
    /\ account \subseteq Credentials
    /\ acked \subseteq Credentials
    /\ named \subseteq Requests
    /\ delivered \subseteq Requests
    /\ outages \in 0 .. MaxOutages

\* What the snapshot in force for the request said of its caller.
Mapped(r) == Registry[req[r].version][req[r].caller]

\* The certificate a request was answered with, as the record would have it.
Credential(r) ==
    [request |-> r, caller |-> req[r].caller, sid |-> certs[r].sid,
     snapshot |-> req[r].version]

\* A credential that reached a workload is in the record file under the caller
\* that asked, the account it authenticates as and the snapshot that allowed it,
\* and no crash, restart or power loss takes it out again.
DeliveredIsRecorded ==
    \A r \in delivered : Credential(r) \in account

\* A credential that reached a workload authenticates as the account the mapping
\* in force names for that workload, whatever account the CA chose to issue for.
DeliveredIsMapped ==
    \A r \in delivered : certs[r].sid = Mapped(r) /\ certs[r].complete /\ req[r].body = "proven"

\* The record answers what exists: every row, delivered or not, is a certificate
\* of the CA that authenticates as the account the row says, under the caller that
\* asked for it and the snapshot that was in force for its request, whichever
\* snapshot later processes serve.
RecordedExists ==
    \A row \in account :
        /\ certs[row.request].exists
        /\ row = Credential(row.request)

\* The CA is asked only for a caller whose entry, in the snapshot in force, maps
\* it to an account and carries the name to ask for it by, with a proven key.
AskedIsMapped ==
    \A r \in asked :
        /\ Mapped(r) # NoAccount
        /\ req[r].caller \in Named[req[r].version]
        /\ req[r].body = "proven"

\* A request that every check but the backend's own has let pass.
Passed(r) ==
    \/ req[r].at \in {"backend", "ces", "append", "sync", "reply"}
    \/ req[r].answer \in {"not_implemented", "internal", "ok"}

\* The broker's draw on the CA over all its processes: a burst for each process
\* and what time gave back.  And the limit is kept for those that may go on to the
\* CA: a process has spent no token of it on a request it refused.
CADrawIsBounded ==
    /\ Cardinality(asked) <= GlobalBurst * (outages + 1) + refills
    /\ process # "down" =>
         GlobalBurst - globalTokens <= Cardinality({r \in Requests : Passed(r)})

\* A request in flight is answered, or ends with its process.
EveryRequestSettles ==
    \A r \in Requests : req[r].at \in Steps ~> req[r].at \in {"done", "dead"}

\* The issuance path implements the promise: only mapped credentials are
\* entered in the account, and only acknowledged ones are delivered.
Promised == INSTANCE Promise WITH
    Rows <- {c \in Credentials : Registry[c.snapshot][c.caller] = c.sid},
    delivered <- {Credential(r) : r \in delivered}
KeepsPromise == Promised!PromiseSpec

\* record.go: a refusal created nothing; broker.go: the serial of a certificate
\* that exists and was not handed over is logged.  So a refused request has no
\* certificate at the CA, or one the operator is told of.
RefusalLeavesNothingUnnamed ==
    \A r \in Requests :
        req[r].at = "done" /\ req[r].answer \in Reasons /\ certs[r].exists => r \in named
=============================================================================
