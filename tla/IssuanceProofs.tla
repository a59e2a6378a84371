--------------------------- MODULE IssuanceProofs ---------------------------
(***************************************************************************)
(* What the issuance path promises for any requests, callers, snapshots    *)
(* and limits: the type invariant, that a credential which reached a       *)
(* workload is recorded and is the mapped one, that the record holds what  *)
(* exists and nothing else, that the CA is asked only for the mapped, and  *)
(* that it is asked no more often than a burst for each process and what   *)
(* time gave back.                                                         *)
(***************************************************************************)
EXTENDS Issuance, FiniteSetTheorems, TLAPS

(***************************************************************************)
(* The inductive invariant: what is true of a request because of how far   *)
(* it has come, and what stays true of it when it is done or its process   *)
(* is gone.  The snapshot of a request is the snapshot of its process      *)
(* (Serves), so what Resolve, Receive and Record checked against the one   *)
(* still holds of the other.                                               *)
(***************************************************************************)

\* A request in flight has a process, and that process serves its snapshot.
Serves ==
    \A r \in Requests : req[r].at \in Steps =>
        /\ process # "down"
        /\ req[r].caller \in Callers
        /\ req[r].version = snapshot

\* Past Resolve, the caller is mapped and has proven its key.
Resolved ==
    \A r \in Requests : req[r].at \in Steps \ {"limit", "resolve"} =>
        Mapped(r) # NoAccount /\ req[r].body = "proven"

\* Past verify, the certificate is the mapped one, with its issuer.
Vetted ==
    \A r \in Requests : req[r].at \in {"append", "sync", "reply"} =>
        certs[r].exists /\ Verifies(certs[r], Mapped(r))

\* Past the write the row is in the file; past the sync it is there for good.
Entered ==
    \A r \in Requests :
        /\ req[r].at = "sync" => Credential(r) \in account
        /\ req[r].at = "reply" => Credential(r) \in acked

\* No acknowledged row is lost.
AckedKept == acked \subseteq account

\* Every row is what its request was about, of a certificate that exists, and
\* the snapshot it names allows it.
RowsAllowed ==
    \A row \in account :
        /\ req[row.request].at # "new"
        /\ certs[row.request].exists
        /\ row = Credential(row.request)
        /\ Registry[row.snapshot][row.caller] = row.sid

\* A request the CA was asked for was made, resolved, proven and can be named.
AskedResolved ==
    \A r \in asked :
        /\ req[r].at # "new"
        /\ Mapped(r) # NoAccount
        /\ req[r].caller \in Named[req[r].version]
        /\ req[r].body = "proven"

\* A request whose credential was delivered is over, and was recorded.
HandedOver ==
    \A r \in delivered :
        /\ req[r].at = "done"
        /\ req[r].body = "proven"
        /\ certs[r].exists
        /\ Verifies(certs[r], Mapped(r))
        /\ Credential(r) \in acked

IInv ==
    /\ TypeOK
    /\ Serves
    /\ Resolved
    /\ Vetted
    /\ Entered
    /\ AckedKept
    /\ RowsAllowed
    /\ AskedResolved
    /\ HandedOver

\* The start: no request has been made.
LEMMA InitIInv == Init => IInv
  <1> SUFFICES ASSUME Init PROVE IInv
    OBVIOUS
  <1>1. TypeOK
    BY IssuanceAssumption DEF Init, TypeOK, Request, NotMade, NoCert, FullCallers, Bodies, Backends
  <1>2. Serves /\ Resolved /\ Vetted /\ Entered
    BY DEF Init, NotMade, Steps, Serves, Resolved, Vetted, Entered
  <1>3. AckedKept /\ RowsAllowed /\ AskedResolved /\ HandedOver
    BY DEF Init, AckedKept, RowsAllowed, AskedResolved, HandedOver
  <1> QED
    BY <1>1, <1>2, <1>3 DEF IInv
-----------------------------------------------------------------------------
\* Arrive makes a request that was not made, of the snapshot being served.
LEMMA ArriveKeeps ==
  ASSUME IInv, NEW r \in Requests, NEW caller \in Callers \cup {NoCaller}, NEW body \in Bodies,
         Arrive(r, caller, body)
  PROVE  IInv'
  <1>a. PICK answer \in {"none", "unauthenticated", "invalid_request"} :
          /\ answer = "none" => caller # NoCaller
          /\ req' = [req EXCEPT ![r] =
               [at |-> IF answer = "none" THEN "limit" ELSE "done",
                caller |-> caller, body |-> body, version |-> snapshot, answer |-> answer]]
    BY DEF Arrive, EarlyAnswers, Authenticated
  <1>b. /\ req[r].at = "new" /\ process # "down"
        /\ UNCHANGED <<process, snapshot, backend, callerTokens, globalTokens, refills,
                       certs, asked, account, acked, named, delivered, outages>>
    BY DEF Arrive
  <1> USE <1>a, <1>b DEF IInv
  <1>1. \A q \in Requests : q # r => req'[q] = req[q]
    BY DEF TypeOK
  <1>2. /\ req'[r].at \in {"done", "limit"} /\ req'[r].caller = caller
        /\ req'[r].version = snapshot
        /\ req'[r].at = "limit" => caller # NoCaller
    BY DEF TypeOK
  <1>3. TypeOK'
    BY DEF TypeOK, Request, Steps, Reasons, Bodies
  <1>4. Serves'
    BY <1>1, <1>2 DEF Serves, TypeOK, Steps
  <1>5. Resolved'
    BY <1>1, <1>2 DEF Resolved, TypeOK, Steps, Mapped
  <1>6. Vetted'
    BY <1>1, <1>2 DEF Vetted, Mapped, Verifies
  <1>7. Entered'
    BY <1>1, <1>2 DEF Entered, Credential
  <1>8. AckedKept' /\ RowsAllowed'
    <2>1. \A row \in account : row.request \in Requests \ {r}
      BY DEF RowsAllowed, TypeOK, Credentials
    <2>2. \A row \in account : Credential(row.request)' = Credential(row.request)
      BY <1>1, <2>1 DEF Credential
    <2> QED
      BY <1>1, <2>1, <2>2 DEF AckedKept, RowsAllowed
  <1>9. AskedResolved'
    BY <1>1 DEF AskedResolved, TypeOK, Mapped
  <1>10. HandedOver'
    BY <1>1 DEF HandedOver, TypeOK, Mapped, Verifies, Credential
  <1> QED
    BY <1>3, <1>4, <1>5, <1>6, <1>7, <1>8, <1>9, <1>10
-----------------------------------------------------------------------------
(***************************************************************************)
(* The steps of Issue move one request and leave the rest of it, and every *)
(* other request, as they are.  What each step must add is only why the    *)
(* request may be where it now is.                                         *)
(***************************************************************************)

\* The request r is at `to` now, and nothing else that IInv reads has changed.
MovesTo(r, to) ==
    /\ \A q \in Requests \ {r} : req'[q] = req[q]
    /\ req'[r].at = to
    /\ req'[r].caller = req[r].caller
    /\ req'[r].body = req[r].body
    /\ req'[r].version = req[r].version

\* Proceed and Refuse move a request, and keep the table of requests typed.
LEMMA ProceedMoves ==
  ASSUME TypeOK, NEW r \in Requests, NEW to \in Steps, Proceed(r, to)
  PROVE  MovesTo(r, to) /\ req' \in [Requests -> Request]
  <1>1. req[r] \in Request /\ req \in [Requests -> Request]
    BY DEF TypeOK
  <1>2. [req[r] EXCEPT !.at = to] \in Request
    BY <1>1 DEF Request
  <1>3. req' \in [Requests -> Request]
    BY <1>1, <1>2 DEF Proceed
  <1> QED
    BY <1>1, <1>3 DEF Request, Proceed, MovesTo

LEMMA RefuseMoves ==
  ASSUME TypeOK, NEW r \in Requests, NEW reason \in Reasons, Refuse(r, reason)
  PROVE  MovesTo(r, "done") /\ req' \in [Requests -> Request]
  <1>1. req[r] \in Request /\ req \in [Requests -> Request]
    BY DEF TypeOK
  <1>2. [req[r] EXCEPT !.at = "done", !.answer = reason] \in Request
    BY <1>1 DEF Request
  <1>3. req' \in [Requests -> Request]
    BY <1>1, <1>2 DEF Refuse
  <1> QED
    BY <1>1, <1>3 DEF Request, Refuse, MovesTo

\* A request in flight that moves to where it may be keeps the invariant.
LEMMA MoveKeeps ==
  ASSUME IInv, TypeOK', NEW r \in Requests, NEW to \in Steps \cup {"done"},
         req[r].at \in Steps, MovesTo(r, to),
         UNCHANGED <<process, snapshot, certs>>,
         to \in Steps \ {"limit", "resolve"} => Mapped(r) # NoAccount /\ req[r].body = "proven",
         to \in {"append", "sync", "reply"} => certs[r].exists /\ Verifies(certs[r], Mapped(r)),
         to = "sync" => Credential(r) \in account',
         to = "reply" => Credential(r) \in acked',
         \/ asked' = asked
         \/ /\ asked' = asked \cup {r} /\ Mapped(r) # NoAccount /\ req[r].body = "proven"
            /\ req[r].caller \in Named[req[r].version],
         \/ account' = account
         \/ /\ account' = account \cup {Credential(r)}
            /\ certs[r].exists /\ Verifies(certs[r], Mapped(r)),
         \/ acked' = acked
         \/ acked' = acked \cup {Credential(r)} /\ Credential(r) \in account',
         \/ delivered' = delivered
         \/ /\ delivered' = delivered \cup {r}
            /\ to = "done" /\ req[r].body = "proven" /\ Credential(r) \in acked'
            /\ certs[r].exists /\ Verifies(certs[r], Mapped(r))
  PROVE  IInv'
  <1> USE DEF IInv, MovesTo
  <1>1. \A q \in Requests : Mapped(q)' = Mapped(q) /\ Credential(q)' = Credential(q)
    BY DEF Mapped, Credential
  <1>2. \A q \in Requests : Verifies(certs[q], Mapped(q))' = Verifies(certs[q], Mapped(q))
    BY <1>1 DEF Verifies
  <1>3. Serves'
    BY DEF Serves, Steps
  <1>4. Resolved'
    BY <1>1 DEF Resolved, Steps
  <1>5. Vetted'
    BY <1>1, <1>2 DEF Vetted
  <1>6. Entered'
    BY <1>1 DEF Entered
  <1>7. AckedKept'
    BY DEF AckedKept
  <1>8. RowsAllowed'
    <2>1. \A q \in Requests : req[q].at # "new" => req'[q].at # "new"
      BY DEF Steps
    <2>2. \A row \in account : row.request \in Requests
      BY DEF TypeOK, Credentials
    <2>3. Credential(r).request = r /\ req'[r].at # "new"
      BY DEF Credential, Steps
    <2>4. certs[r].exists /\ Verifies(certs[r], Mapped(r)) =>
            Registry[Credential(r).snapshot][Credential(r).caller] = Credential(r).sid
      BY DEF Credential, Verifies, Mapped
    <2> QED
      BY <1>1, <2>1, <2>2, <2>3, <2>4 DEF RowsAllowed
  <1>9. AskedResolved'
    BY <1>1 DEF AskedResolved, Steps, TypeOK
  <1>10. HandedOver'
    BY <1>1, <1>2 DEF HandedOver, Steps, TypeOK
  <1> QED
    BY <1>3, <1>4, <1>5, <1>6, <1>7, <1>8, <1>9, <1>10
-----------------------------------------------------------------------------
\* What the process does for a request it does under the request's snapshot, so
\* a certificate that verify passed is the one its row describes.
LEMMA RowIsCredential ==
  ASSUME IInv, NEW r \in Requests, req[r].at \in Steps
  PROVE  /\ Target(r) = Mapped(r)
         /\ Mapped(r) \in Accounts \cup {NoAccount}
         /\ Mapped(r) # NoAccount => Row(r) \in Credentials
         /\ certs[r].sid = Mapped(r) => Row(r) = Credential(r)
  <1>1. req[r].caller \in Callers /\ req[r].version = snapshot /\ snapshot \in Snapshots
    BY DEF IInv, Serves, TypeOK
  <1>2. Target(r) = Mapped(r)
    BY <1>1 DEF Target, Mapped
  <1>3. Mapped(r) \in Accounts \cup {NoAccount}
    BY <1>1, IssuanceAssumption DEF Mapped
  <1> QED
    BY <1>1, <1>2, <1>3 DEF Row, Credential, Credentials

\* callerLimit.Allow.
LEMMA CallerLimitKeeps ==
  ASSUME IInv, NEW r \in Requests, CallerLimit(r)
  PROVE  IInv'
  <1>1. req[r].at = "limit" /\ req[r].at \in Steps
    BY DEF CallerLimit, At, Steps
  <1>2. PICK to \in {"resolve", "done"} : MovesTo(r, to) /\ req' \in [Requests -> Request]
    BY ProceedMoves, RefuseMoves DEF IInv, CallerLimit, Steps, Reasons
  <1>3. req[r].caller \in Callers
    BY <1>1 DEF IInv, Serves
  <1>4. callerTokens' \in [Callers -> 0 .. CallerBurst]
    BY <1>3, IssuanceAssumption DEF IInv, TypeOK, CallerLimit, Spent
  <1>5. TypeOK'
    BY <1>2, <1>4 DEF IInv, TypeOK, CallerLimit
  <1> QED
    BY <1>1, <1>2, <1>5, MoveKeeps DEF CallerLimit, Steps

\* registry.Lookup and Request.Validate.
LEMMA ResolveKeeps ==
  ASSUME IInv, NEW r \in Requests, Resolve(r)
  PROVE  IInv'
  <1>1. req[r].at = "resolve" /\ req[r].at \in Steps
    BY DEF Resolve, At, Steps
  <1>2. PICK to \in {"budget", "done"} :
          /\ MovesTo(r, to) /\ req' \in [Requests -> Request]
          /\ to = "budget" => Target(r) # NoAccount /\ req[r].body = "proven"
    BY ProceedMoves, RefuseMoves DEF IInv, Resolve, Proven, Steps, Reasons
  <1>3. Target(r) = Mapped(r)
    BY <1>1, RowIsCredential
  <1>4. TypeOK'
    BY <1>2 DEF IInv, TypeOK, Resolve
  <1> QED
    BY <1>1, <1>2, <1>3, <1>4, MoveKeeps DEF Resolve, Steps

\* globalLimit.Allow.
LEMMA GlobalLimitKeeps ==
  ASSUME IInv, NEW r \in Requests, GlobalLimit(r)
  PROVE  IInv'
  <1>1. req[r].at = "budget" /\ req[r].at \in Steps
    BY DEF GlobalLimit, At, Steps
  <1>2. PICK to \in {"backend", "done"} : MovesTo(r, to) /\ req' \in [Requests -> Request]
    BY ProceedMoves, RefuseMoves DEF IInv, GlobalLimit, Steps, Reasons
  <1>3. Mapped(r) # NoAccount /\ req[r].body = "proven"
    BY <1>1 DEF IInv, Resolved
  <1>4. globalTokens' \in 0 .. GlobalBurst
    BY IssuanceAssumption DEF IInv, TypeOK, GlobalLimit, Spent
  <1>5. TypeOK'
    BY <1>2, <1>4 DEF IInv, TypeOK, GlobalLimit
  <1> QED
    BY <1>1, <1>2, <1>3, <1>5, MoveKeeps DEF GlobalLimit, Steps

\* backend.Issue up to the POST.
LEMMA BackendIssueKeeps ==
  ASSUME IInv, NEW r \in Requests, BackendIssue(r)
  PROVE  IInv'
  <1>1. req[r].at = "backend" /\ req[r].at \in Steps
    BY DEF BackendIssue, At, Steps
  <1>2. PICK to \in {"ces", "done"} : MovesTo(r, to) /\ req' \in [Requests -> Request]
    BY ProceedMoves, RefuseMoves DEF IInv, BackendIssue, Steps, Reasons
  <1>3. Mapped(r) # NoAccount /\ req[r].body = "proven"
    BY <1>1 DEF IInv, Resolved
  <1>4. \/ asked' = asked
        \/ asked' = asked \cup {r} /\ req[r].caller \in Named[req[r].version]
    BY <1>1 DEF BackendIssue, IInv, Serves
  <1>5. TypeOK'
    BY <1>2, <1>4 DEF IInv, TypeOK, BackendIssue
  <1> QED
    BY <1>1, <1>2, <1>3, <1>4, <1>5, MoveKeeps DEF BackendIssue, Steps

\* verify looks at what came back.
LEMMA ReceiveKeeps ==
  ASSUME IInv, NEW r \in Requests, Receive(r)
  PROVE  IInv'
  <1>1. req[r].at = "ces" /\ req[r].at \in Steps
    BY DEF Receive, At, Steps
  <1>2. PICK to \in {"append", "done"} :
          /\ MovesTo(r, to) /\ req' \in [Requests -> Request]
          /\ to = "append" => Verifies(certs[r], Target(r))
    BY ProceedMoves, RefuseMoves DEF IInv, Receive, Steps, Reasons
  <1>3. Mapped(r) # NoAccount /\ req[r].body = "proven"
    BY <1>1 DEF IInv, Resolved
  <1>4. Target(r) = Mapped(r)
    BY <1>1, RowIsCredential
  <1>5. TypeOK'
    BY <1>2 DEF IInv, TypeOK, Receive
  <1> QED
    BY <1>1, <1>2, <1>3, <1>4, <1>5, MoveKeeps DEF Receive, Steps

\* submit gives up.
LEMMA SubmitFailsKeeps ==
  ASSUME IInv, NEW r \in Requests, SubmitFails(r)
  PROVE  IInv'
  <1>1. req[r].at = "ces" /\ req[r].at \in Steps
    BY DEF SubmitFails, At, Steps
  <1>2. MovesTo(r, "done") /\ req' \in [Requests -> Request]
    BY RefuseMoves DEF IInv, SubmitFails, Reasons
  <1>3. TypeOK'
    BY <1>2 DEF IInv, TypeOK, SubmitFails
  <1> QED
    BY <1>1, <1>2, <1>3, MoveKeeps DEF SubmitFails, Steps

\* Record's write, or its failure.
LEMMA AppendRowKeeps ==
  ASSUME IInv, NEW r \in Requests, AppendRow(r)
  PROVE  IInv'
  <1>1. req[r].at = "append" /\ req[r].at \in Steps
    BY DEF AppendRow, At, Steps
  <1>2. Mapped(r) # NoAccount /\ req[r].body = "proven"
    BY <1>1 DEF IInv, Resolved
  <1>3. certs[r].exists /\ Verifies(certs[r], Mapped(r))
    BY <1>1 DEF IInv, Vetted
  <1>4. Row(r) = Credential(r) /\ Row(r) \in Credentials
    BY <1>1, <1>2, <1>3, RowIsCredential DEF Verifies
  <1>5. CASE account' = account \cup {Row(r)} /\ Proceed(r, "sync") /\ UNCHANGED named
    <2>1. MovesTo(r, "sync") /\ req' \in [Requests -> Request]
      BY <1>5, ProceedMoves DEF IInv, Steps
    <2>2. TypeOK'
      BY <1>4, <1>5, <2>1 DEF IInv, TypeOK, AppendRow
    <2> QED
      BY <1>1, <1>2, <1>3, <1>4, <1>5, <2>1, <2>2, MoveKeeps DEF AppendRow, Steps
  <1>6. CASE RecordFails(r) /\ UNCHANGED account
    <2>1. MovesTo(r, "done") /\ req' \in [Requests -> Request]
      BY <1>6, RefuseMoves DEF IInv, RecordFails, Reasons
    <2>2. TypeOK'
      BY <1>6, <2>1 DEF IInv, TypeOK, AppendRow, RecordFails
    <2> QED
      BY <1>1, <1>6, <2>1, <2>2, MoveKeeps DEF AppendRow, Steps
  <1> QED
    BY <1>5, <1>6 DEF AppendRow


\* Record's sync, or its failure.
LEMMA SyncRowKeeps ==
  ASSUME IInv, NEW r \in Requests, SyncRow(r)
  PROVE  IInv'
  <1>1. req[r].at = "sync" /\ req[r].at \in Steps
    BY DEF SyncRow, At, Steps
  <1>2. Mapped(r) # NoAccount /\ req[r].body = "proven"
    BY <1>1 DEF IInv, Resolved
  <1>3. Credential(r) \in account /\ certs[r].exists /\ Verifies(certs[r], Mapped(r))
    BY <1>1 DEF IInv, Entered, Vetted
  <1>4. Row(r) = Credential(r) /\ Row(r) \in Credentials
    BY <1>1, <1>2, <1>3, RowIsCredential DEF Verifies
  <1>5. CASE acked' = Ack(r) /\ Proceed(r, "reply") /\ UNCHANGED named
    <2>1. MovesTo(r, "reply") /\ req' \in [Requests -> Request]
      BY <1>5, ProceedMoves DEF IInv, Steps
    <2>2. acked' = acked \cup {Credential(r)} /\ account' = account
      BY <1>4, <1>5 DEF Ack, SyncRow
    <2>3. TypeOK'
      BY <1>4, <1>5, <2>1, <2>2 DEF IInv, TypeOK, SyncRow
    <2> QED
      BY <1>1, <1>2, <1>3, <2>1, <2>2, <2>3, MoveKeeps DEF SyncRow, Steps
  <1>6. CASE RecordFails(r) /\ UNCHANGED acked
    <2>1. MovesTo(r, "done") /\ req' \in [Requests -> Request]
      BY <1>6, RefuseMoves DEF IInv, RecordFails, Reasons
    <2>2. TypeOK'
      BY <1>6, <2>1 DEF IInv, TypeOK, SyncRow, RecordFails
    <2> QED
      BY <1>1, <1>6, <2>1, <2>2, MoveKeeps DEF SyncRow, Steps
  <1> QED
    BY <1>5, <1>6 DEF SyncRow

\* The response is written.
LEMMA ReplyKeeps ==
  ASSUME IInv, NEW r \in Requests, Reply(r)
  PROVE  IInv'
  <1>1. req[r].at = "reply" /\ req[r].at \in Steps
    BY DEF Reply, At, Steps
  <1>2. Mapped(r) # NoAccount /\ req[r].body = "proven"
    BY <1>1 DEF IInv, Resolved
  <1>3. Credential(r) \in acked /\ certs[r].exists /\ Verifies(certs[r], Mapped(r))
    BY <1>1 DEF IInv, Entered, Vetted
  <1>4. req \in [Requests -> Request] /\ req[r] \in Request
    BY DEF IInv, TypeOK
  <1>5. [req[r] EXCEPT !.at = "done", !.answer = "ok"] \in Request
    BY <1>4 DEF Request
  <1>6. MovesTo(r, "done") /\ req' \in [Requests -> Request]
    BY <1>4, <1>5 DEF Reply, MovesTo, Request
  <1>7. delivered' = delivered \/ delivered' = delivered \cup {r}
    BY DEF Reply
  <1>8. TypeOK'
    BY <1>6, <1>7 DEF IInv, TypeOK, Reply
  <1> QED
    BY <1>1, <1>2, <1>3, <1>6, <1>7, <1>8, MoveKeeps DEF Reply, Steps
-----------------------------------------------------------------------------
\* The CA issues: a certificate that did not exist, so one no row names and no
\* request past verify holds.
LEMMA CAIssuesKeeps ==
  ASSUME IInv, NEW r \in Requests, NEW sid \in Accounts \cup {NoAccount}, NEW complete \in BOOLEAN,
         CAIssues(r, sid, complete)
  PROVE  IInv'
  <1> USE DEF IInv, CAIssues
  <1>1. ~certs[r].exists /\ \A q \in Requests \ {r} : certs'[q] = certs[q]
    BY DEF TypeOK
  <1>2. TypeOK'
    BY DEF TypeOK
  <1>3. Serves' /\ Resolved' /\ AckedKept' /\ AskedResolved'
    BY DEF Serves, Resolved, AckedKept, AskedResolved, Mapped
  <1>4. Vetted'
    BY <1>1 DEF Vetted, Verifies, Mapped
  <1>5. r \notin delivered /\ req[r].at \notin {"append", "sync", "reply"}
    BY <1>1 DEF HandedOver, Vetted
  <1>6. Entered'
    BY <1>1, <1>5 DEF Entered, Credential
  <1>7. RowsAllowed'
    <2>1. \A row \in account : row.request \in Requests \ {r}
      BY <1>1 DEF RowsAllowed, TypeOK, Credentials
    <2>2. \A row \in account : Credential(row.request)' = Credential(row.request)
      BY <1>1, <2>1 DEF Credential
    <2> QED
      BY <1>1, <2>1, <2>2 DEF RowsAllowed
  <1>8. HandedOver'
    BY <1>1, <1>5 DEF HandedOver, Verifies, Mapped, Credential, TypeOK
  <1> QED
    BY <1>2, <1>3, <1>4, <1>6, <1>7, <1>8

\* What a step leaves alone when it touches neither requests nor certificates
\* nor the record: everything the invariant says beyond types.
LEMMA ProcessKeeps ==
  ASSUME IInv, TypeOK',
         UNCHANGED <<req, certs, asked, account, acked, delivered>>,
         \A r \in Requests : req[r].at \in Steps => process' # "down" /\ snapshot' = snapshot
  PROVE  IInv'
  BY DEF IInv, Serves, Resolved, Vetted, Entered, AckedKept, RowsAllowed, AskedResolved,
         HandedOver, Mapped, Credential, Verifies

LEMMA RefillKeeps ==
  ASSUME IInv, Refill
  PROVE  IInv'
  <1>1. TypeOK'
    BY IssuanceAssumption DEF IInv, TypeOK, Refill
  <1> QED
    BY <1>1, ProcessKeeps DEF IInv, Serves, Refill

\* A process that starts has no request in flight: the last one took them.
LEMMA StartKeeps ==
  ASSUME IInv, Start
  PROVE  IInv'
  <1>1. TypeOK'
    BY IssuanceAssumption DEF IInv, TypeOK, Start, FullCallers
  <1> QED
    BY <1>1, ProcessKeeps DEF IInv, Serves, Start

LEMMA CloseRecordKeeps ==
  ASSUME IInv, CloseRecord
  PROVE  IInv'
  <1>1. TypeOK'
    BY DEF IInv, TypeOK, CloseRecord
  <1> QED
    BY <1>1, ProcessKeeps DEF CloseRecord

\* The end of a process leaves no request in flight, and takes no row that was
\* acknowledged.
LEMMA OutageKeeps ==
  ASSUME IInv, Outage
  PROVE  IInv'
  <1>0. \A r \in Requests : req[r] \in Request
    BY DEF IInv, TypeOK
  <1>1. \A r \in Requests : req'[r] = IF req[r].at \in Steps THEN [req[r] EXCEPT !.at = "dead"]
                                      ELSE req[r]
    BY DEF Outage
  <1>2. \A r \in Requests : req[r] \in Request /\ req'[r] \in Request
    <2>1. ASSUME NEW x \in Request PROVE [x EXCEPT !.at = "dead"] \in Request
      BY DEF Request
    <2> QED
      BY <1>0, <1>1, <2>1
  <1> USE DEF IInv, Outage
  <1>3. \A r \in Requests :
          /\ req'[r].caller = req[r].caller /\ req'[r].body = req[r].body
          /\ req'[r].version = req[r].version
          /\ req[r].at \in {"new", "done"} => req'[r] = req[r]
          /\ req'[r].at \notin Steps
          /\ req[r].at # "new" => req'[r].at # "new"
    BY <1>1, <1>2 DEF Request, Steps
  <1>4. account' \subseteq account /\ acked \subseteq account'
    BY DEF Lost
  <1>5. \A r \in Requests : Mapped(r)' = Mapped(r) /\ Credential(r)' = Credential(r)
    BY <1>3 DEF Mapped, Credential
  <1>6. TypeOK'
    BY <1>2, <1>4, IssuanceAssumption DEF TypeOK
  <1>7. Serves' /\ Resolved' /\ Vetted' /\ Entered'
    BY <1>3 DEF Serves, Resolved, Vetted, Entered, Steps
  <1>8. AckedKept' /\ RowsAllowed'
    <2>1. \A row \in account' : row \in account /\ row.request \in Requests
      BY <1>4 DEF TypeOK, Credentials
    <2> QED
      BY <1>3, <1>4, <1>5, <2>1 DEF AckedKept, RowsAllowed
  <1>9. AskedResolved'
    BY <1>3, <1>5 DEF AskedResolved, TypeOK
  <1>10. HandedOver'
    <2> SUFFICES ASSUME NEW r \in delivered
                 PROVE  HandedOver!(r)'
      BY DEF HandedOver
    <2>1. r \in Requests /\ HandedOver!(r)
      BY DEF HandedOver, TypeOK
    <2>2. req'[r].at = "done" /\ req'[r].body = "proven"
      BY <1>3, <2>1
    <2>3. Credential(r)' \in acked'
      BY <1>5, <2>1
    <2>4. Verifies(certs[r], Mapped(r))'
      BY <1>5, <2>1 DEF Verifies
    <2> QED
      BY <2>1, <2>2, <2>3, <2>4
  <1> QED
    BY <1>6, <1>7, <1>8, <1>9, <1>10

\* Every step keeps the invariant.
LEMMA NextKeeps == IInv /\ [Next]_vars => IInv'
  <1> SUFFICES ASSUME IInv, [Next]_vars PROVE IInv'
    OBVIOUS
  <1>1. ASSUME NEW r \in Requests, NEW caller \in Callers \cup {NoCaller}, NEW body \in Bodies,
               Arrive(r, caller, body)
        PROVE  IInv'
    BY <1>1, ArriveKeeps
  <1>2. ASSUME NEW r \in Requests, Handle(r) PROVE IInv'
    BY <1>2, CallerLimitKeeps, ResolveKeeps, GlobalLimitKeeps, BackendIssueKeeps, ReceiveKeeps,
       SubmitFailsKeeps, AppendRowKeeps, SyncRowKeeps, ReplyKeeps DEF Handle
  <1>3. ASSUME NEW r \in Requests, NEW sid \in Accounts \cup {NoAccount}, NEW complete \in BOOLEAN,
               CAIssues(r, sid, complete)
        PROVE  IInv'
    BY <1>3, CAIssuesKeeps
  <1>4. CASE Refill \/ Start \/ CloseRecord \/ Outage
    BY <1>4, RefillKeeps, StartKeeps, CloseRecordKeeps, OutageKeeps
  <1>5. CASE UNCHANGED vars
    <2>1. TypeOK'
      BY <1>5 DEF IInv, TypeOK, vars
    <2> QED
      BY <1>5, <2>1, ProcessKeeps DEF IInv, Serves, vars
  <1> QED
    BY <1>1, <1>2, <1>3, <1>4, <1>5 DEF Next
-----------------------------------------------------------------------------
\* The invariant holds in every behaviour.
THEOREM Invariance == Spec => []IInv
  BY InitIInv, NextKeeps, PTL DEF Spec

\* The variables keep their types.
THEOREM TypeCorrect == Spec => []TypeOK
  <1>1. IInv => TypeOK
    BY DEF IInv
  <1> QED
    BY <1>1, Invariance, PTL

\* Whatever the CA, the process and the machine do, a credential that reached a
\* workload is in the record (recordIssuance refuses what it cannot record).
THEOREM DeliveredAreRecorded == Spec => []DeliveredIsRecorded
  <1>1. IInv => DeliveredIsRecorded
    BY DEF IInv, HandedOver, AckedKept, DeliveredIsRecorded
  <1> QED
    BY <1>1, Invariance, PTL

\* A credential that reached a workload authenticates as the account its caller
\* is mapped to (adcs.verify refuses any other).
THEOREM DeliveredAreMapped == Spec => []DeliveredIsMapped
  <1>1. IInv => DeliveredIsMapped
    BY DEF IInv, HandedOver, DeliveredIsMapped, Verifies
  <1> QED
    BY <1>1, Invariance, PTL

\* Every row of the record is a certificate that exists, and says its account, its
\* caller and the snapshot of its request.
THEOREM RecordedExist == Spec => []RecordedExists
  <1>1. IInv => RecordedExists
    BY DEF IInv, RowsAllowed, RecordedExists
  <1> QED
    BY <1>1, Invariance, PTL

\* The CA is asked only for a mapped caller that it can be told by name, with a
\* proven key.
THEOREM AskedAreMapped == Spec => []AskedIsMapped
  <1>1. IInv => AskedIsMapped
    BY DEF IInv, AskedResolved, AskedIsMapped
  <1> QED
    BY <1>1, Invariance, PTL
-----------------------------------------------------------------------------
(***************************************************************************)
(* The issuance path implements Promise.  Its account holds rows, and what *)
(* is delivered there is the credential of a request delivered here.       *)
(***************************************************************************)

\* A request that was answered, and the certificate it was answered with, stay
\* as they are.
LEMMA AnsweredStays ==
  ASSUME IInv, [Next]_vars, NEW q \in Requests, req[q].at = "done", certs[q].exists
  PROVE  req'[q] = req[q] /\ certs'[q] = certs[q]
  <1>1. req \in [Requests -> Request] /\ certs[q].exists = TRUE
    BY DEF IInv, TypeOK
  <1>2. ASSUME NEW r \in Requests, NEW caller \in Callers \cup {NoCaller}, NEW body \in Bodies,
               Arrive(r, caller, body)
        PROVE  req'[q] = req[q] /\ certs'[q] = certs[q]
    BY <1>1, <1>2 DEF Arrive
  <1>3. ASSUME NEW r \in Requests, Handle(r)
        PROVE  req'[q] = req[q] /\ certs'[q] = certs[q]
    <2>1. r # q
      BY <1>3 DEF Handle, CallerLimit, Resolve, GlobalLimit, BackendIssue, Receive, SubmitFails,
                  AppendRow, SyncRow, Reply, At
    <2>2. certs' = certs
      BY <1>3 DEF Handle, CallerLimit, Resolve, GlobalLimit, BackendIssue, Receive, SubmitFails,
                  AppendRow, SyncRow, Reply
    <2>3. req'[q] = req[q]
      BY <1>1, <1>3, <2>1
      DEF Handle, CallerLimit, Resolve, GlobalLimit, BackendIssue, Receive, SubmitFails,
          AppendRow, SyncRow, Reply, RecordFails, Proceed, Refuse
    <2> QED
      BY <2>2, <2>3
  <1>4. ASSUME NEW r \in Requests, NEW sid \in Accounts \cup {NoAccount}, NEW complete \in BOOLEAN,
               CAIssues(r, sid, complete)
        PROVE  req'[q] = req[q] /\ certs'[q] = certs[q]
    BY <1>4 DEF CAIssues, IInv, TypeOK
  <1>5. CASE Refill \/ Start \/ CloseRecord \/ UNCHANGED vars
    BY <1>5 DEF Refill, Start, CloseRecord, vars
  <1>6. CASE Outage
    BY <1>1, <1>6 DEF Outage, Steps
  <1> QED
    BY <1>2, <1>3, <1>4, <1>5, <1>6 DEF Next

\* So what was delivered stays delivered as it was.
LEMMA DeliveredStays ==
  ASSUME IInv, [Next]_vars, delivered' = delivered
  PROVE  {Credential(r) : r \in delivered}' = {Credential(r) : r \in delivered}
  <1>1. \A r \in delivered : r \in Requests /\ req[r].at = "done" /\ certs[r].exists
    BY DEF IInv, TypeOK, HandedOver
  <1>2. \A r \in delivered : req'[r] = req[r] /\ certs'[r] = certs[r]
    BY <1>1, AnsweredStays
  <1>3. \A r \in delivered : Credential(r)' = Credential(r)
    BY <1>2 DEF Credential
  <1> QED
    BY <1>3

\* The steps that enter a row, acknowledge one, deliver one or lose some are
\* those of Promise; every other step leaves what Promise sees as it is.
LEMMA StepKeepsPromise ==
  ASSUME IInv, [Next]_vars
  PROVE  [Promised!PromiseNext]_(Promised!promiseVars)
  <1> USE DEF Promised!PromiseNext, Promised!promiseVars, Promised!Next, Promised!vars
  <1>1. CASE UNCHANGED <<account, acked, delivered>>
    BY <1>1, DeliveredStays
  <1>2. ASSUME NEW r \in Requests, AppendRow(r), account' # account
        PROVE  Promised!PromiseNext
    <2>1. req[r].at = "append" /\ req[r].at \in Steps
      BY <1>2 DEF AppendRow, At, Steps
    <2>2. Mapped(r) # NoAccount /\ Verifies(certs[r], Mapped(r))
      BY <2>1 DEF IInv, Resolved, Vetted
    <2>3. Row(r) \in Credentials /\ Registry[Row(r).snapshot][Row(r).caller] = Row(r).sid
      BY <2>1, <2>2, RowIsCredential DEF Row, Target
    <2>4. account' = account \cup {Row(r)} /\ UNCHANGED <<acked, delivered>>
      BY <1>2 DEF AppendRow
    <2>5. Row(r) \notin account
      BY <1>2, <2>4
    <2>6. Promised!Enter(Row(r))
      BY <2>4, <2>5 DEF Promised!Enter
    <2> QED
      BY <2>3, <2>4, <2>6, DeliveredStays
  <1>3. ASSUME NEW r \in Requests, SyncRow(r), acked' # acked
        PROVE  Promised!PromiseNext
    <2>1. req[r].at = "sync" /\ req[r].at \in Steps
      BY <1>3 DEF SyncRow, At, Steps
    <2>2. Mapped(r) # NoAccount /\ Verifies(certs[r], Mapped(r)) /\ Credential(r) \in account
      BY <2>1 DEF IInv, Resolved, Vetted, Entered
    <2>3. Row(r) \in Credentials /\ Registry[Row(r).snapshot][Row(r).caller] = Row(r).sid
      BY <2>1, <2>2, RowIsCredential DEF Row, Target
    <2>4. Row(r) \in account
      BY <2>1, <2>2, RowIsCredential DEF Verifies
    <2>5. acked' = acked \cup {Row(r)} /\ UNCHANGED <<account, delivered>>
      BY <1>3 DEF SyncRow, Ack
    <2>6. Promised!Acknowledge(Row(r))
      BY <2>4, <2>5 DEF Promised!Acknowledge
    <2> QED
      BY <2>3, <2>5, <2>6, DeliveredStays
  <1>4. ASSUME NEW r \in Requests, Reply(r), delivered' # delivered
        PROVE  Promised!PromiseNext
    <2>1. req[r].at = "reply" /\ req[r].at \in Steps
      BY <1>4 DEF Reply, At, Steps
    <2>2. Credential(r) \in acked /\ acked \subseteq account
      BY <2>1 DEF IInv, Entered, AckedKept
    <2>3. /\ Credential(r) \in Credentials
          /\ Registry[Credential(r).snapshot][Credential(r).caller] = Credential(r).sid
      BY <2>2 DEF IInv, TypeOK, RowsAllowed
    <2>4. delivered' = delivered \cup {r} /\ UNCHANGED <<account, acked, certs>>
      BY <1>4 DEF Reply
    <2>5. \A q \in delivered : q \in Requests /\ req'[q] = req[q] /\ certs'[q] = certs[q]
      BY AnsweredStays DEF IInv, TypeOK, HandedOver
    <2>6. req'[r].caller = req[r].caller /\ req'[r].version = req[r].version
      BY <1>4 DEF Reply, IInv, TypeOK, Request
    <2>7. \A q \in delivered' : Credential(q)' = Credential(q)
      BY <2>4, <2>5, <2>6 DEF Credential
    <2>8. {Credential(q) : q \in delivered}' = {Credential(q) : q \in delivered} \cup {Credential(r)}
      BY <2>4, <2>7
    <2>9. Promised!Deliver(Credential(r))
      BY <2>2, <2>4, <2>8 DEF Promised!Deliver
    <2> QED
      BY <2>3, <2>9
  <1>5. CASE Outage
    <2>1. Promised!Lose
      BY <1>5 DEF Outage, Lost, Promised!Lose
    <2>2. delivered' = delivered
      BY <1>5 DEF Outage
    <2> QED
      BY <2>1, <2>2, DeliveredStays
  <1>6. ASSUME NEW r \in Requests, Handle(r)
        PROVE  \/ UNCHANGED <<account, acked, delivered>>
               \/ AppendRow(r) /\ account' # account
               \/ SyncRow(r) /\ acked' # acked
               \/ Reply(r) /\ delivered' # delivered
    BY <1>6 DEF Handle, CallerLimit, Resolve, GlobalLimit, BackendIssue, Receive, SubmitFails,
                AppendRow, SyncRow, Reply
  <1>7. \/ UNCHANGED <<account, acked, delivered>>
        \/ \E r \in Requests : Handle(r)
        \/ Outage
    BY DEF Next, Arrive, CAIssues, Refill, Start, CloseRecord, vars
  <1> QED
    BY <1>1, <1>2, <1>3, <1>4, <1>5, <1>6, <1>7

\* The issuance path does what Promise says and nothing else: the refinement.
THEOREM PromiseKept == Spec => KeepsPromise
  <1>1. Init => Promised!PromiseInit
    BY DEF Init, Promised!PromiseInit, Promised!Init
  <1>2. IInv /\ [Next]_vars => [Promised!PromiseNext]_(Promised!promiseVars)
    BY StepKeepsPromise
  <1> QED
    BY <1>1, <1>2, Invariance, PTL DEF Spec, KeepsPromise, Promised!PromiseSpec
-----------------------------------------------------------------------------
\* The requests that took a token of the global limit to get to the CA.
Drawn == asked \cup {r \in Requests : req[r].at = "backend"}

\* What the processes before this one, and this one, were given at most.
Given == GlobalBurst * outages + refills

(***************************************************************************)
(* The bound alone is not inductive: it has to say that the tokens the     *)
(* process still has come out of the same sum, and that a process that is  *)
(* gone took its tokens with it.                                           *)
(***************************************************************************)
DrawAccounted ==
    /\ IsFiniteSet(Drawn)
    /\ process = "down" => Cardinality(Drawn) <= Given
    /\ process # "down" => Cardinality(Drawn) + globalTokens <= Given + GlobalBurst

\* The sums are numbers, and a burst more is a burst more.
LEMMA GivenGrows ==
  ASSUME TypeOK
  PROVE  /\ GlobalBurst \in Nat /\ globalTokens \in Nat /\ Given \in Nat
         /\ GlobalBurst * (outages + 1) + refills = Given + GlobalBurst
  <1>1. GlobalBurst \in Nat /\ globalTokens \in Nat /\ outages \in Nat /\ refills \in Nat
    BY IssuanceAssumption DEF TypeOK
  <1>2. GlobalBurst * outages \in Nat
    BY <1>1
  <1>3. GlobalBurst * (outages + 1) = GlobalBurst * outages + GlobalBurst
    BY <1>1
  <1> QED
    BY <1>1, <1>2, <1>3 DEF Given

LEMMA InitDraw == Init => DrawAccounted
  <1> SUFFICES ASSUME Init PROVE DrawAccounted
    OBVIOUS
  <1>1. Drawn = {}
    BY DEF Init, Drawn, NotMade
  <1>2. Given = 0
    BY IssuanceAssumption DEF Init, Given
  <1> QED
    BY <1>1, <1>2, FS_EmptySet DEF Init, DrawAccounted

\* A step that draws nothing new and leaves the budget alone.
LEMMA NoDraw ==
  ASSUME TypeOK, DrawAccounted, Drawn' \subseteq Drawn,
         process' = "down" <=> process = "down",
         UNCHANGED <<globalTokens, refills, outages>>
  PROVE  DrawAccounted'
  <1>1. IsFiniteSet(Drawn') /\ Cardinality(Drawn') <= Cardinality(Drawn)
    BY FS_Subset DEF DrawAccounted
  <1>2. Cardinality(Drawn) \in Nat /\ Cardinality(Drawn') \in Nat
    BY <1>1, FS_CardinalityType DEF DrawAccounted
  <1>3. Given' = Given
    BY DEF Given
  <1> QED
    BY <1>1, <1>2, <1>3, GivenGrows DEF DrawAccounted

\* A step of a request draws when it takes a token, and only then.
LEMMA HandleDraws ==
  ASSUME IInv, IInv', DrawAccounted, NEW r \in Requests, Handle(r)
  PROVE  DrawAccounted'
  <1>1. req \in [Requests -> Request] /\ r \notin {} /\ TypeOK
    BY DEF IInv, TypeOK
  <1>2. CASE GlobalLimit(r) /\ globalTokens > 0 /\ globalTokens' = Spent(globalTokens)
             /\ Proceed(r, "backend")
    <2>0. MovesTo(r, "backend") /\ asked' = asked
      BY <1>1, <1>2, ProceedMoves DEF GlobalLimit, Steps
    <2>1. Drawn' = Drawn \cup {r}
      <3>1. \A q \in Requests : req'[q].at = "backend" <=> req[q].at = "backend" \/ q = r
        BY <2>0 DEF MovesTo
      <3>2. Drawn' \subseteq Drawn \cup {r}
        BY <2>0, <3>1 DEF Drawn
      <3>3. Drawn \cup {r} \subseteq Drawn'
        BY <2>0, <3>1 DEF Drawn
      <3> QED
        BY <3>2, <3>3
    <2>2. /\ IsFiniteSet(Drawn') /\ Cardinality(Drawn') <= Cardinality(Drawn) + 1
          /\ Cardinality(Drawn) \in Nat /\ Cardinality(Drawn') \in Nat
      <3>1. IsFiniteSet(Drawn) /\ Cardinality(Drawn) \in Nat
        BY FS_CardinalityType DEF DrawAccounted
      <3>2. IsFiniteSet(Drawn \cup {r})
        BY <3>1, FS_AddElement
      <3>3. Cardinality(Drawn \cup {r}) = IF r \in Drawn THEN Cardinality(Drawn)
                                          ELSE Cardinality(Drawn) + 1
        BY <3>1, FS_AddElement
      <3> QED
        BY <2>1, <3>1, <3>2, <3>3
    <2>3. process # "down" /\ process' = process /\ Given' = Given
      BY <1>2 DEF GlobalLimit, At, Given
    <2>4. globalTokens' = globalTokens - 1
      BY <1>2 DEF Spent
    <2> QED
      BY <1>1, <2>2, <2>3, <2>4, GivenGrows DEF DrawAccounted
  <1>3. CASE GlobalLimit(r) /\ Refuse(r, "rate_limited") /\ UNCHANGED globalTokens
    <2>1. Drawn' \subseteq Drawn
      BY <1>1, <1>3 DEF GlobalLimit, Refuse, Drawn
    <2> QED
      BY <1>1, <1>3, <2>1, NoDraw DEF GlobalLimit
  <1>4. CASE BackendIssue(r)
    <2>1. Drawn' \subseteq Drawn
      BY <1>1, <1>4 DEF BackendIssue, At, Proceed, Refuse, Drawn
    <2> QED
      BY <1>1, <1>4, <2>1, NoDraw DEF BackendIssue
  <1>5. CASE CallerLimit(r) \/ Resolve(r) \/ Receive(r) \/ SubmitFails(r) \/ AppendRow(r)
             \/ SyncRow(r) \/ Reply(r)
    <2>1. asked' = asked /\ \A q \in Requests : req'[q].at = "backend" => req[q].at = "backend"
      <3>1. CASE \E to \in Steps \ {"backend"} : Proceed(r, to)
        BY <1>1, <1>5, <3>1, ProceedMoves
        DEF MovesTo, CallerLimit, Resolve, Receive, SubmitFails, AppendRow, SyncRow, Reply
      <3>2. CASE \E reason \in Reasons : Refuse(r, reason)
        BY <1>1, <1>5, <3>2, RefuseMoves
        DEF MovesTo, CallerLimit, Resolve, Receive, SubmitFails, AppendRow, SyncRow, Reply
      <3>3. CASE Reply(r)
        BY <1>1, <3>3 DEF Reply
      <3> QED
        BY <1>5, <3>1, <3>2, <3>3
        DEF CallerLimit, Resolve, Receive, SubmitFails, AppendRow, SyncRow, RecordFails,
            Steps, Reasons
    <2>3. Drawn' \subseteq Drawn
      BY <2>1 DEF Drawn
    <2>2. UNCHANGED <<process, globalTokens, refills, outages>>
      BY <1>5 DEF CallerLimit, Resolve, Receive, SubmitFails, AppendRow, SyncRow, Reply
    <2> QED
      BY <1>1, <2>2, <2>3, NoDraw
  <1> QED
    BY <1>2, <1>3, <1>4, <1>5 DEF Handle, GlobalLimit

\* Time gives back a token, and the sum it comes out of grows with it.
LEMMA RefillDraws ==
  ASSUME IInv, DrawAccounted, Refill
  PROVE  DrawAccounted'
  <1>1. TypeOK /\ Drawn' = Drawn
    BY DEF IInv, Refill, Drawn
  <1>2. globalTokens' <= globalTokens + 1 /\ globalTokens' \in Nat /\ Given' = Given + 1
    BY <1>1, IssuanceAssumption, GivenGrows DEF Refill, TypeOK, Given
  <1>3. Cardinality(Drawn) \in Nat
    BY FS_CardinalityType DEF DrawAccounted
  <1> QED
    BY <1>1, <1>2, <1>3, GivenGrows DEF DrawAccounted, Refill

\* A process that starts brings a burst.
LEMMA StartDraws ==
  ASSUME IInv, DrawAccounted, Start
  PROVE  DrawAccounted'
  <1>1. TypeOK /\ Drawn' = Drawn /\ Given' = Given
    BY DEF IInv, Start, Drawn, Given
  <1>2. Cardinality(Drawn) \in Nat
    BY FS_CardinalityType DEF DrawAccounted
  <1> QED
    BY <1>1, <1>2, GivenGrows DEF DrawAccounted, Start

\* A process that ends takes its tokens with it, and what it drew stays drawn.
LEMMA OutageDraws ==
  ASSUME IInv, DrawAccounted, Outage
  PROVE  DrawAccounted'
  <1>1. TypeOK /\ process # "down" /\ process' = "down"
    BY DEF IInv, Outage
  <1>2. Drawn' \subseteq Drawn
    BY DEF Outage, Drawn, Steps
  <1>3. /\ IsFiniteSet(Drawn') /\ Cardinality(Drawn') <= Cardinality(Drawn)
        /\ Cardinality(Drawn) \in Nat /\ Cardinality(Drawn') \in Nat
    BY <1>2, FS_Subset, FS_CardinalityType DEF DrawAccounted
  <1>4. Given' = Given + GlobalBurst
    BY <1>1, GivenGrows DEF Outage, Given
  <1> QED
    BY <1>1, <1>3, <1>4, GivenGrows DEF DrawAccounted

LEMMA NextDraws ==
  ASSUME IInv, IInv', DrawAccounted, [Next]_vars
  PROVE  DrawAccounted'
  <1>1. ASSUME NEW r \in Requests, NEW caller \in Callers \cup {NoCaller}, NEW body \in Bodies,
               Arrive(r, caller, body)
        PROVE  DrawAccounted'
    <2>1. Drawn' \subseteq Drawn
      BY <1>1 DEF Arrive, Drawn, IInv, TypeOK
    <2> QED
      BY <1>1, <2>1, NoDraw DEF IInv, Arrive
  <1>2. CASE \/ UNCHANGED vars \/ CloseRecord
             \/ \E r \in Requests, sid \in Accounts \cup {NoAccount}, complete \in BOOLEAN :
                  CAIssues(r, sid, complete)
    <2>1. /\ Drawn' = Drawn /\ (process' = "down" <=> process = "down")
          /\ UNCHANGED <<globalTokens, refills, outages>>
      BY <1>2 DEF vars, CloseRecord, CAIssues, Drawn
    <2> QED
      BY <2>1, NoDraw DEF IInv
  <1> QED
    BY <1>1, <1>2, HandleDraws, RefillDraws, StartDraws, OutageDraws DEF Next

-----------------------------------------------------------------------------
(***************************************************************************)
(* Whom the limit is spent on.  A request has no answer while it is in     *)
(* flight, so the answer it gets says how far it had come.                 *)
(***************************************************************************)
Unanswered == \A r \in Requests : req[r].at \in Steps \cup {"new"} => req[r].answer = "none"

Late == {"backend", "ces", "append", "sync", "reply"}

LateAnswers == {"not_implemented", "internal", "ok"}

Passing == {r \in Requests : Passed(r)}

SpentOnPassing ==
    /\ Unanswered
    /\ IsFiniteSet(Passing)
    /\ process # "down" => GlobalBurst - globalTokens <= Cardinality(Passing)

LEMMA PassedForm ==
  ASSUME NEW r
  PROVE  Passed(r) <=> req[r].at \in Late \/ req[r].answer \in LateAnswers
  BY DEF Passed, Late, LateAnswers

\* A step of one request to `at` with the answer `answer`.
LEMMA OnePasses ==
  ASSUME Unanswered, NEW r \in Requests, NEW at, NEW answer,
         \A q \in Requests \ {r} : req'[q] = req[q],
         req'[r].at = at, req'[r].answer = answer,
         req[r].at \in Steps \cup {"new"},
         at \in Steps \cup {"new"} => answer = "none",
         req[r].at \in Late => at \in Late \/ answer \in LateAnswers
  PROVE  /\ Unanswered'
         /\ Passing' = IF at \in Late \/ answer \in LateAnswers THEN Passing \cup {r} ELSE Passing
  <1>1. Unanswered'
    BY DEF Unanswered
  <1>2. \A q \in Requests \ {r} : Passed(q)' <=> Passed(q)
    BY DEF Passed
  <1>3. Passed(r)' <=> at \in Late \/ answer \in LateAnswers
    BY DEF Passed, Late, LateAnswers
  <1>4. Passed(r) <=> req[r].at \in Late
    BY PassedForm DEF Unanswered, LateAnswers
  <1> QED
    BY <1>1, <1>2, <1>3, <1>4 DEF Passing

\* A step of a request passes it when it takes a token, and only then.
LEMMA HandlePasses ==
  ASSUME IInv, SpentOnPassing, NEW r \in Requests, Handle(r)
  PROVE  SpentOnPassing'
  <1>1. /\ req \in [Requests -> Request] /\ req[r] \in Request /\ TypeOK
        /\ GlobalBurst \in Nat /\ globalTokens \in Nat
    BY GivenGrows DEF IInv, TypeOK
  <1>2. Unanswered /\ IsFiniteSet(Passing) /\ Cardinality(Passing) \in Nat
    BY FS_CardinalityType DEF SpentOnPassing
  <1>3. req[r].at \in Steps /\ process # "down" /\ process' = process
    BY DEF Handle, CallerLimit, Resolve, GlobalLimit, BackendIssue, Receive, SubmitFails,
           AppendRow, SyncRow, Reply, At, Steps
  <1>4. GlobalBurst - globalTokens <= Cardinality(Passing)
    BY <1>3 DEF SpentOnPassing
  <1>5. req[r].answer = "none"
    BY <1>2, <1>3 DEF Unanswered
  <1>6. ASSUME NEW to \in Steps, Proceed(r, to), req[r].at \in Late => to \in Late
        PROVE  /\ Unanswered'
               /\ Passing' = IF to \in Late THEN Passing \cup {r} ELSE Passing
    <2>1. /\ \A q \in Requests \ {r} : req'[q] = req[q]
          /\ req'[r].at = to /\ req'[r].answer = "none"
      BY <1>1, <1>5, <1>6 DEF Proceed, Request
    <2>2. "none" \notin LateAnswers
      BY DEF LateAnswers
    <2> QED
      BY <1>2, <1>3, <1>6, <2>1, <2>2, OnePasses
  <1>7. ASSUME NEW answer \in Reasons \cup {"ok"}, Refuse(r, answer),
               req[r].at \in Late <=> answer \in LateAnswers
        PROVE  Unanswered' /\ Passing' = Passing
    <2>1. /\ \A q \in Requests \ {r} : req'[q] = req[q]
          /\ req'[r].at = "done" /\ req'[r].answer = answer
      BY <1>1, <1>7 DEF Refuse, Request
    <2>2. "done" \notin Steps \cup {"new"} /\ "done" \notin Late
      BY DEF Steps, Late
    <2>3. /\ Unanswered'
          /\ Passing' = IF answer \in LateAnswers THEN Passing \cup {r} ELSE Passing
      BY <1>2, <1>3, <1>7, <2>1, <2>2, OnePasses
    <2>4. req[r].at \in Late => r \in Passing
      BY PassedForm DEF Passing
    <2> QED
      BY <1>7, <2>3, <2>4
  <1>8. CASE GlobalLimit(r) /\ Proceed(r, "backend") /\ globalTokens' = Spent(globalTokens)
    <2>1. req[r].at = "budget" /\ "backend" \in Late /\ "backend" \in Steps
      BY <1>8 DEF GlobalLimit, At, Late, Steps
    <2>2. "budget" \notin Late
      BY DEF Late
    <2>3. Unanswered' /\ Passing' = Passing \cup {r}
      BY <1>6, <1>8, <2>1, <2>2
    <2>4. r \notin Passing
      BY <1>5, <2>1, <2>2, PassedForm DEF Passing, LateAnswers
    <2>5. IsFiniteSet(Passing') /\ Cardinality(Passing') = Cardinality(Passing) + 1
      BY <1>2, <2>3, <2>4, FS_AddElement
    <2>6. globalTokens' = globalTokens - 1
      BY <1>8 DEF Spent
    <2> QED
      BY <1>1, <1>2, <1>4, <2>3, <2>5, <2>6 DEF SpentOnPassing
  <1>9. ASSUME Unanswered', Passing' = Passing, globalTokens' = globalTokens
        PROVE  SpentOnPassing'
    BY <1>2, <1>4, <1>9 DEF SpentOnPassing
  <1>10. CASE GlobalLimit(r) /\ Refuse(r, "rate_limited") /\ UNCHANGED globalTokens
    <2>1. Unanswered' /\ Passing' = Passing
      BY <1>7, <1>10 DEF GlobalLimit, At, Late, LateAnswers, Reasons
    <2> QED
      BY <1>9, <1>10, <2>1
  <1>11. CASE CallerLimit(r) \/ Resolve(r)
    <2>1. /\ req[r].at \in {"limit", "resolve"} /\ globalTokens' = globalTokens
          /\ \/ Proceed(r, "resolve") \/ Proceed(r, "budget")
             \/ Refuse(r, "rate_limited") \/ Refuse(r, "no_mapping") \/ Refuse(r, "invalid_request")
      BY <1>11 DEF CallerLimit, Resolve, At
    <2>2. Unanswered' /\ Passing' = Passing
      BY <1>6, <1>7, <2>1 DEF Late, LateAnswers, Reasons, Steps
    <2> QED
      BY <1>9, <2>1, <2>2
  <1>12. CASE BackendIssue(r) \/ Receive(r) \/ SubmitFails(r) \/ AppendRow(r) \/ SyncRow(r)
             \/ Reply(r)
    <2>1. /\ req[r].at \in Late /\ globalTokens' = globalTokens
          /\ \/ \E to \in Late : Proceed(r, to)
             \/ \E answer \in LateAnswers : Refuse(r, answer)
      BY <1>12 DEF BackendIssue, Receive, SubmitFails, AppendRow, SyncRow, Reply, RecordFails, At,
                   Late, LateAnswers, Refuse
    <2>2. r \in Passing /\ Late \subseteq Steps /\ LateAnswers \subseteq Reasons \cup {"ok"}
      BY <2>1, PassedForm DEF Passing, Late, Steps, LateAnswers, Reasons
    <2>3. Unanswered' /\ Passing' = Passing
      BY <1>6, <1>7, <2>1, <2>2
    <2> QED
      BY <1>9, <2>1, <2>3
  <1> QED
    BY <1>8, <1>10, <1>11, <1>12 DEF Handle, GlobalLimit

LEMMA NextPasses ==
  ASSUME IInv, IInv', SpentOnPassing, [Next]_vars
  PROVE  SpentOnPassing'
  <1>1. /\ req \in [Requests -> Request] /\ TypeOK /\ TypeOK'
        /\ GlobalBurst \in Nat /\ globalTokens \in Nat /\ globalTokens' \in Nat
    BY GivenGrows DEF IInv, TypeOK
  <1>2. Unanswered /\ IsFiniteSet(Passing) /\ Cardinality(Passing) \in Nat
    BY FS_CardinalityType DEF SpentOnPassing
  <1>3. ASSUME NEW r \in Requests, NEW caller \in Callers \cup {NoCaller}, NEW body \in Bodies,
               Arrive(r, caller, body)
        PROVE  SpentOnPassing'
    <2>1. PICK answer \in {"none", "unauthenticated", "invalid_request"} :
            req' = [req EXCEPT ![r] =
                      [at |-> IF answer = "none" THEN "limit" ELSE "done",
                       caller |-> caller, body |-> body, version |-> snapshot, answer |-> answer]]
      BY <1>3 DEF Arrive, EarlyAnswers
    <2>2. req[r].at = "new" /\ UNCHANGED <<process, globalTokens>>
      BY <1>3 DEF Arrive
    <2>3. /\ \A q \in Requests \ {r} : req'[q] = req[q]
          /\ req'[r].at = (IF answer = "none" THEN "limit" ELSE "done")
          /\ req'[r].answer = answer
      BY <1>1, <2>1
    <2>4. Unanswered' /\ Passing' = Passing
      BY <1>2, <2>2, <2>3, OnePasses DEF Late, LateAnswers, Steps
    <2> QED
      BY <1>2, <2>2, <2>4 DEF SpentOnPassing
  <1>4. ASSUME NEW r \in Requests, Handle(r) PROVE SpentOnPassing'
    BY <1>4, HandlePasses
  <1>5. CASE \/ UNCHANGED vars \/ CloseRecord
             \/ \E r \in Requests, sid \in Accounts \cup {NoAccount}, complete \in BOOLEAN :
                  CAIssues(r, sid, complete)
    <2>1. UNCHANGED <<req, globalTokens>> /\ (process' # "down" => process # "down")
      BY <1>5 DEF vars, CloseRecord, CAIssues
    <2> QED
      BY <2>1 DEF SpentOnPassing, Unanswered, Passing, Passed
  <1>6. CASE Refill
    <2>1. UNCHANGED <<req, process>> /\ globalTokens <= globalTokens'
      BY <1>1, <1>6 DEF Refill
    <2>2. Unanswered' /\ Passing' = Passing
      BY <1>2, <2>1 DEF Unanswered, Passing, Passed
    <2> QED
      BY <1>1, <1>2, <2>1, <2>2 DEF SpentOnPassing
  \* The next process has spent nothing yet.
  <1>7. CASE Start
    <2>1. UNCHANGED req /\ globalTokens' = GlobalBurst
      BY <1>7 DEF Start
    <2>2. Unanswered' /\ Passing' = Passing
      BY <1>2, <2>1 DEF Unanswered, Passing, Passed
    <2> QED
      BY <1>1, <1>2, <2>1, <2>2 DEF SpentOnPassing
  <1>8. CASE Outage
    <2>1. /\ process' = "down"
          /\ \A r \in Requests :
               \/ req'[r] = req[r] /\ req[r].at \notin Steps
               \/ req'[r].at = "dead" /\ req'[r].answer = req[r].answer /\ req[r].at \in Steps
      <3>1. \A r \in Requests : req[r] \in Request
        BY <1>1
      <3> QED
        BY <1>8, <3>1 DEF Outage, Request
    <2>2. Unanswered'
      BY <1>2, <2>1 DEF Unanswered, Steps
    <2>3. Passing' \subseteq Passing
      BY <2>1 DEF Passing, Passed
    <2>4. IsFiniteSet(Passing')
      BY <1>2, <2>3, FS_Subset
    <2> QED
      BY <2>1, <2>2, <2>4 DEF SpentOnPassing
  <1> QED
    BY <1>3, <1>4, <1>5, <1>6, <1>7, <1>8 DEF Next

LEMMA InitPasses == Init => SpentOnPassing
  <1> SUFFICES ASSUME Init PROVE SpentOnPassing
    OBVIOUS
  <1>1. Unanswered /\ Passing = {} /\ process = "down"
    BY DEF Init, NotMade, Unanswered, Passing, Passed
  <1> QED
    BY <1>1, FS_EmptySet DEF SpentOnPassing

\* However many requests are made, by whomever, and however often the process is
\* restarted, the CA is asked no more than the global limit allows, and no token of
\* that limit is spent on a request that an earlier check refuses.
THEOREM CADrawBounded == Spec => []CADrawIsBounded
  <1>1. ASSUME IInv, DrawAccounted, SpentOnPassing PROVE CADrawIsBounded
    <2>1. IsFiniteSet(Drawn) /\ asked \subseteq Drawn
      BY <1>1 DEF DrawAccounted, Drawn
    <2>2. Cardinality(asked) <= Cardinality(Drawn) /\ Cardinality(asked) \in Nat
          /\ Cardinality(Drawn) \in Nat
      BY <2>1, FS_Subset, FS_CardinalityType
    <2>3. Cardinality(asked) <= GlobalBurst * (outages + 1) + refills
      BY <1>1, <2>2, GivenGrows DEF IInv, DrawAccounted
    <2>4. process # "down" => GlobalBurst - globalTokens <= Cardinality({r \in Requests : Passed(r)})
      BY <1>1 DEF SpentOnPassing, Passing
    <2> QED
      BY <2>3, <2>4 DEF CADrawIsBounded
  <1>2. IInv /\ IInv' /\ DrawAccounted /\ [Next]_vars => DrawAccounted'
    BY NextDraws
  <1>3. IInv /\ IInv' /\ SpentOnPassing /\ [Next]_vars => SpentOnPassing'
    BY NextPasses
  <1>4. IInv /\ DrawAccounted /\ SpentOnPassing => CADrawIsBounded
    BY <1>1
  <1> QED
    BY <1>2, <1>3, <1>4, InitDraw, InitPasses, Invariance, PTL DEF Spec
=============================================================================
