------------------------------ MODULE Response ------------------------------
(***************************************************************************)
(* What the adcs backend makes of an answer of CES: submit reads it,       *)
(* parseRSTRC finds the leaf and collects the chain from the PKCS#7 tokens *)
(* beside it, and verify decides whether that is the credential that was   *)
(* asked for and puts its issuer first.  Backend has what comes before.    *)
(*                                                                         *)
(* The answer comes from outside and is anything: too long, no SOAP, a     *)
(* fault, some other action, several responses, tokens of other types,     *)
(* certificates that do not parse, in any number and order.                *)
(***************************************************************************)
EXTENDS Integers, Sequences, FiniteSets, SequencesExt

CONSTANTS
    Certs,       \* certificates
    Garbage,     \* what does not parse as a certificate
    SignedBy,    \* SignedBy[c]: those with the name and the key c was signed by
    SIDs,
    NoSID,       \* no SID extension, or one that does not parse
    SIDOf,       \* SIDOf[c]: the SID of c's extension
    MaxTokens,   \* bound on the tokens beside the leaf
    MaxCerts     \* bound on the certificates of a token

ASSUME ResponseAssumption ==
    /\ Garbage \notin Certs
    /\ NoSID \notin SIDs
    /\ SignedBy \in [Certs -> SUBSET Certs]
    /\ SIDOf \in [Certs -> SIDs \cup {NoSID}]
    /\ MaxTokens \in Nat
    /\ MaxCerts \in Nat

\* A token beside the leaf: its type, and the certificates of its SignedData.
Token == [pkcs7 : BOOLEAN, certs : BoundedSeq(Certs \cup {Garbage}, MaxCerts)]

\* What is looked at before the tokens: whether the body is shorter than the
\* bound, is XML, holds no fault, has the action of an RSTRC, and how many
\* responses there are.  The HTTP status decides nothing but a message.
Envelope ==
    [fits : BOOLEAN, xml : BOOLEAN, fault : BOOLEAN, rstrc : BOOLEAN, responses : 0 .. 2]
Ordinary == [fits |-> TRUE, xml |-> TRUE, fault |-> FALSE, rstrc |-> TRUE, responses |-> 1]

VARIABLES
    asked,      \* the issuer.Request: the CSR, the account's SID and its name
    envelope,   \* the envelope of the answer
    issued,     \* the token in RequestedSecurityToken: its type and certificate
    tokens,     \* the tokens beside it that chainFrom has still to look at
    certs,      \* the certificates of the one it is at that it has still to look at
    sent,       \* all of them, as they came
    at,         \* where the backend is, or how it ended
    chain       \* Credential.Chain as it is so far

answer == <<envelope, issued, sent>>

\* What there is of an answer before it came.
NoAnswer ==
    /\ envelope = Ordinary
    /\ issued = [x509 |-> FALSE, cert |-> Garbage]
    /\ sent = <<>>
    /\ tokens = <<>>
    /\ certs = <<>>
    /\ chain = <<>>

\* client.Do returned and the body is read.
Arrives(e, i, s) ==
    /\ envelope' = e
    /\ issued' = i
    /\ sent' = s
    /\ tokens' = s
    /\ at' = "parse"
    /\ UNCHANGED <<asked, certs, chain>>
-----------------------------------------------------------------------------
Recognised == envelope = Ordinary

\* The bound of submit, and parseRSTRC up to the chain: the envelope, and then
\* the leaf.
Parse ==
    /\ at = "parse"
    /\ at' = IF Recognised /\ issued.x509 /\ issued.cert # Garbage THEN "chain" ELSE "refused"
    /\ UNCHANGED <<asked, answer, tokens, certs, chain>>

\* A certificate that does not parse is left where it is.
ParsesAnyway(token) == TRUE

\* certsFromPKCS7: one certificate that does not parse refuses the token.
Parses(token) == Garbage \notin ToSet(token.certs)

\* One turn of chainFrom's loop: a token of another type is passed over.
NextToken ==
    /\ at = "chain"
    /\ certs = <<>>
    /\ tokens # <<>>
    /\ tokens' = Tail(tokens)
    /\ LET token == Head(tokens)
       IN  \/ /\ ~token.pkcs7
              /\ UNCHANGED <<at, certs>>
           \/ /\ token.pkcs7
              /\ Parses(token)
              /\ certs' = token.certs
              /\ UNCHANGED at
           \/ /\ token.pkcs7
              /\ ~Parses(token)
              /\ at' = "refused"
              /\ UNCHANGED certs
    /\ UNCHANGED <<asked, answer, chain>>

\* One turn of the loop in it: the leaf is no part of its chain.
NextCertificate ==
    /\ at = "chain"
    /\ certs # <<>>
    /\ certs' = Tail(certs)
    /\ chain' = IF Head(certs) = issued.cert THEN chain ELSE Append(chain, Head(certs))
    /\ UNCHANGED <<asked, answer, tokens, at>>

\* Whatever account the certificate is for.
NamesAnyone == TRUE

NamesTarget == SIDOf[issued.cert] = asked.sid

\* Where the chain holds an issuer of the leaf: by signature, not by name.
IssuerAt == {i \in DOMAIN chain : chain[i] \in SignedBy[issued.cert]}

\* The chain as it came.
Unordered(i) == chain

\* The certificate at i and the first one change places.
IssuerToFront(i) == [chain EXCEPT ![1] = chain[i], ![i] = chain[1]]

\* verify: the SID, then the first issuer in the chain.
Verify ==
    /\ at = "chain"
    /\ certs = <<>>
    /\ tokens = <<>>
    /\ \/ /\ NamesTarget
          /\ IssuerAt # {}
          /\ chain' = IssuerToFront(CHOOSE i \in IssuerAt : \A j \in IssuerAt : i <= j)
          /\ at' = "returned"
       \/ /\ ~NamesTarget \/ IssuerAt = {}
          /\ at' = "refused"
          /\ UNCHANGED chain
    /\ UNCHANGED <<asked, answer, tokens, certs>>

Receiving == Parse \/ NextToken \/ NextCertificate \/ Verify
=============================================================================
