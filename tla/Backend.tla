------------------------------ MODULE Backend ------------------------------
(***************************************************************************)
(* The adcs backend from its configuration to the credential: New, then    *)
(* Issue, which builds a request (CMC), posts it, and makes what it can of *)
(* the answer (Response).  Two requests share nothing but the immutable    *)
(* Issuer, so one is enough.                                               *)
(*                                                                         *)
(* The CA is outside.  It is honest, does what the request says and        *)
(* returns the certificate with its chain in any of a few orders; or it,   *)
(* or something on the way, answers anything at all.                       *)
(***************************************************************************)
EXTENDS CMC, Response

CONSTANTS
    Inputs,         \* what New and then Issue may be called with
    AnsweredAnyhow, \* bound: the inputs whose request is answered in every way
    Nothing,        \* nothing has been posted
    Directory,      \* the SID of each account name that exists
    OwnSID,         \* the SID of the broker's own account
    LeafFor,        \* LeafFor[s]: the certificate the CA issues for s
    Chains          \* the tokens an honest CA may send beside a leaf

\* Config: whether CESURL is an https URL with a host and there is a client, the
\* template, and the agent's credential.
Config == [reachable : BOOLEAN, template : Name, agent : Agent]
Request == [csr : {"proven", "unproven", "none"}, sid : SIDs, account : Name]

\* What an honest CA sends beside a leaf: certificates, and one that signed it.
WholeChain(cert, beside) ==
    /\ beside \in BoundedSeq(Token, MaxTokens)
    /\ \A i \in DOMAIN beside : beside[i].pkcs7 => Parses(beside[i])
    /\ \E i \in DOMAIN beside :
         beside[i].pkcs7 /\ (ToSet(beside[i].certs) \cap SignedBy[cert]) \ {cert} # {}

ASSUME BackendAssumption ==
    /\ \A input \in Inputs : input.config \in Config /\ input.request \in Request
    /\ Nothing \notin RST
    /\ \A n \in DOMAIN Directory : n \in Name /\ Directory[n] \in SIDs
    /\ OwnSID \in SIDs
    /\ LeafFor \in [SIDs -> Certs]
    /\ \A s \in SIDs : SIDOf[LeafFor[s]] = s
    /\ \A s \in SIDs : \A beside \in Chains[LeafFor[s]] : WholeChain(LeafFor[s], beside)

VARIABLES
    config,   \* the Issuer's configuration
    posted,   \* the RST in CES's hands
    honest    \* whether the answer is an honest CA's to that RST

vars == <<config, posted, honest, asked, envelope, issued, tokens, certs, sent, at, chain>>

Init ==
    /\ \E input \in Inputs : config = input.config /\ asked = input.request
    /\ at = "configured"
    /\ posted = Nothing
    /\ honest = FALSE
    /\ NoAnswer

\* New takes any template for granted.
AcceptsAnyTemplate(c) == c.reachable /\ Validate(c.agent)

Accepts(c) ==
    /\ c.reachable
    /\ validateTemplateName(c.template)
    /\ Validate(c.agent)

New ==
    /\ at = "configured"
    /\ at' = IF Accepts(config) THEN "ready" ELSE "unstarted"
    /\ UNCHANGED <<config, posted, honest, asked, answer, tokens, certs, chain>>

\* issuer.Request.Validate, with the SPIFFE ID and the SID left to the mapping.
Valid(request) ==
    /\ request.csr = "proven"
    /\ request.account # NoName => ValidateAccountName(request.account)

CMCFor(request) ==
    IF Valid(request) /\ request.account # NoName
    THEN buildCMC(request.csr, config.template, request.account, config.agent)
    ELSE Refused

\* Issue, up to the POST.
Issue ==
    /\ at = "ready"
    /\ \/ /\ CMCFor(asked) # Refused
          /\ posted' = buildRSTForCMC(CMCFor(asked))
          /\ at' = "posted"
       \/ /\ CMCFor(asked) = Refused
          /\ at' = "refused"
          /\ UNCHANGED posted
    /\ UNCHANGED <<config, honest, asked, answer, tokens, certs, chain>>

\* The agent's key does not sign, or there is no random number for the message's
\* ID, although nothing is wrong with the request.
IssueFails ==
    /\ at = "ready"
    /\ CMCFor(asked) # Refused
    /\ at' = "unavailable"
    /\ UNCHANGED <<config, posted, honest, asked, answer, tokens, certs, chain>>

\* CES is not reached, the answer does not come in time, or not to its end.
SubmitFails ==
    /\ at = "posted"
    /\ at' = "unavailable"
    /\ UNCHANGED <<config, posted, honest, asked, answer, tokens, certs, chain>>

\* The account an honest CA issues for: the one that is named, if there is one
\* and only one, and the broker's own if none is named that it would act on.
Resolved(rst) ==
    LET names == CAReads(rst).accounts
    IN  IF CAReads(rst) = Refused THEN NoSID
        ELSE CASE names = {} -> OwnSID
               [] Cardinality(names) = 1 /\ names \subseteq DOMAIN Directory
                    -> Directory[CHOOSE n \in names : TRUE]
               [] OTHER -> NoSID

HonestCA ==
    /\ at = "posted"
    /\ honest' = TRUE
    /\ LET sid == Resolved(posted)
       IN  \/ /\ sid # NoSID
              /\ \E beside \in Chains[LeafFor[sid]] :
                   Arrives(Ordinary, [x509 |-> TRUE, cert |-> LeafFor[sid]], beside)
           \/ /\ sid = NoSID
              /\ Arrives([Ordinary EXCEPT !.fault = TRUE], issued, sent)
    /\ UNCHANGED <<config, posted>>

AnyAnswer ==
    /\ at = "posted"
    /\ [config |-> config, request |-> asked] \in AnsweredAnyhow
    /\ \E e \in Envelope, i \in [x509 : BOOLEAN, cert : Certs \cup {Garbage}] :
         \E s \in IF e = Ordinary THEN BoundedSeq(Token, MaxTokens) ELSE {<<>>} :
           Arrives(e, i, s)
    /\ UNCHANGED <<config, posted, honest>>

Next ==
    \/ New \/ Issue \/ IssueFails \/ SubmitFails \/ HonestCA \/ AnyAnswer
    \/ Receiving /\ UNCHANGED <<config, posted, honest>>

Spec == Init /\ [][Next]_vars
-----------------------------------------------------------------------------
\* A chain holds certificates, never what did not parse and never the leaf.
TypeOK ==
    /\ config \in Config
    /\ asked \in Request
    /\ envelope \in Envelope
    /\ issued \in [x509 : BOOLEAN, cert : Certs \cup {Garbage}]
    /\ tokens \in Seq(Token) /\ IsSuffix(tokens, sent)
    /\ certs \in Seq(Certs)
    /\ at \in {"configured", "unstarted", "ready", "posted", "unavailable",
               "parse", "chain", "returned", "refused"}
    /\ chain \in Seq(Certs \ {issued.cert})
    /\ honest \in BOOLEAN

\* The CA is told what the mapping says and what the configuration says, and
\* nothing else: a request that is posted verifies as an enrollment agent's, and
\* the CA's reader finds in it this CSR, this template and this account, however
\* the names are made up.
RequestSaysWhatWasAsked ==
    posted # Nothing =>
        CAReads(posted) = [csrs |-> {asked.csr}, templates |-> {config.template},
                           accounts |-> {asked.account}]

\* A backend that started can issue: with a configuration that New accepted,
\* Issue refuses before the CA is asked only what the request itself is to blame
\* for, or else every request, and that only because New does not look at the
\* algorithm of the agent's key.
StartedCanIssue ==
    at = "refused" /\ posted = Nothing =>
        \/ asked.csr # "proven"
        \/ ~ValidateAccountName(asked.account)
        \/ KeyType[config.agent.key] = "other"

\* From end to end: what an honest CA answers is returned if the SID that the
\* mapping gives is that of the account it names, and refused if it is not.
HonestCAIsAccepted ==
    LET consistent == /\ asked.account \in DOMAIN Directory
                      /\ asked.sid = Directory[asked.account]
    IN  honest => /\ at = "returned" => consistent
                  /\ at = "refused" => ~consistent

\* Where the certificates are that the CA sent in a PKCS#7.
Places ==
    {p \in (1 .. MaxTokens) \X (1 .. MaxCerts) :
       /\ p[1] \in DOMAIN sent /\ sent[p[1]].pkcs7
       /\ p[2] \in DOMAIN sent[p[1]].certs}

Placed(c) == {p \in Places : sent[p[1]].certs[p[2]] = c}

\* The certificates beside the leaf.
SentBeside == {c \in Certs \cup {Garbage} : c # issued.cert /\ Placed(c) # {}}

\* A returned credential can be presented.  The first of its chain is the CA that
\* signed the leaf, the one the KDC looks for in NTAuthCertificates, wherever in
\* the PKCS#7 it came; and the search for it moved certificates and lost or
\* repeated none, however many tokens they were spread over.
ChainIsPresentable ==
    at = "returned" =>
        /\ chain # <<>> /\ chain[1] \in SignedBy[issued.cert]
        /\ \A c \in Certs :
             Cardinality({i \in DOMAIN chain : chain[i] = c}) =
               IF c = issued.cert THEN 0 ELSE Cardinality(Placed(c))

\* An answer that holds what was asked for: one response with a certificate for
\* the account, and all certificates beside it parse and one signed it.
Usable ==
    /\ envelope = Ordinary
    /\ issued.x509
    /\ issued.cert \in Certs
    /\ SIDOf[issued.cert] = asked.sid
    /\ Garbage \notin SentBeside
    /\ SentBeside \cap SignedBy[issued.cert] # {}

\* The backend fails closed and does not fail otherwise: of an answer that came
\* whole it returns a credential exactly when the answer is usable.
ReturnsExactlyUsable ==
    /\ at = "returned" => Usable
    /\ at = "refused" /\ posted # Nothing => ~Usable
=============================================================================
