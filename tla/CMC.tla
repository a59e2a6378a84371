--------------------------------- MODULE CMC ---------------------------------
(***************************************************************************)
(* The request of the adcs backend: a CMC that asks for a certificate for  *)
(* the mapped account, signed as the enrollment agent, in an RST for CES.  *)
(*                                                                         *)
(* DER is abstracted to records of what an element holds; only the tag of  *)
(* the signed attributes is kept, since they are signed under one and      *)
(* carried under another.  Digests and signatures are terms: they are      *)
(* equal when, and only when, what they are made from is.                  *)
(*                                                                         *)
(* CAReads is the other side: what an ADCS that verifies the CMS, and      *)
(* splits the regInfo text as the captured requests show, takes from it.   *)
(***************************************************************************)
EXTENDS AccountName

CONSTANTS
    Refused,       \* what an operation that returns an error returns, and nothing else
    AgentCerts,    \* certificates an enrollment agent may be given
    Keys,          \* signing keys
    KeyOf,         \* KeyOf[c]: the key that c certifies
    KeyType,       \* KeyType[k]: "rsa", "ecdsa" or "other"
    WithPolicy     \* those of AgentCerts with the Certificate Request Agent policy

\* Agent: its certificate, its key and the intermediates; main loads all three.
Agent == [certificate : AgentCerts, key : Keys, chain : Seq(AgentCerts)]

Validate(agent) ==
    /\ KeyOf[agent.certificate] = agent.key
    /\ agent.certificate \in WithPolicy

bodyPartRequest == 1
bodyPartAddExtensions == 2
bodyPartRegInfo == 3

\* What the messages are made of.
RegInfo == Seq(Words \cup {Separator, Escape, "&", "=", "CertificateTemplate", "RequesterName"})
PKIData ==
    [controls : SUBSET [part : Nat, type : {"addExtensions", "regInfo"}, for : Nat,
                        value : RegInfo],
     requests : SUBSET [part : Nat, csr : {"proven", "unproven"}]]
Attributes == [contentType : {"id-cct-PKIData"}, messageDigest : [sha256 : PKIData]]
Tagged == [tag : {"SET OF", "[0]"}, members : Attributes]
SignedData ==
    [contentType : {"id-cct-PKIData"}, content : PKIData, certs : Seq(AgentCerts),
     signer : AgentCerts, attrs : Tagged, algorithm : {"rsaEncryption", "ecdsaWithSHA256"},
     signature : [by : Keys, over : [sha256 : Tagged]]]
RST == [valueType : {"#PKCS7"}, token : SignedData, context : {{}}]

\* What a CA makes of one.
Reading == [csrs : SUBSET {"proven", "unproven"}, templates : SUBSET RegInfo,
            accounts : SUBSET RegInfo]

ASSUME CMCAssumption ==
    /\ KeyOf \in [AgentCerts -> Keys]
    /\ KeyType \in [Keys -> {"rsa", "ecdsa", "other"}]
    /\ WithPolicy \subseteq AgentCerts
    /\ Refused \notin SignedData \cup Reading \cup {"rsaEncryption", "ecdsaWithSHA256"}

-----------------------------------------------------------------------------
\* The separator goes out as it is.
EscapedNot(name) == name

\* strings.ReplaceAll of the separator, and of nothing else.
Escaped(name) == [i \in DOMAIN name |-> IF name[i] = Separator THEN Escape ELSE name[i]]

regInfoString(template, requester) ==
    <<"CertificateTemplate", "=">> \o template
    \o <<"&", "RequesterName", "=">> \o Escaped(requester) \o <<"&">>

\* The controls, then the requests.
buildPKIData(csr, template, requester) ==
    [controls |->
       {[part |-> bodyPartAddExtensions, type |-> "addExtensions",
         for |-> bodyPartRequest, value |-> template],
        [part |-> bodyPartRegInfo, type |-> "regInfo",
         for |-> bodyPartRegInfo, value |-> regInfoString(template, requester)]},
     requests |-> {[part |-> bodyPartRequest, csr |-> csr]}]

Digest(content) == [sha256 |-> content]
Sign(key, digest) == [by |-> key, over |-> digest]

SetOf(members) == [tag |-> "SET OF", members |-> members]
Implicit(members) == [tag |-> "[0]", members |-> members]

\* What is signed is what is carried.
SignedAsCarried(attrs) == Implicit(attrs)

SignedAs(attrs) == SetOf(attrs)

signatureAlgorithm(key) ==
    CASE KeyType[key] = "rsa" -> "rsaEncryption"
      [] KeyType[key] = "ecdsa" -> "ecdsaWithSHA256"
      [] OTHER -> Refused

signPKIData(pkiData, agent) ==
    LET attrs == [contentType |-> "id-cct-PKIData", messageDigest |-> Digest(pkiData)]
    IN  IF signatureAlgorithm(agent.key) = Refused THEN Refused
        ELSE [contentType |-> "id-cct-PKIData",
              content |-> pkiData,
              certs |-> <<agent.certificate>> \o agent.chain,
              signer |-> agent.certificate,
              attrs |-> Implicit(attrs),
              algorithm |-> signatureAlgorithm(agent.key),
              signature |-> Sign(agent.key, Digest(SignedAs(attrs)))]

\* The key's own signing may fail, which Backend has as a step of its own.
buildCMC(csr, template, requester, agent) ==
    IF /\ csr # "none"
       /\ Validate(agent)
       /\ validateTemplateName(template)
       /\ validateRequesterName(requester)
    THEN signPKIData(buildPKIData(csr, template, requester), agent)
    ELSE Refused

\* The template is named in the CMC and not beside it.
buildRSTForCMC(cmc) == [valueType |-> "#PKCS7", token |-> cmc, context |-> {}]
-----------------------------------------------------------------------------
\* A verifier tags the attributes anew and checks the key of the certificate
\* that the signer names, among those that came along.
Verified(cmc) ==
    LET attrs == cmc.attrs.members
    IN  /\ \E i \in DOMAIN cmc.certs : cmc.certs[i] = cmc.signer
        /\ cmc.signature = Sign(KeyOf[cmc.signer], Digest(SetOf(attrs)))
        /\ cmc.algorithm = signatureAlgorithm(KeyOf[cmc.signer])
        /\ attrs.contentType = cmc.contentType
        /\ attrs.messageDigest = Digest(cmc.content)

\* The values that the fields of a regInfo text give a name.
ValuesOf(textOf, name) ==
    {SubSeq(textOf, ends[1] + 2, ends[2]) : ends \in
       {e \in (1 .. Len(textOf)) \X (0 .. Len(textOf)) :
          /\ e[1] < e[2]
          /\ e[1] = 1 \/ textOf[e[1] - 1] = "&"
          /\ e[2] = Len(textOf) \/ textOf[e[2] + 1] = "&"
          /\ \A i \in e[1] .. e[2] : textOf[i] # "&"
          /\ textOf[e[1]] = name
          /\ textOf[e[1] + 1] = "="}}

\* A separator travels as the escape; one that does not is part of no name.
Decoded(value) == [i \in DOMAIN value |-> IF value[i] = Escape THEN Separator ELSE value[i]]

\* What the CA takes from a request: nothing unless it verifies, and else the
\* keys it is for, the templates it names and the accounts it names, which count
\* only over an agent's signature.
CAReads(rst) ==
    LET cmc == rst.token
        requests == cmc.content.requests
        Of(type) == {c \in cmc.content.controls : c.type = type}
    IN  IF ~Verified(cmc) THEN Refused
        ELSE [csrs |-> {r.csr : r \in requests},
              templates |->
                 {c.value : c \in {c \in Of("addExtensions") : \E r \in requests : r.part = c.for}}
                 \cup UNION {ValuesOf(c.value, "CertificateTemplate") : c \in Of("regInfo")},
              accounts |->
                 IF cmc.signer \notin WithPolicy THEN {}
                 ELSE {Decoded(v) : v \in
                         {v \in UNION {ValuesOf(c.value, "RequesterName") : c \in Of("regInfo")} :
                            \A i \in DOMAIN v : v[i] # Separator}}]
=============================================================================
