----------------------------- MODULE MCBackend -----------------------------
(***************************************************************************)
(* A leaf for the account that was asked for, one for the broker's own     *)
(* account, one for the right account that signed itself, and the CA of    *)
(* the first two.  Names of up to four pieces, one of which is the name of *)
(* a field of regInfo; agents with every kind of key, one without the      *)
(* policy and one whose key is another's.                                  *)
(***************************************************************************)
EXTENDS Backend, TLC

CONSTANTS leaf, stray, own, ca, s1, s2, agent, ecAgent, edAgent, plain, kr, ke, ko

MCSignedBy == leaf :> {ca} @@ stray :> {ca} @@ own :> {own} @@ ca :> {}
MCSIDOf == leaf :> s1 @@ stray :> s2 @@ own :> s1 @@ ca :> NoSID
MCLeafFor == s1 :> leaf @@ s2 :> stray

Beside(those) == [pkcs7 |-> TRUE, certs |-> those]
MCChains ==
    [c \in {leaf, stray} |->
       {<<Beside(<<c, ca>>)>>, <<Beside(<<ca, c>>)>>, <<Beside(<<c>>), Beside(<<ca>>)>>}]

MCKeyOf == agent :> kr @@ ecAgent :> ke @@ edAgent :> ko @@ plain :> kr
MCKeyType == kr :> "rsa" @@ ke :> "ecdsa" @@ ko :> "other"

Pieces == Words \cup {Separator, Escape, "&", "="}
MCNames == BoundedSeq(Pieces, 4)

Account == <<"x", Separator, "x">>
Other == <<"x", Separator, "RequesterName">>
Template == <<"x">>
MCDirectory == Account :> s1 @@ Other :> s2

Signer(c, k, between) == [certificate |-> c, key |-> k, chain |-> between]
Usual == Signer(agent, kr, <<plain>>)

UsualConfig == [reachable |-> TRUE, template |-> Template, agent |-> Usual]
OddConfigs ==
    [reachable : {TRUE}, template : MCNames, agent : {Usual}]
    \cup [reachable : BOOLEAN, template : {Template},
          agent : {Usual, Signer(ecAgent, ke, <<>>), Signer(edAgent, ko, <<>>),
                   Signer(plain, kr, <<>>), Signer(agent, ke, <<>>)}]

UsualRequest == [csr |-> "proven", sid |-> s1, account |-> Account]
OddRequests ==
    [csr : {"proven"}, sid : {s1}, account : MCNames]
    \cup [csr : {"proven", "unproven", "none"}, sid : SIDs, account : {Account, Other, NoName}]

MCInputs ==
    [config : OddConfigs, request : {UsualRequest}]
    \cup [config : {UsualConfig}, request : OddRequests]

MCAnsweredAnyhow == {[config |-> UsualConfig, request |-> UsualRequest]}
=============================================================================
