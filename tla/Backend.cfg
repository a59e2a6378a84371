CONSTANTS
    leaf = leaf
    stray = stray
    own = own
    ca = ca
    s1 = s1
    s2 = s2
    agent = agent
    plain = plain
    ecAgent = ecAgent
    edAgent = edAgent
    kr = kr
    ke = ke
    ko = ko
    Words = {"x", "RequesterName"}
    MaxAccountNameLen = 4
    Refused = Refused
    AgentCerts = {agent, ecAgent, edAgent, plain}
    Keys = {kr, ke, ko}
    KeyOf <- MCKeyOf
    KeyType <- MCKeyType
    WithPolicy = {agent, ecAgent, edAgent}
    Certs = {leaf, stray, own, ca}
    Garbage = Garbage
    SignedBy <- MCSignedBy
    SIDs = {s1, s2}
    NoSID = NoSID
    SIDOf <- MCSIDOf
    MaxTokens = 2
    MaxCerts = 2
    Inputs <- MCInputs
    AnsweredAnyhow <- MCAnsweredAnyhow
    Nothing = Nothing
    Directory <- MCDirectory
    OwnSID = s2
    LeafFor <- MCLeafFor
    Chains <- MCChains
SPECIFICATION Spec
INVARIANTS TypeOK RequestSaysWhatWasAsked StartedCanIssue HonestCAIsAccepted ChainIsPresentable ReturnsExactlyUsable
CHECK_DEADLOCK FALSE
