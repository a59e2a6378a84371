CONSTANTS
    c1 = c1
    c2 = c2
    v1 = v1
    v2 = v2
    a1 = a1
    a2 = a2
    Requests = {r1, r2}
    Callers = {c1, c2}
    NoCaller = NoCaller
    Snapshots = {v1, v2}
    NoVersion = NoVersion
    Accounts = {a1, a2}
    NoAccount = NoAccount
    Registry <- MCRegistry
    Named <- MCNamed
    CallerBurst = 1
    GlobalBurst = 1
    MaxRefills = 1
    MaxOutages = 1
SPECIFICATION FairSpec
INVARIANTS TypeOK DeliveredIsRecorded DeliveredIsMapped RecordedExists AskedIsMapped CADrawIsBounded
PROPERTIES KeepsPromise EveryRequestSettles
CHECK_DEADLOCK FALSE
