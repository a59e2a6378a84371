CONSTANTS
    Byte = 3
    AuthorityLen = 3
    SubLen = 2
    MaxSubs = 2
    Refused = Refused
    Values = {0, 1, 2, 5, 8, 9, 26, 27}
    MaxBytes = 10
    MaxParts = 4
    Words = {"x", "y"}
    MaxAccountNameLen = 3
    Ids <- MCIds
    Texts <- MCTexts
    Names <- MCNames
    UsualIds <- MCUsualIds
    UsualText <- MCUsualText
    NoMapping = NoMapping
    MaxItems = 3
    MaxEntries = 2
SPECIFICATION SnapshotSpec
INVARIANTS TypeOK CodecIsBijection MixedEndian VerifyReadsMapping EveryEntryIsInForce LookupMissesNobody LookupNeedsNoChecks
CHECK_DEADLOCK FALSE
