SPECIFICATION FairSpec
CONSTANTS
    Domains <- MCDomains
    Names <- MCDomains
    Normalize <- MCNormalize
    ZoneSuffixed <- MCZoneSuffixed
    Addresses4 <- MCAddresses4
    Addresses6 <- MCAddresses6
    ParseIP <- MCParseIP
    NoAddress = "none"
    DefaultTTL = 300
    Zone = "gslb."
    Secret = "shared"
    Versions <- PairVersions
    Content <- PairContent
    Successors <- AnySuccessor
    Notice <- PairNotice
    Handlers = {h1, h2}
    NoticeFaults <- FaultKinds
    MaxChanges = 2
    MaxFaults = 1
    MaxRestarts = 1
INVARIANTS
    TypeOK
    SinceIsCacheHash
    SuccessMeansCurrent
PROPERTIES
    ImplementsZoneMirror
    HashCatchesUp
