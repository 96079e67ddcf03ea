SPECIFICATION FairSpec
CONSTANTS
    Domains <- MCDomains
    Names <- MCDomains
    Normalize <- MCNormalize
    ZoneSuffixed <- MCZoneSuffixed
    Addresses4 <- MCAddresses4
    Addresses6 <- MCAddresses6
    ParseIP <- MCParseIP
    NoAddress = "none"
    DefaultTTL = 300
    Zone = "gslb."
    Secret = "shared"
    Versions <- FreshVersions
    Content <- FreshContent
    Successors <- FreshSuccessor
    Notice <- FreshNotice
    Handlers = {h1}
    NoticeFaults <- NoFaults
    MaxChanges = 4
    MaxFaults = 2
    MaxRestarts = 0
INVARIANTS
    RecordsHaveOneSource

    
