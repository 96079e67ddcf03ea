SPECIFICATION FairSpec
CONSTANTS
    Domains <- MCDomains
    Names <- MCDomains
    Normalize <- MCNormalize
    ZoneSuffixed <- MCZoneSuffixed
    Addresses4 <- MCAddresses4
    Addresses6 <- MCAddresses6
    ParseIP <- MCParseIP
    NoAddress = "none"
    DefaultTTL = 300
    Zone = "gslb."
    Secret = "shared"
    Versions <- MCVersions
    Content <- MCContent
    Successors <- AnySuccessor
    Notice <- MCNotice
    Handlers = {}
    NoticeFaults <- NoFaults
    MaxChanges = 0
    MaxFaults = 1
    MaxRestarts = 1
PROPERTIES
    NeverFailsClosed
