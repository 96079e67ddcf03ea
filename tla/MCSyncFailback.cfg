SPECIFICATION FairSpec
CONSTANTS
    Domains <- MCDomains
    Names <- MCDomains
    Normalize <- MCNormalize
    ZoneSuffixed <- MCZoneSuffixed
    Addresses4 <- MCAddresses4
    Addresses6 <- MCAddresses6
    ParseIP <- MCParseIP
    NoAddress = "none"
    DefaultTTL = 300
    Zone = "gslb."
    Secret = "shared"
    Versions <- FailoverVersions
    Content <- FailoverContent
    Successors <- AnySuccessor
    Notice <- FailoverNotice
    Handlers = {h1}
    NoticeFaults <- NoFaults
    MaxChanges = 2
    MaxFaults = 0
    MaxRestarts = 0
PROPERTIES
    NewAnswersServed
