SPECIFICATION FairSpec
CONSTANTS
    Domains <- MCDomains
    Names <- MCDomains
    Normalize <- MCNormalize
    ZoneSuffixed <- MCZoneSuffixed
    Addresses4 <- MCAddresses4
    Addresses6 <- MCAddresses6
    ParseIP <- MCParseIP
    NoAddress = "none"
    DefaultTTL = 300
    Zone = "gslb."
    Secret = "shared"
    Versions <- MCVersions
    Content <- MCContent
    Successors <- AnySuccessor
    Notice <- MCNotice
    Handlers = {h1}
    NoticeFaults <- LostOnly
    MaxChanges = 2
    MaxFaults = 0
    MaxRestarts = 0
PROPERTIES
    EventuallyConsistent
