SPECIFICATION Spec
CONSTANTS
    Domains <- MCDomains
    Names <- MCNames
    Normalize <- MCNormalize
    ZoneSuffixed <- MCZoneSuffixed
    ZoneDomains <- MCZoneDomains
    Fallthrough <- MCFallthrough
    Addresses4 <- MCAddresses4
    Addresses6 <- MCAddresses6
    ParseIP <- MCParseIP
    NoAddress = "none"
    DefaultTTL = 300
    Snapshots <- MCSnapshots
    Batches <- MCBatches
    DeleteLists <- MCDeleteLists
    Resolvers = {r1}
    Monitors = {}
    MaxWrites = 3
INVARIANTS
    AtomicAnswer
