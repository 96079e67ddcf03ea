SPECIFICATION Spec
CONSTANTS
    Domains <- MCDomains
    Names <- MCNames
    Normalize <- MCNormalize
    ZoneSuffixed <- MCZoneSuffixed
    Addresses4 <- MCAddresses4
    Addresses6 <- MCAddresses6
    ParseIP <- MCParseIP
    NoAddress = "none"
    DefaultTTL = 300
    Snapshots <- MCSnapshots
    Batches <- MCBatches
    DeleteLists <- MCDeleteLists
    Syncer = syncer
    Handlers = {h1, h2}
    NoOne = noone
INVARIANTS
    TypeOK
    NoHollowDomain
    GaugeExact
PROPERTIES
    ImplementsRecordStore
