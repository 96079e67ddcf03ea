SPECIFICATION Spec
CONSTANTS
    DefaultTTL = 3
    MaxTTL = 9
    DefaultWebhookAddr = 8
    MinSecretLength = 8
    DefaultSyncInterval = 4
    MinSyncInterval = 3
    MaxSyncInterval = 4
    DefaultTimeout = 2
    MinTimeout = 1
    Blocks <- MCBlocks
INVARIANTS
    DegradedWhenStale
