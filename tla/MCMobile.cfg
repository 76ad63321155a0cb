SPECIFICATION MCSpec
CONSTANTS
    MaxAttempts = 4
    Kinds = {"order", "market", "cancel"}
    EventMissing = {"deposit", "cancel"}
    MaxFaults = 4
    Claims = {a, b, c}
    Legacy = {a}
    MAX_CLAIM_BATCH_SIZE = 2
    MaxOps = 2
    MaxClosings = 2
INVARIANTS
    WalletIsSound
    StoreIsSound
PROPERTIES
    ChangeIsResolved
CHECK_DEADLOCK FALSE
