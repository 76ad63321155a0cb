SPECIFICATION MCSpec
CONSTANTS
    Txs = {1, 2}
    Settlers = {1}
    Self = "a"
    None = None
    MAX_PUSH_ATTEMPTS = 2
    MaxVerifyAttempts = 2
    BlockSafetyMargin = 1
    MaxBlockRange = 1
    LimitPerPass = 2
    FutureBlockBuffer = 3
    MaxSettlements = 1
    MaxHead = 4
    MaxFaults = 1
    MaxLosses = 1
    MaxReports = 2
    MaxReorgs = 1
    EventOf <- MCEventOf
    Reports <- MCReports
INVARIANTS
    IndexIsSound
PROPERTIES
    OwnSettlementsVerified
CHECK_DEADLOCK FALSE
