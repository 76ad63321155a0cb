SPECIFICATION MCSpec
CONSTANTS
    Ids = {a, b}
    onlyNote = a
    WaitsForLoad = TRUE
    MaxOps = 2
    MaxVaultSwitches = 3
    MaxFiles = 3
    MaxFailures = 1
    MaxCrashes = 1
    Accounts = {x, y}
    onlyAccount = x
    MaxAttempts = 3
    MaxHead = 4
    MinConfirmations = 2
    MaxReorgDepth = 1
    MayReturn = FALSE
    MaxReorgs = 1
    MaxSwitches = 2
    MaxReloads = 1
    MaxErrors = 1
INVARIANTS
    VaultIsSound
    DepositsAreSound
    RetryIsNeverSilent
CHECK_DEADLOCK FALSE
