SPECIFICATION MCSpec
CONSTANTS
    levels = 3
    ROOT_HISTORY_SIZE = 3
    LeafValues = {1, 2}
    Tokens = {w}
    weth = w
    Accounts = {u, v}
    RejectsEth = {v}
    MaxTime = 3
    Relayers = {r1, r2}
    Depositors = {d}
    InitialDepositors = {}
    DepositAmounts = {1, 2}
    FeeRates = {5000, 6000}
    InitialFeeBps = 0
    InitialTreasury = u
    Delays = {0, 1, 3}
    DEFAULT_FEE_CHANGE_DELAY = 1
    MAX_FEE_CHANGE_DELAY = 1
    MAX_PLATFORM_FEE = 5000
    MaxVaultBalance = 3
    Operators = {u, v}
    Native = native
    BondAmounts = {1}
    MinBonds = {0, 1}
    Cooldowns = {0, 1, 2}
    DEFAULT_EXIT_COOLDOWN = 1
    MAX_EXIT_COOLDOWN = 1
    MaxBonds = 2
    Ether = ether
    Reporters = {r1}
    TreasuryAmounts = {1, 2}
    MaxTreasury = 2
    Leaves = {a, b}
    MaxHeight = 5
    MaxDepth = 2
    MaxLeafReorgs = 2
    MaxLag = 2
    IndexSafetyMargin = 2
    ChunkSize = 2
    MaxPassFailures = 1
    CONFIRMATIONS = 2
    MaxFailures = 1
INVARIANTS
    TypesOK
    RootsAreExact
    VaultBacked
    TrackedIsSum
    BondsExact
    AttributedIsHeld
    IndexIsCanonical
    ActiveNoteIsAtItsIndex
PROPERTIES
    ImplementsLog
    FeeRateWasAnnounced
    FeesAreClaimed
    BondsComeBack
    FollowersCatchUp
    ScanFollowsTheChain
CHECK_DEADLOCK FALSE
