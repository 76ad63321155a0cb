SPECIFICATION MCSpec
CONSTANTS
    alice = alice
    bob = bob
    A = A
    B = B
    r1 = r1
    r2 = r2
    dex = dex
    recip = recip
    Tokens = {A, B}
    weth = B
    Accounts = {r1, r2, recip}
    RejectsEth = {}
    MaxTime = 3
    Capacity = 4
    ROOT_HISTORY_SIZE = 2
    Secrets = {alice, bob}
    Salts = {1, 2}
    DepositNotes <- FlowNotes
    WithdrawAmounts = {2}
    Settlements = {settlement, successor}
    SETTLEMENT_TIMELOCK = 1
    InitialSettlement = settlement
    InitialPoolCfg <- DeployedPool
    AdminOps = {}
    Relayers = {r1, r2}
    Depositors = {settlement}
    InitialDepositors = {settlement}
    DepositAmounts = {}
    FeeRates = {}
    InitialFeeBps = 5000
    InitialTreasury = r1
    Delays = {}
    DEFAULT_FEE_CHANGE_DELAY = 1
    MAX_FEE_CHANGE_DELAY = 1
    MAX_PLATFORM_FEE = 5000
    MaxVaultBalance = 0
    Self = settlement
    Orders <- AllOrders
    Tiers = {16}
    Nonces = {1, 2}
    Fees = {0, 1}
    Routers = {dex}
    DexOutputs = {1, 2}
    DexFees = {0, 5000}
    MAX_DEX_PLATFORM_FEE_BPS = 5000
    MAX_CLAIM_BATCH_SIZE = 2
    InitialCfg <- Deployed
    Situations = {"flow", "dex", "pause"}
INVARIANTS
    PoolSolvent
    EveryNoteCanExit
    ClaimsCovered
    SettledNotesAreSpent
    BooksExact
CHECK_DEADLOCK FALSE
