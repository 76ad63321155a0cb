SPECIFICATION MCSpec
CONSTANTS
    alice = alice
    bob = bob
    A = A
    B = B
    r1 = r1
    r2 = r2
    dex = dex
    recip = recip
    Tokens = {A, B}
    weth = B
    Accounts = {r1, r2, recip}
    RejectsEth = {}
    MaxTime = 1
    Capacity = 4
    ROOT_HISTORY_SIZE = 2
    Secrets = {alice, bob}
    Salts = {1, 2}
    DepositNotes <- OneSidedNotes
    WithdrawAmounts = {}
    Settlements = {settlement}
    SETTLEMENT_TIMELOCK = 1
    InitialSettlement = settlement
    InitialPoolCfg <- DeployedPool
    AdminOps = {}
    Relayers = {r1, r2}
    Depositors = {settlement}
    InitialDepositors = {settlement}
    DepositAmounts = {}
    FeeRates = {}
    InitialFeeBps = 5000
    InitialTreasury = r1
    Delays = {}
    DEFAULT_FEE_CHANGE_DELAY = 1
    MAX_FEE_CHANGE_DELAY = 1
    MAX_PLATFORM_FEE = 5000
    MaxVaultBalance = 0
    Self = settlement
    Orders <- OneSidedOrders
    Tiers = {16}
    Nonces = {1, 2}
    Fees = {0}
    Routers = {dex}
    DexOutputs = {}
    DexFees = {}
    MAX_DEX_PLATFORM_FEE_BPS = 500
    MAX_CLAIM_BATCH_SIZE = 2
    InitialCfg <- Deployed
    Situations = {"given"}
INVARIANTS
    OneSidedSettlesFit
CHECK_DEADLOCK FALSE
