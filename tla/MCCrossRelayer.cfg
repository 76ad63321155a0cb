SPECIFICATION MCSpec
CONSTANTS
    r1 = r1
    r2 = r2
    w1 = w1
    w2 = w2
    ft = ft
    fm = fm
    gt = gt
    gm = gm
    mo = mo
    no = no
    to = to
    k1 = k1
    k2 = k2
    f = f
    g = g
    NoOrder = NoOrder
    Relayers <- TwoRelayers
    Orders = {mo, no, to}
    Expiry <- ExpireTogether
    Tasks = {w1, w2, ft, fm, gt, gm}
    Cancellers = {mo}
    RelayerOf <- TaskRelayer
    sendRetries = 1
    MaxTime = 2
    MaxTxs = 2
    Owner <- OwnerMN
    SameToken = {}
    Compatible <- AllFit
    Keys = {k1, k2}
    KeyOf <- KeyPerRelayer
    Posts = {}
    WorkerOf <- WorkerTask
    MAX_AUTHORIZE_ORDERS = 3
    MAX_ORDERS_PER_PUBKEY = 3
    MAX_SETTLEMENT_ATTEMPTS = 1
    settlementFailureThreshold = 1
    RetainForever = TRUE
    MaxCrashes = 1
    Offers = {f, g}
    TakerTask <- OfferTaker
    MakerTask <- OfferMaker
    verifyOrderProofs <- VerifyAll
    maxConcurrentAuthorizeOffers = 2
    Unreliable = {r1, r2}
INVARIANTS
    OneSubmissionPerOrder
    NoStuckMatched
    RowsFollowTheChain
PROPERTIES
    OrdersEnd
CHECK_DEADLOCK FALSE
