SPECIFICATION MCSpec
CONSTANTS
    r1 = r1
    w1 = w1
    a = a
    b = b
    c = c
    k1 = k1
    k2 = k2
    p1 = p1
    p2 = p2
    NoOrder = NoOrder
    Relayers <- OneRelayer
    Orders = {a, b, c}
    Expiry <- ExpireEarly
    Tasks = {w1}
    Cancellers = {a}
    RelayerOf <- TaskRelayer
    sendRetries = 1
    MaxTime = 2
    MaxTxs = 2
    Owner <- OwnerAll
    SameToken = {c}
    Compatible <- ABFit
    Keys = {k1, k2}
    KeyOf <- KeyOfB
    Posts = {p1, p2}
    WorkerOf <- WorkerTask
    MAX_AUTHORIZE_ORDERS = 2
    MAX_ORDERS_PER_PUBKEY = 1
    MAX_SETTLEMENT_ATTEMPTS = 1
    settlementFailureThreshold = 1
    RetainForever = FALSE
    MaxCrashes = 1
INVARIANTS
    FailedMeansUnspent
CHECK_DEADLOCK FALSE
