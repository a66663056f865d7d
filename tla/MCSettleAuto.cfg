SPECIFICATION FairSpec
CONSTANTS
    Markets = {m1}
    Nonces <- OrderNonces
    Traders = {t1}
    Keepers = {k1}
    DWallets = {d1, d2, d3}
    Cts = {c1}
    Outputs = {out}
    Fills = {0, 2}
    Caps = {1, 2}
    Digests <- Txs
    MaxActive = 4
    MaxMatches = 2
    FirstSlot = 1
    LastSlot = 2
    None = None
    d1 = d1
    d2 = d2
    d3 = d3
    Self = k1
    Store = {d1, d2, d3}
    Seller <- OneSeller
    Buyer = d3
    Policy <- Ample
    Funding <- FundsOne
    Fee = 1
    LateApprovals = FALSE
    BtcMode = "auto"
    MaxCoins = 6
    MaxFaults = 1
CHECK_DEADLOCK FALSE
INVARIANTS
    HonestFailure
PROPERTIES
    EveryMatchDecided
