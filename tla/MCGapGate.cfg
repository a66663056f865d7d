SPECIFICATION SettlementSpec
CONSTANTS
    Markets = {m1}
    Nonces <- OrderNonces
    Traders = {t1}
    Keepers = {k1}
    DWallets = {d1, d2, d3}
    Cts = {c1}
    Outputs = {out}
    Fills = {2}
    Caps = {2}
    Digests <- Txs
    MaxActive = 4
    MaxMatches = 2
    FirstSlot = 1
    LastSlot = 2
    None = None
    d1 = d1
    d2 = d2
    d3 = d3
    Self = k1
    Store = {d1, d2, d3}
    Seller <- TwoSellers
    Buyer = d3
    Policy <- Ample
    Funding <- FundsTwo
    Fee = 1
    LateApprovals = FALSE
    BtcMode = "real"
    MaxCoins = 7
    MaxFaults = 0
CHECK_DEADLOCK FALSE
INVARIANTS
    NoUnauthorisedSettle
