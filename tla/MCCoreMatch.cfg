SPECIFICATION Spec
CONSTANTS
    Markets = {m1}
    Nonces = {n1, n2, n3}
    Traders = {t1}
    Keepers = {k1}
    DWallets = {d1, d2}
    Cts = {c1, c2}
    Outputs = {out1, out2}
    Fills = {1}
    Caps = {}
    Digests = {}
    MaxActive = 3
    MaxMatches = 2
    FirstSlot = 1
    LastSlot = 1
    None = None
    Modulus = 8
SYMMETRY Sym
CHECK_DEADLOCK FALSE
INVARIANTS
    CountExact
    BookComplete
    MatchExclusive
    MatchLedger
    MatchBinds
    RecordAfterCommit
PROPERTIES
    OrderFinal
    SettlementFinal
    ImplementsDarkPool
