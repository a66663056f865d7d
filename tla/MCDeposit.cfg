SPECIFICATION FairSpec
CONSTANTS
    Procs = {p1, p2}
    Stranger = w3
    Wallets = {w1, w2}
    None = None
    MaxDwallets = 2
    Funded <- FirstFunded
    OneBtc = 3
    MaxFaults = 1
    MaxChanges = 1
CHECK_DEADLOCK FALSE
INVARIANTS
    DepositTypeOK
    ShownToCreator
    ReadyMeansPolicy
    LockByCreator
PROPERTIES
    BalanceIsOwn
    BalanceCatchesUp
