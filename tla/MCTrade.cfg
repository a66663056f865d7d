SPECIFICATION FairSpec
CONSTANTS
    Market = m1
    MaxOrders = 2
    Trades <- OneTrade
    Wallets = {w1, w2}
    None = None
    Polls = {1}
    TapeSize = 2
    MaxFaults = 1
    MaxChanges = 1
    RecentWindow = 2
    Nothing = Nothing
CHECK_DEADLOCK FALSE
INVARIANTS
    TapeTypeOK
    TwinIsPlaceholder
PROPERTIES
    HydrationOwns
    PlaintextKept
    StubForward
    Surfaces
