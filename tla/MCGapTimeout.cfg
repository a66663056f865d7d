SPECIFICATION FairSpec
CONSTANTS
    Calls = {c1, c2}
    Draws = {1, 2}
    Wallets = {w1}
    None = None
    WordLen = 2
    OrderWord <- SmallOrder
    SaltLen = 1
    ZeroLen = 1
    ValueLen = 2
    Texts = {"mock", "real", "auto", "REAL", "local", "devnet", "mainnet"}
    Lower <- LowerOf
    Mainnet = {"mainnet"}
    Unset = Unset
    Local = "local"
    Devnet = "devnet"
CHECK_DEADLOCK FALSE
PROPERTY
    CallsReturn
