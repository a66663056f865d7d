SPECIFICATION Spec
CONSTANTS
    Calls = {c1, c2, c3}
    Draws = {1, 2}
    Wallets = {w1, w2}
    None = None
    WordLen = 2
    OrderWord <- SmallOrder
    SaltLen = 1
    ZeroLen = 1
    ValueLen = 2
    Texts = {"mock", "real", "auto", "REAL", "local", "devnet", "mainnet"}
    Lower <- LowerOf
    Mainnet = {"mainnet"}
    Unset = Unset
    Local = "local"
    Devnet = "devnet"
SYMMETRY Sym
CHECK_DEADLOCK FALSE
INVARIANTS
    NoFallbackSignature
    KeeperSignsByFile
