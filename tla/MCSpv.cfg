SPECIFICATION Spec
CONSTANTS
    Txids = {p, t1, t2, t3, t4}
    Payment = p
    MaxTxs = 5
    MaxReorgs = 1
    None = None
SYMMETRY Sym
CHECK_DEADLOCK FALSE
INVARIANTS
    SpvTypeOK
    VerifiedIncluded
    RefusedOnlyAfterReorg
