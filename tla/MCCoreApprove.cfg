SPECIFICATION Spec
CONSTANTS
    Markets = {m1}
    Nonces = {n1, n2, n3}
    Traders = {t1, t2}
    Keepers = {k1}
    DWallets = {d1}
    Cts = {c1}
    Outputs = {out}
    Fills = {1}
    Caps = {1}
    Digests = {g1}
    MaxActive = 2
    MaxMatches = 1
    FirstSlot = 1
    LastSlot = 2
    None = None
SYMMETRY Sym
CHECK_DEADLOCK FALSE
INVARIANTS
    TypeOK
    ApprovalBinds
PROPERTIES
    ApprovalOneShot
