SPECIFICATION CycleSpec
CONSTANTS
    Markets = {m1}
    Nonces = {1, 2, 3}
    Traders = {t1}
    Keepers = {k1}
    DWallets = {d1}
    Cts = {c1}
    Outputs = {out1, out2}
    Fills = {1}
    Caps = {}
    Digests = {}
    MaxActive = 3
    MaxMatches = 2
    FirstSlot = 1
    LastSlot = 2
    None = None
    m1 = m1
    cA = cA
    cB = cB
    Self = k1
    Cycles = {cA, cB}
    Pair <- Overlapping
    KeyTags = {FALSE}
    MaxFaults = 0
CHECK_DEADLOCK FALSE
INVARIANTS
    NoneAbandoned
