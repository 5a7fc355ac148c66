CONSTANTS
    f1 = f1
    d1 = d1
    d2 = d2
    w1 = w1
    w3 = w3
    i1 = i1
    Old = Old
    Hole = Hole
    Reads = {r1}
    Writes = {w1, w2, w3}
    Infos = {i1}
    Creates = {w1, w2, w3}
    Paths = {f1, d1}
    Chain <- MCChain
    PathOf <- MCPathOf
    Length <- MCLength
    Denied = {}
    InitialDirs = {}
    InitialFiles = {}
    PoolSize = 3
SPECIFICATION Spec
CHECK_DEADLOCK FALSE
INVARIANTS LastWriteWins ReadIsConsistent ParentsCreated
