CONSTANTS
    Conns = {c1, c2}
    HeaderChunks = 2
    MaxChunks = 3
SPECIFICATION HttpFairSpec
INVARIANTS OneResponse DestroyedIdleUntouched OnlyHangupAborts
PROPERTY AnsweredIsFreed
CHECK_DEADLOCK FALSE
