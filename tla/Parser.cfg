CONSTANTS
    MaxLines = 5
    MaxText = 5
    Programs <- MCPrograms
SPECIFICATION Spec
INVARIANTS ParsesOutsideCallbacks ArgumentsSplit
