SPECIFICATION Spec
CONSTANTS
    f1 = f1
    f2 = f2
    f3 = f3
    f4 = f4
    Films = {f1, f2, f3, f4}
    Library = {f1, f2, f3}
    Requests = {r1, r2, r3}
    Batches <- MCBatches
    BatchMax = 2
    Cap = 2
    Window = 0
    Retention = 0
    MaxTime = 1
    NoRequest = NoRequest
SYMMETRY RequestSymmetry
INVARIANTS
    CapAndOneBatch
PROPERTIES
    BatchesAreAtomic
CHECK_DEADLOCK FALSE
