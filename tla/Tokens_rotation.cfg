SPECIFICATION Spec
CONSTANTS
    Syncs = {s1}
    Watches = {w1}
    Imports = {i1}
    SignIns = {l1}
    Script = Script
    NoTask = NoTask
INVARIANTS
    StoredIsLive
    SerializedRefreshes
    Readable
CHECK_DEADLOCK FALSE
