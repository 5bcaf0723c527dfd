SPECIFICATION Spec
CONSTANTS
    g1 = g1
    m1 = m1
    m2 = m2
    a1 = a1
    Asked <- MCAsked
    Media = {"movie", "show"}
    Gets = {g1}
    Regenerations = {m1, m2}
    CardActions = {a1}
    Curations = {c1}
    Stale = 2
    MaxRegens = 2
    Cooldown = 1
    Retention = 4
    Slots = 1
    PoolCapacity = 3
    InitialBatches <- MCInitialBatches
    MaxTime = 2
    NoRequest = NoRequest
INVARIANTS
    RegenCap
    NoCallWhileCooling
PROPERTIES
    GenerationsAreAtomic
    KeptOnFailure
    EveryRequestEnds
CHECK_DEADLOCK FALSE
