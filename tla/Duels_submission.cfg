SPECIFICATION FairSpec
CONSTANTS
    t1 = t1
    t2 = t2
    Films <- MCFilms
    Tokens = {t1, t2}
    Requests = {r1, r2}
    NoToken = NoToken
    Unrated = Unrated
    PairOf <- MCPairOf
    Watched = {1, 2, 3}
    Bodies <- MCBodies
    TTL = 1
    RequestLifetime = 1
    Retention = 2
    MaxTime = 3
    NoRequest = NoRequest
    NotRead = NotRead
    Never = Never
    NoEntry = NoEntry
INVARIANTS
    AtMostOncePerToken
    RatingChain
    BattlesCountDuels
    RankedIsSeen
    ConflictIsRecorded
PROPERTIES
    EveryRequestEnds
    LedgerImplemented
CHECK_DEADLOCK FALSE
