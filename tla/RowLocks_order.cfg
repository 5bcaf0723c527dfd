SPECIFICATION OrderFairSpec
CONSTANTS
    Films = {1, 2, 3, 4, 5}
    Slots = {s1, s2, s3}
    DuelPairs <- MCDuelPairs
    SwipeBatches <- MCSwipeBatches
    ProviderLists <- MCProviderLists
    None = None
INVARIANTS
    DeadlockNeedsImport
PROPERTIES
    EveryTransactionEnds
