SPECIFICATION FairSpec
CONSTANTS
    MaxRequests = 2
    Sources = 2
    MaxRuns = 2
    MaxRestarts = 1
    StaleAfter = 1
    WorstCase = 1
INVARIANTS
    CompleteIsTrue
    StaleIsDead
    NoImportBeforeConsent
    PurgeSparesConsented
    NothingAfterDeletion
PROPERTIES
    OutcomeOfStampedRun
    ImportIsReported
