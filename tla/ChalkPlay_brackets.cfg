SPECIFICATION ChalkSpec
CONSTANTS
    NoFilm = NoFilm
    MaxPool = 70
INVARIANTS
    NeverStuck
    ByesToTopSeeds
CHECK_DEADLOCK FALSE
