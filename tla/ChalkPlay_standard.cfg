SPECIFICATION ChalkSpec
CONSTANTS
    NoFilm = NoFilm
    MaxPool = 70
INVARIANTS
    TopSeedsMeetInFinal
CHECK_DEADLOCK FALSE
