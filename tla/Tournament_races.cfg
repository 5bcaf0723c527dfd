SPECIFICATION Spec
CONSTANTS
    f1 = f1
    f2 = f2
    f3 = f3
    f4 = f4
    f5 = f5
    NoFilm = NoFilm
    Requests = {r1, r2}
    Films <- MCFilms
    BracketSize = 8
    Lineups <- MCLineups
    MaxRegens = 2
    MaxPurges = 1
    NoRequest = NoRequest
    Nothing = Nothing
SYMMETRY RequestSymmetry
INVARIANTS
    CompletedByFinal
    DuelPerMatch
    RegensCounted
    SlotsAgree
    OneMatchPerRound
PROPERTIES
    ResultsStand
    RequestsAreAtomic
