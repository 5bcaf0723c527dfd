SPECIFICATION Spec
CONSTANTS
    m1 = m1
    m2 = m2
    s1 = s1
    Titles = {m1, m2, s1}
    Movies = {m1, m2}
    Library = {m1}
    Runs = {r1, r2}
    Rankings <- MCRankings
    LastPage = 2
    Low = 2
    Target = 2
    Cooldown = 1
    MaxTime = 2
    NoRun = NoRun
SYMMETRY RunSymmetry
INVARIANTS
    OncePerCooldown
PROPERTIES
    LibraryKept
CHECK_DEADLOCK FALSE
