------------------------------ MODULE ChalkPlay ------------------------------
(***************************************************************************)
(* Every bracket the API accepts, played in the order of GET .../next with *)
(* the better seed winning every match ("chalk").  A film is its seed.     *)
(* Chalk shows what a seeding is for: who may meet whom, and when.         *)
(***************************************************************************)
EXTENDS Bracket, FiniteSets

CONSTANT MaxPool    \* bound on the number of ranked films

ASSUME ChalkAssumption == MaxPool \in Nat /\ NoFilm \notin 1..MaxPool

VARIABLES
    size,       \* bracket_size
    films,      \* films in the bracket, seeds 1..films
    bracket

chalkVars == <<size, films, bracket>>

\* create_tournament: _reject_unfillable_bracket, then user_movies[:bracket_size].
ChalkInit ==
    \E pool \in 4..MaxPool :
        /\ size \in { s \in BracketSizes : s <= MaxBracketSize(pool) }
        /\ films = IF pool < size THEN pool ELSE size
        /\ bracket = NewBracket(size, [seed \in 1..films |-> seed])

\* get_next_match: the first match with two films and no winner.
Before(m, k) == m[1] < k[1] \/ (m[1] = k[1] /\ m[2] < k[2])

IsNext(m) ==
    /\ Playable(bracket[m])
    /\ \A k \in Places(size) : Playable(bracket[k]) => ~Before(k, m)

BetterSeed(match) == IF match.a < match.b THEN match.a ELSE match.b

PlayNext ==
    \E m \in Places(size) :
        /\ IsNext(m)
        /\ bracket' = Decide(size, bracket, m, BetterSeed(bracket[m]))
        /\ UNCHANGED <<size, films>>

ChalkNext == PlayNext

ChalkSpec == ChalkInit /\ [][ChalkNext]_chalkVars
-----------------------------------------------------------------------------
(* Properties *)

\* A bracket the API accepted can always be finished: until the final is won
\* there is a match to play (routers/tournaments.py:88-93, max_bracket_size).
NeverStuck ==
    bracket[Final(size)].winner = NoFilm => \E m \in Places(size) : Playable(bracket[m])

\* The size - films byes go to the top seeds, one each.
ByesToTopSeeds ==
    LET byes == { p \in Places(size) : bracket[p].bye }
    IN  /\ { bracket[p].winner : p \in byes } = 1..(size - films)
        /\ Cardinality(byes) = size - films

\* Standard seeding: with 2k films left, seed s plays seed 2k + 1 - s.
PairsComplement ==
    \A m \in Places(size) :
        (bracket[m].a # NoFilm /\ bracket[m].b # NoFilm) =>
            bracket[m].a + bracket[m].b = 2 * MatchesInRound(size, m[1]) + 1

\* generate_seeded_bracket promises "standard tournament seeding" of any size,
\* so the two best seeds stand in opposite halves and can meet only in the
\* final; it does not hold for 32 and 64, where they meet in the semi-final.
TopSeedsMeetInFinal ==
    \A m \in Places(size) : {bracket[m].a, bracket[m].b} = {1, 2} => m = Final(size)
=============================================================================
