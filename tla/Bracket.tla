------------------------------- MODULE Bracket -------------------------------
(***************************************************************************)
(* The matches of a single-elimination bracket of n places: how            *)
(* create_tournament_bracket lays them out, byes included, and how         *)
(* record_match_winner moves a winner on.  A match is addressed by its     *)
(* round (from 1) and its position in the round (from 0).                  *)
(***************************************************************************)
EXTENDS Seeding

CONSTANT NoFilm     \* an empty movie_a_id, movie_b_id or winner_movie_id

Rounds(n) == CASE n = 8 -> 3 [] n = 16 -> 4 [] n = 32 -> 5 [] n = 64 -> 6

Pow2 == <<2, 4, 8, 16, 32, 64>>

MatchesInRound(n, r) == n \div Pow2[r]

Places(n) == { m \in (1..Rounds(n)) \X (0..n) : m[2] < MatchesInRound(n, m[1]) }

Final(n) == <<Rounds(n), 0>>

EmptyMatch == [a |-> NoFilm, b |-> NoFilm, winner |-> NoFilm, bye |-> FALSE]

\* Mutant of OpeningMatch: the last film is taken for a missing one.
OpeningMatchOffByOne(seeded, seedA, seedB) ==
    LET has(seed) == seed < Len(seeded)
        bye(seed) == [a |-> seeded[seed], b |-> NoFilm, winner |-> seeded[seed], bye |-> TRUE]
    IN  CASE has(seedA) /\ has(seedB) ->
               [EmptyMatch EXCEPT !.a = seeded[seedA], !.b = seeded[seedB]]
          [] has(seedA) /\ ~has(seedB) -> bye(seedA)
          [] ~has(seedA) /\ has(seedB) -> bye(seedB)
          [] OTHER -> EmptyMatch

\* A round-one match between two seeds; a seed beyond the last film is a bye
\* for the other, who has won already.
OpeningMatch(seeded, seedA, seedB) ==
    LET has(seed) == seed <= Len(seeded)
        bye(seed) == [a |-> seeded[seed], b |-> NoFilm, winner |-> seeded[seed], bye |-> TRUE]
    IN  CASE has(seedA) /\ has(seedB) ->
               [EmptyMatch EXCEPT !.a = seeded[seedA], !.b = seeded[seedB]]
          [] has(seedA) /\ ~has(seedB) -> bye(seedA)
          [] ~has(seedA) /\ has(seedB) -> bye(seedB)
          [] OTHER -> EmptyMatch

FirstRound(n, seeded, position) ==
    OpeningMatch(seeded, Pairings(n)[position + 1][1], Pairings(n)[position + 1][2])

\* The winners of byes already stand in round two.
NewBracket(n, seeded) ==
    [m \in Places(n) |->
        CASE m[1] = 1 -> FirstRound(n, seeded, m[2])
          [] m[1] = 2 -> [EmptyMatch EXCEPT !.a = FirstRound(n, seeded, 2 * m[2]).winner,
                                            !.b = FirstRound(n, seeded, 2 * m[2] + 1).winner]
          [] OTHER    -> EmptyMatch]

NextPlace(m) == <<m[1] + 1, m[2] \div 2>>

\* Mutant of Advance: positions are taken to start at one.
AdvanceFromOne(match, winner, position) ==
    IF position % 2 = 1 THEN [match EXCEPT !.a = winner] ELSE [match EXCEPT !.b = winner]

Advance(match, winner, position) ==
    IF position % 2 = 0 THEN [match EXCEPT !.a = winner] ELSE [match EXCEPT !.b = winner]

\* The bracket after film w won match m.
Decide(n, bracket, m, w) ==
    [k \in Places(n) |->
        IF k = m THEN [bracket[k] EXCEPT !.winner = w]
        ELSE IF m[1] < Rounds(n) /\ k = NextPlace(m) THEN Advance(bracket[k], w, m[2])
        ELSE bracket[k]]

Playable(match) == match.a # NoFilm /\ match.b # NoFilm /\ match.winner = NoFilm

\* Played by the user: a bye has a winner nobody chose.
Played(match) == match.winner # NoFilm /\ ~match.bye
=============================================================================
