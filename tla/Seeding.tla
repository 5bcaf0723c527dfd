------------------------------- MODULE Seeding -------------------------------
(***************************************************************************)
(* Which bracket a pool of ranked films may have, and who meets whom in    *)
(* its first round: max_bracket_size and generate_seeded_bracket.          *)
(***************************************************************************)
EXTENDS Naturals, Sequences

BracketSizes == {8, 16, 32, 64}

\* A pool this small is refused: "Need at least 4 ranked films".
NoBracket == 0

\* Mutant of Offerable: brackets up to three times the pool.
OfferableTriple(pool) == { s \in BracketSizes : s <= 3 * pool }

Offerable(pool) == { s \in BracketSizes : s <= 2 * pool }

MaxBracketSize(pool) ==
    IF Offerable(pool) = {} THEN NoBracket
    ELSE CHOOSE s \in Offerable(pool) : \A t \in Offerable(pool) : t <= s

\* Mutant of Pairings8: seed 4 is named twice, seed 3 not at all.
Pairings8Twice == << <<1, 8>>, <<4, 5>>, <<2, 7>>, <<4, 6>> >>

Pairings8 == << <<1, 8>>, <<4, 5>>, <<2, 7>>, <<3, 6>> >>

Pairings16 ==
    << <<1, 16>>, <<8, 9>>, <<4, 13>>, <<5, 12>>,
       <<2, 15>>, <<7, 10>>, <<3, 14>>, <<6, 11>> >>

\* The larger brackets: the first seeds of the pairings half the size, each
\* against its complement, and then the second seeds.
Doubled(top, n) ==
    LET against(side) == [i \in DOMAIN top |-> <<top[i][side], n + 1 - top[i][side]>>]
    IN  against(1) \o against(2)

Pairings(n) ==
    CASE n = 8  -> Pairings8
      [] n = 16 -> Pairings16
      [] n = 32 -> Doubled(Pairings16, 32)
      [] n = 64 -> Doubled(Doubled(Pairings16, 32), 64)
=============================================================================
