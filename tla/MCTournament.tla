---------------------------- MODULE MCTournament ----------------------------
EXTENDS Tournament, TLC

CONSTANTS f1, f2, f3, f4, f5

MCFilms == {f1, f2, f3, f4, f5}

\* Four films in a bracket of eight: every first-round match is a bye.  Five:
\* seeds 4 and 5 play the only first-round match.
MCLineups == { <<f1, f2, f3, f4>>, <<f5, f3, f1, f2, f4>> }

RequestSymmetry == Permutations(Requests)
=============================================================================
