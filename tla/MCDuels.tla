------------------------------- MODULE MCDuels -------------------------------
EXTENDS Duels, TLC

CONSTANTS t1, t2

MCFilms == 1..3
MCPairOf == t1 :> {1, 2} @@ t2 :> {2, 3}

Sub(t, a, b, o) == [token |-> t, a |-> a, b |-> b, outcome |-> o]

\* Retries of the same token, with either order of the two films; a second
\* token over an overlapping pair; a skip; a match; a token that names another
\* pair than the one submitted.
MCBodies ==
    { Sub(t1, 1, 2, "a_wins"), Sub(t1, 2, 1, "neither"), Sub(t2, 3, 2, "a_only"),
      Sub(t2, 1, 2, "b_wins"), Sub(NoToken, 2, 1, "a_wins") }

=============================================================================
