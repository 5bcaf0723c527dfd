---------------------------- MODULE MCSuggestions ----------------------------
EXTENDS Suggestions

Past(at, auto, active) == [at |-> at, media |-> "movie", auto |-> auto, active |-> active]

\* No suggestions yet; or an old batch that still shows a card, and one about
\* to go stale.
MCInitialBatches ==
    { << >>,
      << Past(-4, TRUE, TRUE), Past(-1, FALSE, TRUE) >> }

CONSTANTS g1, m1, m2, a1

\* One of the regenerations asks for the other media type.
MCAsked ==
    { [r \in Requests |-> IF r = m2 THEN "show" ELSE "movie"] }
=============================================================================
