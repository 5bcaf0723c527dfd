------------------------------- MODULE MCSwipe -------------------------------
EXTENDS Swipe, TLC

CONSTANTS f1, f2, f3, f4

Card(f, answer) == [film |-> f, seen |-> answer]

\* Film f1 on two cards, and listed twice in one body; film f4 is not in the
\* library at first.
MCBatches ==
    { << Card(f1, "yes"), Card(f2, "no") >>,
      << Card(f1, "no"), Card(f1, "yes") >>,
      << Card(f4, "yes"), Card(f3, "no") >> }

RequestSymmetry == Permutations(Requests)
=============================================================================
