----------------------------- MODULE MCExpansion -----------------------------
EXTENDS Expansion, TLC

CONSTANTS m1, m2, s1

\* Two ids, and one that two titles share.
MCRankings == { <<7, 8>>, <<7, 7>> }

RunSymmetry == Permutations(Runs)
=============================================================================
