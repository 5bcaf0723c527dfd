----------------------------- MODULE MCRowLocks -----------------------------
EXTENDS RowLocks, TLC

\* Films 1 to 3 are seen, 4 and 5 unclassified; imports list all of them.
MCDuelPairs == { <<1, 2>>, <<2, 3>>, <<3, 1>> }
MCSwipeBatches == { <<4, 5>>, <<5, 4>> }
MCProviderLists == { <<2, 5, 1>>, <<3, 4, 2>> }

SlotSymmetry == Permutations(Slots)
=============================================================================
