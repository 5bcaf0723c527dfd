------------------------------ MODULE DuelLedger ------------------------------
(***************************************************************************)
(* What the duel component promises, with every submission atomic: a       *)
(* ledger of recorded duels, one per pair token at most, each computed     *)
(* from the ratings its two films had at that instant.  There are no       *)
(* locks, transactions, retries or purges here; Duels implements it.       *)
(***************************************************************************)
EXTENDS DuelRules

CONSTANTS Watched, NoEntry

VARIABLES
    row,    \* the user_movies row of each film
    entry   \* the duel each request recorded, or NoEntry

ledgerVars == <<row, entry>>

LedgerInit ==
    /\ row = [f \in Films |-> NewRow(f \in Watched)]
    /\ entry = [r \in Requests |-> NoEntry]

\* A duel as recorded: its submission and the two rows it was computed from.
EntryOf(s, rowA, rowB) == [body |-> s, beforeA |-> rowA, beforeB |-> rowB]

TokenSpent(t) == \E r \in Requests : entry[r] # NoEntry /\ entry[r].body.token = t

Record(r, s) ==
    /\ entry[r] = NoEntry
    /\ ~IsMatch(s) => ~TokenSpent(s.token)
    /\ entry' = [entry EXCEPT ![r] = EntryOf(s, row[s.a], row[s.b])]
    /\ row' = [f \in Films |-> IF f \in Pair(s) THEN After(row[f], f, s, r) ELSE row[f]]

MarkSeen(f) ==
    /\ row' = [row EXCEPT ![f].seen = "yes"]
    /\ UNCHANGED entry

LedgerNext ==
    \/ \E r \in Requests, s \in Submissions : Record(r, s)
    \/ \E f \in Films : MarkSeen(f)

LedgerSpec == LedgerInit /\ [][LedgerNext]_ledgerVars
=============================================================================
