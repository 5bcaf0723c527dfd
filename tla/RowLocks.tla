------------------------------ MODULE RowLocks ------------------------------
(***************************************************************************)
(* The row locks that transactions of one user take on user_movies, and in *)
(* which order: duels and tournament matches (process_duel,                *)
(* record_match_winner), swipe batches (submit_swipe_results) and provider *)
(* imports (_upsert_pool, _upsert_simkl_pool).  Only the order matters     *)
(* here; what is written is in Duels and Swipe.                            *)
(*                                                                         *)
(* Postgres is modelled by what the code relies on: a lock is held until   *)
(* its transaction ends, waiters are served in turn, and one member of a   *)
(* cycle of waiters is aborted.                                            *)
(***************************************************************************)
EXTENDS Naturals, FiniteSets, Sequences

CONSTANTS
    Films,
    Slots,          \* transactions at one time
    DuelPairs,      \* pairs of films a duel or a match names, as submitted
    SwipeBatches,   \* unclassified films of a swipe batch, in body order
    ProviderLists,  \* films of an import, in the order the provider lists them
    None            \* a free row, an idle slot

ASSUME FilmsAssumption == Films \subseteq Nat
ASSUME PlansAssumption ==
    /\ DuelPairs \subseteq Films \X Films
    /\ SwipeBatches \cup ProviderLists \subseteq Seq(Films)
\* A duel names films that were seen when its token was served, a swipe batch
\* updates films it found unclassified: films classified between the SELECT and
\* the UPDATE of a batch, and dueled meanwhile, are left out.
ASSUME DisjointAssumption ==
    \A p \in DuelPairs, b \in SwipeBatches : \A i \in DOMAIN b : b[i] \notin {p[1], p[2]}
\* As many transactions at one time as the pool has connections.
ASSUME SlotsAssumption == None \notin Slots /\ IsFiniteSet(Slots)

VARIABLES
    running,    \* the transaction in each slot: its kind and the rows it locks
    locked,     \* how many of them it has locked
    owner       \* who has locked each film's row

orderVars == <<running, locked, owner>>

\* Mutant of Sorted: the rows are locked as submitted.
AsSubmitted(p) == p

\* sorted([movie_a_id, movie_b_id])
Sorted(p) == IF p[1] < p[2] THEN p ELSE <<p[2], p[1]>>

Duel(p) == [kind |-> "duel", rows |-> Sorted(p)]
SwipeBatch(b) == [kind |-> "swipe", rows |-> b]
Import(l) == [kind |-> "import", rows |-> l]

Transactions ==
    { Duel(p) : p \in DuelPairs } \cup { SwipeBatch(b) : b \in SwipeBatches }
        \cup { Import(l) : l \in ProviderLists }

OrderInit ==
    /\ running = [t \in Slots |-> None]
    /\ locked = [t \in Slots |-> 0]
    /\ owner = [f \in Films |-> None]
-----------------------------------------------------------------------------
\* The "swipe_daily_cap" advisory lock comes before a swipe's first row.
MayBegin(x) ==
    x.kind = "swipe" => \A t \in Slots : running[t] # None => running[t].kind # "swipe"

Begin(t, x) ==
    /\ running[t] = None
    /\ MayBegin(x)
    /\ running' = [running EXCEPT ![t] = x]
    /\ UNCHANGED <<locked, owner>>

Wants(t) == running[t].rows[locked[t] + 1]

Unfinished(t) == running[t] # None /\ locked[t] < Len(running[t].rows)

\* FOR UPDATE, UPDATE or ON CONFLICT DO UPDATE of the next row; locking a row
\* twice is free.
Lock(t) ==
    /\ Unfinished(t)
    /\ owner[Wants(t)] \in {None, t}
    /\ owner' = [owner EXCEPT ![Wants(t)] = t]
    /\ locked' = [locked EXCEPT ![t] = @ + 1]
    /\ UNCHANGED running

\* Mutant of Release: a session is returned without ending its transaction.
ReleaseKeepsRows(t) ==
    /\ running' = [running EXCEPT ![t] = None]
    /\ locked' = [locked EXCEPT ![t] = 0]
    /\ UNCHANGED owner

Release(t) ==
    /\ running' = [running EXCEPT ![t] = None]
    /\ locked' = [locked EXCEPT ![t] = 0]
    /\ owner' = [f \in Films |-> IF owner[f] = t THEN None ELSE owner[f]]

Commit(t) ==
    /\ running[t] # None
    /\ ~Unfinished(t)
    /\ Release(t)

Waits(t) == Unfinished(t) /\ owner[Wants(t)] \notin {None, t}

\* Everyone in S waits for someone in S.
WaitCycle(S) == S # {} /\ \A t \in S : Waits(t) /\ owner[Wants(t)] \in S

\* deadlock_timeout: the victim's request answers 500, its import "failed".
Victim(t) ==
    /\ \E S \in SUBSET Slots : t \in S /\ WaitCycle(S)
    /\ Release(t)

OrderNext ==
    \E t \in Slots :
        \/ \E x \in Transactions : Begin(t, x)
        \/ Lock(t) \/ Commit(t) \/ Victim(t)

OrderSpec == OrderInit /\ [][OrderNext]_orderVars

\* A begun transaction goes on; Postgres queues the waiters of a row, so one
\* whose turn keeps coming is served, and it always breaks a deadlock.
Fairness == \A t \in Slots : SF_orderVars(Lock(t)) /\ WF_orderVars(Commit(t)) /\ WF_orderVars(Victim(t))

OrderFairSpec == OrderSpec /\ Fairness
-----------------------------------------------------------------------------
(* Properties *)

LockedRows(t) == { running[t].rows[i] : i \in 1..locked[t] }

\* The types, and: a transaction holds the rows it has locked and no others.
OrderTypeOK ==
    /\ running \in [Slots -> Transactions \cup {None}]
    /\ locked \in [Slots -> Nat]
    /\ owner \in [Films -> Slots \cup {None}]
    /\ \A t \in Slots : { f \in Films : owner[f] = t } = LockedRows(t)

\* Duels and matches never deadlock each other, nor do swipe batches: every
\* cycle of waiting transactions has an import in it.
DeadlockNeedsImport ==
    \A S \in SUBSET Slots :
        WaitCycle(S) => \E t \in S : running[t].kind = "import"

\* Every transaction ends, as a victim if need be.
EveryTransactionEnds ==
    \A t \in Slots : running[t] # None ~> running[t] = None

-----------------------------------------------------------------------------
(* A promise the code breaks: TLC refutes it (README, section 3) *)

\* "Acquire row locks in deterministic UUID order to prevent deadlocks"
\* (services/duel.py:147).  An import takes the same rows in the provider's
\* order, so a duel can still be in a deadlock.
DuelsNeverDeadlock ==
    \A S \in SUBSET Slots :
        WaitCycle(S) => \A t \in S : running[t].kind # "duel"
=============================================================================
