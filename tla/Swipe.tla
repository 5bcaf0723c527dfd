-------------------------------- MODULE Swipe --------------------------------
(***************************************************************************)
(* Swipe results: POST /api/swipe/results (routers/swipe.py), with its     *)
(* daily cap, the advisory lock that serializes the cap check, the other   *)
(* writers of user_movies.seen, and the purge of old swipe_results.        *)
(*                                                                         *)
(* One user is modelled: the lock, the cap and the rows are per user.      *)
(***************************************************************************)
EXTENDS SwipeLedger

CONSTANTS
    Retention,      \* SWIPE_RETENTION_DAYS
    NoRequest       \* an unlocked row, a free advisory lock

\* A result outlives the window it counts in: 180 days against one.
ASSUME RetentionAssumption == Retention \in Nat /\ Window <= Retention
ASSUME MarkersAssumption == NoRequest \notin Requests

VARIABLES
    lock,       \* row lock of each film
    holder,     \* who holds the "swipe_daily_cap" advisory lock
    pc,         \* where each request is
    batch,      \* the body of each request
    start,      \* the time each handler took as its own
    todo,       \* the items of its body each request has still to look at
    written     \* the rows each request has inserted, not committed

requestVars == <<lock, holder, pc, batch, start, todo, written>>
vars == <<now, seen, lock, holder, pc, batch, start, todo, written, results>>

InTransaction == {"counting", "selecting", "updating"}

TypeOK ==
    /\ now \in Nat
    /\ seen \in [Films -> Answers \cup {"absent", "unknown"}]
    /\ lock \in [Films -> Requests \cup {NoRequest}]
    /\ holder \in Requests \cup {NoRequest}
    /\ pc \in [Requests -> {"idle", "waiting", "ended"} \cup InTransaction]
    /\ batch \in [Requests -> Batches]
    /\ start \in [Requests -> Nat]
    /\ todo \in [Requests -> SUBSET (1..BatchMax)]
    /\ written \in [Requests -> SUBSET Results]
    /\ results \subseteq Results

Init ==
    /\ LedgerInit
    /\ lock = [f \in Films |-> NoRequest]
    /\ holder = NoRequest
    /\ pc = [r \in Requests |-> "idle"]
    /\ batch \in [Requests -> Batches]
    /\ start = [r \in Requests |-> 0]
    /\ todo = [r \in Requests |-> {}]
    /\ written = [r \in Requests |-> {}]
-----------------------------------------------------------------------------
(* One submission *)

\* The handler takes its own time before it waits for the advisory lock.
Arrive(r) ==
    /\ pc[r] = "idle"
    /\ pc' = [pc EXCEPT ![r] = "waiting"]
    /\ start' = [start EXCEPT ![r] = now]
    /\ UNCHANGED <<now, seen, lock, holder, batch, todo, written, results>>

\* Mutant of LockFree: requests do not wait for each other.
LockIgnored == TRUE

\* acquire_quota_lock: queue for the lock, keep it until the transaction ends.
LockFree == holder = NoRequest

Acquire(r) ==
    /\ pc[r] = "waiting"
    /\ LockFree
    /\ holder' = r
    /\ pc' = [pc EXCEPT ![r] = "counting"]
    /\ UNCHANGED <<now, seen, lock, batch, start, todo, written, results>>

\* Rows that old: purge_old_swipe_results has deleted them.
Purged(result) == result.at + Retention < now

Counted(r) == { result \in results : ~Purged(result) /\ result.at + Window >= start[r] }

\* Mutant of OverCap: one batch too many.
OverCapExclusive(r) == Cardinality(Counted(r)) > Cap

OverCap(r) == Cardinality(Counted(r)) >= Cap

End(r) ==
    /\ pc' = [pc EXCEPT ![r] = "ended"]
    /\ lock' = [f \in Films |-> IF lock[f] = r THEN NoRequest ELSE lock[f]]
    /\ holder' = IF holder = r THEN NoRequest ELSE holder
    /\ todo' = [todo EXCEPT ![r] = {}]
    /\ written' = [written EXCEPT ![r] = {}]

\* 429 when the cap is reached already.
Refuse(r) ==
    /\ pc[r] = "counting"
    /\ OverCap(r)
    /\ End(r)
    /\ UNCHANGED <<now, seen, batch, start, results>>

Accept(r) ==
    /\ pc[r] = "counting"
    /\ ~OverCap(r)
    /\ todo' = [todo EXCEPT ![r] = FilmsOf(batch[r])]
    /\ pc' = [pc EXCEPT ![r] = "selecting"]
    /\ UNCHANGED <<now, seen, lock, holder, batch, start, written, results>>

IsNext(r, i) == i \in todo[r] /\ \A j \in todo[r] : i <= j

\* A plain SELECT ... WHERE seen IS NULL: no row lock.
Select(r) ==
    /\ pc[r] = "selecting"
    /\ \E i \in todo[r] :
          /\ IsNext(r, i)
          /\ IF seen[batch[r][i].film] = "unknown"
             THEN pc' = [pc EXCEPT ![r] = "updating"] /\ UNCHANGED todo
             ELSE todo' = [todo EXCEPT ![r] = @ \ {i}] /\ UNCHANGED pc
    /\ UNCHANGED <<now, seen, lock, holder, batch, start, written, results>>

\* The UPDATE by primary key and the INSERT, flushed by the next query.
Update(r) ==
    /\ pc[r] = "updating"
    /\ \E i \in todo[r] :
          LET f == batch[r][i].film IN
          /\ IsNext(r, i)
          /\ lock[f] = NoRequest
          /\ lock' = [lock EXCEPT ![f] = r]
          /\ written' = [written EXCEPT ![r] = @ \cup {[film |-> f, at |-> now, by |-> r]}]
          /\ todo' = [todo EXCEPT ![r] = @ \ {i}]
    /\ pc' = [pc EXCEPT ![r] = "selecting"]
    /\ UNCHANGED <<now, seen, holder, batch, start, results>>

Commit(r) ==
    /\ pc[r] = "selecting"
    /\ todo[r] = {}
    /\ seen' = [f \in Films |->
                  IF \E row \in written[r] : row.film = f THEN AnswerFor(batch[r], f) ELSE seen[f]]
    /\ results' = results \cup written[r]
    /\ End(r)
    /\ UNCHANGED <<now, batch, start>>

Abort(r) ==
    /\ pc[r] \in InTransaction
    /\ End(r)
    /\ UNCHANGED <<now, seen, batch, start, results>>
-----------------------------------------------------------------------------
\* The other writers of a row: an UPDATE waits for the row lock.
Next ==
    \/ \E f \in Films : AddToLibrary(f) /\ UNCHANGED requestVars
    \/ \E f \in Films, answer \in Answers :
          lock[f] = NoRequest /\ Classify(f, answer) /\ UNCHANGED requestVars
    \/ \E r \in Requests :
          \/ Arrive(r) \/ Acquire(r) \/ Refuse(r) \/ Accept(r)
          \/ Select(r) \/ Update(r) \/ Commit(r) \/ Abort(r)
    \/ Tick /\ UNCHANGED requestVars

Spec == Init /\ [][Next]_vars
-----------------------------------------------------------------------------
(* Properties *)

\* A batch takes effect in one step, at its commit, or not at all: what it
\* checked and selected before holds then, whoever wrote meanwhile, so the
\* handler implements the abstract specification (submit_swipe_results).
BatchesAreAtomic == LedgerSpec

-----------------------------------------------------------------------------
(* A promise the code breaks: TLC refutes it (README, section 3) *)

\* "Only titles still unclassified in the user's library SHALL be updated;
\* others SHALL be skipped" (openspec/specs/swipe/spec.md:39).  The code does not
\* do this: the row may be classified between the SELECT and the UPDATE.
OnlyUnclassified ==
    [][\A r \in Requests :
          Commit(r) => \A row \in written[r] : seen[row.film] = "unknown"]_vars
=============================================================================
