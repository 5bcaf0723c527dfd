------------------------------ MODULE Tournament ------------------------------
(***************************************************************************)
(* One tournament as concurrent requests serve it: match results,          *)
(* abandoning and re-curating, serialized on the "tournament_status"       *)
(* advisory lock (routers/tournaments.py, record_match_winner).  A request *)
(* loads the tournament, may await the LLM, and writes what it computed    *)
(* from that reading at its commit.                                        *)
(*                                                                         *)
(* The user_movies rows of a result and their row locks are in Duels; here *)
(* a result counts as one duel.                                            *)
(***************************************************************************)
EXTENDS AtomicTournament

CONSTANTS
    Requests,       \* requests in flight at one time
    NoRequest,      \* the advisory lock is free
    Nothing         \* a request holds no call, no reading, no lineup

ASSUME MarkersAssumption ==
    NoRequest \notin Requests /\ Nothing \notin TournamentRow \cup Lineups

\* What a request asks for.
Calls ==
    [op : {"submit"}, generation : Nat, match : Matches, winner : Films]
        \cup [op : {"abandon", "regenerate"}]

VARIABLES
    holder,     \* who holds the advisory lock
    pc,         \* where each request is
    call,       \* what each request asks for
    reading,    \* the tournament as each request loaded it
    lineup      \* what the LLM selected for a regeneration

requestVars == <<holder, pc, call, reading, lineup>>
vars == <<tournament, duels, purges, holder, pc, call, reading, lineup>>

InTransaction == {"locked", "curating", "writing"}

TypeOK ==
    /\ tournament \in TournamentRow
    /\ duels \in Nat
    /\ purges \in 0..MaxPurges
    /\ holder \in Requests \cup {NoRequest}
    /\ pc \in [Requests -> {"idle", "arrived"} \cup InTransaction]
    /\ call \in [Requests -> Calls \cup {Nothing}]
    /\ reading \in [Requests -> TournamentRow \cup {Nothing}]
    /\ lineup \in [Requests -> Lineups \cup {Nothing}]

Init ==
    /\ AtomicInit
    /\ holder = NoRequest
    /\ pc = [r \in Requests |-> "idle"]
    /\ call = [r \in Requests |-> Nothing]
    /\ reading = [r \in Requests |-> Nothing]
    /\ lineup = [r \in Requests |-> Nothing]
-----------------------------------------------------------------------------
(* Requests *)

\* A client acts on the bracket it last saw: it submits a match that was to be
\* played then, though perhaps no longer when the request is served.
Arrive(r) ==
    /\ pc[r] = "idle"
    /\ tournament.status # "none"
    /\ \/ \E m \in Matches, w \in Films :
             /\ Playable(Match(m))
             /\ call' = [call EXCEPT ![r] = Result(tournament, m, w)]
       \/ \E op \in {"abandon", "regenerate"} : call' = [call EXCEPT ![r] = [op |-> op]]
    /\ pc' = [pc EXCEPT ![r] = "arrived"]
    /\ UNCHANGED <<tournament, duels, purges, holder, reading, lineup>>

\* The request is over: answered, or its transaction rolled back.
Finish(r) ==
    /\ pc' = [pc EXCEPT ![r] = "idle"]
    /\ call' = [call EXCEPT ![r] = Nothing]
    /\ reading' = [reading EXCEPT ![r] = Nothing]
    /\ lineup' = [lineup EXCEPT ![r] = Nothing]
    /\ holder' = IF holder = r THEN NoRequest ELSE holder

\* Mutant of LockFree: requests do not exclude each other.
LockIgnored == TRUE

\* acquire_quota_lock_nowait: held until the transaction ends.
LockFree == holder = NoRequest

Acquire(r) ==
    /\ pc[r] = "arrived"
    /\ LockFree
    /\ holder' = r
    /\ pc' = [pc EXCEPT ![r] = "locked"]
    /\ UNCHANGED <<tournament, duels, purges, call, reading, lineup>>

\* 429: another request on this tournament is in progress.
Busy(r) ==
    /\ pc[r] = "arrived"
    /\ ~LockFree
    /\ Finish(r)
    /\ UNCHANGED atomicVars

Allowed(c, t) ==
    CASE c.op = "submit"     -> ValidResult(t, c)
      [] c.op = "abandon"    -> MayAbandon(t)
      [] c.op = "regenerate" -> MayRegenerate(t)

\* The checks that follow the load: go on, or answer 400.
Load(r) ==
    /\ pc[r] = "locked"
    /\ Allowed(call[r], tournament)
    /\ reading' = [reading EXCEPT ![r] = tournament]
    /\ pc' = [pc EXCEPT ![r] = IF call[r].op = "regenerate" THEN "curating" ELSE "writing"]
    /\ UNCHANGED <<tournament, duels, purges, holder, call, lineup>>

Refuse(r) ==
    /\ pc[r] = "locked"
    /\ ~Allowed(call[r], tournament)
    /\ Finish(r)
    /\ UNCHANGED atomicVars

\* The LLM answers with a usable selection, seeded by rating.
Curated(r) ==
    /\ pc[r] = "curating"
    /\ \E films \in Lineups : lineup' = [lineup EXCEPT ![r] = films]
    /\ pc' = [pc EXCEPT ![r] = "writing"]
    /\ UNCHANGED <<tournament, duels, purges, holder, call, reading>>
-----------------------------------------------------------------------------
(* Commits: no check is repeated, what was read is trusted *)

Writes(r, op) == pc[r] = "writing" /\ call[r].op = op /\ Finish(r)

CommitResult(r) ==
    /\ Writes(r, "submit")
    /\ tournament' = Won(tournament, call[r])
    /\ duels' = duels + 1
    /\ UNCHANGED purges

CommitAbandon(r) ==
    /\ Writes(r, "abandon")
    /\ tournament' = Abandoned(tournament)
    /\ UNCHANGED <<duels, purges>>

CommitRegenerate(r) ==
    /\ Writes(r, "regenerate")
    /\ tournament' = Recurated(tournament, lineup[r], reading[r].regens)
    /\ UNCHANGED <<duels, purges>>

\* A failed LLM call, a pool that no longer fills the bracket, a withdrawn
\* consent, a rollback or a restart: nothing is written.
Abort(r) ==
    /\ pc[r] \in InTransaction
    /\ Finish(r)
    /\ UNCHANGED atomicVars
-----------------------------------------------------------------------------
Next ==
    \/ (Create \/ PurgeLlmResponse) /\ UNCHANGED requestVars
    \/ \E r \in Requests :
          \/ Arrive(r) \/ Acquire(r) \/ Busy(r) \/ Load(r) \/ Refuse(r) \/ Curated(r)
          \/ CommitResult(r) \/ CommitAbandon(r) \/ CommitRegenerate(r) \/ Abort(r)

Spec == Init /\ [][Next]_vars
-----------------------------------------------------------------------------
(* Property *)

\* The advisory lock makes every request atomic: what was checked when the
\* tournament was loaded is still so at the commit, across the LLM call.
RequestsAreAtomic == AtomicSpec
=============================================================================
