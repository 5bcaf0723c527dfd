----------------------------- MODULE SwipeLedger -----------------------------
(***************************************************************************)
(* What swiping promises one user: a submission takes effect as a whole or *)
(* not at all, in one step, on the library as it is at that moment.  It    *)
(* classifies films of the library that no swipe has classified before,    *)
(* while the last 24 hours have room.  Swipe.tla shows that the handler of *)
(* routers/swipe.py, query by query, implements this.                      *)
(***************************************************************************)
EXTENDS Naturals, FiniteSets, Sequences

CONSTANTS
    Films,
    Library,        \* films in the user's library at the start, unclassified
    Requests,
    Batches,        \* request bodies: sequences of [film, seen]
    BatchMax,       \* items in one body at most, 50
    Cap,            \* MAX_SWIPES_PER_DAY, 2000
    Window,         \* the 24 hours of the cap
    MaxTime         \* bound on the clock

Answers == {"yes", "no"}

ASSUME BatchesAssumption ==
    \A b \in Batches : b \in Seq([film : Films, seen : Answers]) /\ Len(b) <= BatchMax
ASSUME BoundsAssumption ==
    BatchMax \in Nat \ {0} /\ Cap \in Nat \ {0} /\ Window \in Nat /\ MaxTime \in Nat
ASSUME LibraryAssumption == Library \subseteq Films

VARIABLES
    now,        \* the clock
    seen,       \* user_movies.seen, "absent" when there is no row
    results     \* every swipe_results row ever committed

ledgerVars == <<now, seen, results>>

Results == [film : Films, at : Nat, by : Requests]

LedgerInit ==
    /\ now = 0
    /\ seen = [f \in Films |-> IF f \in Library THEN "unknown" ELSE "absent"]
    /\ results = {}
-----------------------------------------------------------------------------
(* Other writers of a row: imports, duels, "seen" on a suggestion *)

AddToLibrary(f) ==
    /\ seen[f] = "absent"
    /\ seen' = [seen EXCEPT ![f] = "unknown"]
    /\ UNCHANGED <<now, results>>

\* An import, a suggestion marked as seen and a decided duel answer "yes" whatever
\* the row says, and the first two insert it when there is none.  Only a duel
\* answers "no", and only about a film it was served because it was seen.
Classify(f, answer) ==
    /\ seen[f] # answer
    /\ answer = "no" => seen[f] = "yes"
    /\ seen' = [seen EXCEPT ![f] = answer]
    /\ UNCHANGED <<now, results>>

Tick ==
    /\ now < MaxTime
    /\ now' = now + 1
    /\ UNCHANGED <<seen, results>>
-----------------------------------------------------------------------------
(* One submission *)

Latest(t) == { result \in results : result.at + Window >= t }

\* The dict of a body: each film once, where it first appears ...
FilmsOf(b) == { i \in DOMAIN b : \A j \in 1..(i - 1) : b[j].film # b[i].film }

\* ... with the answer given last.
AnswerFor(b, f) ==
    b[CHOOSE i \in DOMAIN b : b[i].film = f /\ \A j \in DOMAIN b : b[j].film = f => j <= i].seen

\* The films of a body that a swipe may still classify.
Swipeable(b) ==
    { f \in { b[i].film : i \in DOMAIN b } :
        seen[f] # "absent" /\ \A result \in results : result.film # f }

\* Films classified otherwise by the time they are looked at are left out.
Submit(r, b) ==
    /\ Cardinality(Latest(now)) < Cap
    /\ \E chosen \in SUBSET Swipeable(b) : \E at \in [chosen -> 0..now] :
          /\ results' = results \cup { [film |-> f, at |-> at[f], by |-> r] : f \in chosen }
          /\ seen' = [f \in Films |-> IF f \in chosen THEN AnswerFor(b, f) ELSE seen[f]]
    /\ UNCHANGED now

LedgerNext ==
    \/ \E f \in Films : AddToLibrary(f) \/ \E answer \in Answers : Classify(f, answer)
    \/ \E r \in Requests, b \in Batches : Submit(r, b)
    \/ Tick

LedgerSpec == LedgerInit /\ [][LedgerNext]_ledgerVars
-----------------------------------------------------------------------------
(* Properties *)

\* A film is classified by swiping at most once: two tabs that submit the same
\* card do not both record it.
OneResultPerFilm ==
    \A x, y \in results : x.film = y.film => x = y

\* The cap is checked before a batch, so a window never holds more than the
\* cap and one batch less a row; the purge frees no room in it.
CapAndOneBatch == Cardinality(Latest(now)) <= Cap + BatchMax - 1
=============================================================================
