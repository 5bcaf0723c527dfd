------------------------------ MODULE DuelRules ------------------------------
(***************************************************************************)
(* What one duel does to the two user_movies rows it names, as pure        *)
(* operators: the rules of process_duel and apply_elo_result, shared by    *)
(* the abstract ledger (DuelLedger) and by the transaction-level           *)
(* specification (Duels).                                                  *)
(*                                                                         *)
(* A rating is abstracted to its provenance: a film's rating is the        *)
(* identity of the request whose duel produced it, or Unrated.  The        *)
(* numbers of the Elo formula are left out; which result was computed from *)
(* which is kept, and that is what a lost update would change.             *)
(***************************************************************************)
EXTENDS Naturals, FiniteSets

CONSTANTS
    Films,      \* movie ids; UUIDs are totally ordered, so naturals
    Tokens,     \* pair tokens the server can mint
    Requests,   \* HTTP requests, and with them the duels they record
    NoToken,    \* the token of a tournament match, which has none
    Unrated     \* elo IS NULL

ASSUME FilmsAssumption == Films \subseteq Nat
ASSUME TokensAssumption == NoToken \notin Tokens
ASSUME RequestsAssumption == IsFiniteSet(Requests) /\ Unrated \notin Requests

SeenValues == {"unknown", "yes", "no"}

\* A user_movies row, reduced to the columns a duel reads or writes.
Row == [seen : SeenValues, battles : Nat, rating : Requests \cup {Unrated}]

NewRow(watched) ==
    [seen |-> IF watched THEN "yes" ELSE "unknown", battles |-> 0, rating |-> Unrated]

Outcomes == {"a_wins", "b_wins", "a_only", "b_only", "neither"}

\* The body of one submission: a duel carries the pair token it answers, a
\* tournament match carries NoToken and is always decided.
Submissions ==
    { s \in [token : Tokens \cup {NoToken}, a : Films, b : Films, outcome : Outcomes] :
        /\ s.a # s.b
        /\ s.token = NoToken => s.outcome \in {"a_wins", "b_wins"} }

IsMatch(s) == s.token = NoToken
Pair(s) == {s.a, s.b}
Decided(s) == s.outcome \in {"a_wins", "b_wins"}

\* The films an undecided outcome says the user has not seen after all.
Disowned(s) ==
    CASE s.outcome = "a_only"  -> {s.b}
      [] s.outcome = "b_only"  -> {s.a}
      [] s.outcome = "neither" -> {s.a, s.b}
      [] OTHER                 -> {}

\* apply_elo_result on one row; a regular duel also marks the film seen.
Rated(row, s, r) ==
    [seen    |-> IF IsMatch(s) THEN row.seen ELSE "yes",
     battles |-> row.battles + 1,
     rating  |-> r]

\* Mutant of Unseen: the answer wins over the film's battles.
UnseenAlways(row) == [row EXCEPT !.seen = "no"]

\* The undecided branches of process_duel on one row: a film with battles
\* keeps its seen flag, whatever the user now says.
Unseen(row) ==
    [row EXCEPT !.seen = IF row.battles = 0 THEN "no" ELSE row.seen]

Kept(row) ==
    [row EXCEPT !.seen = IF row.seen = "unknown" THEN "yes" ELSE row.seen]

\* The row of film f after submission s is recorded as the duel of request r.
After(row, f, s, r) ==
    IF Decided(s) THEN Rated(row, s, r)
    ELSE IF f \in Disowned(s) THEN Unseen(row)
    ELSE Kept(row)
=============================================================================
