--------------------------- MODULE AtomicTournament ---------------------------
(***************************************************************************)
(* What one tournament promises: it is created, its matches are won one at *)
(* a time, it may be re-curated before the first of them, and it ends      *)
(* completed or abandoned.  Every operation happens in one step, on the    *)
(* tournament as it is at that moment.  Tournament.tla shows that the      *)
(* concurrent requests of routers/tournaments.py implement this.           *)
(***************************************************************************)
EXTENDS Bracket, FiniteSets

CONSTANTS
    Films,
    BracketSize,
    Lineups,        \* the film lists a bracket may be made from, best seed first
    MaxRegens,      \* regenerations allowed per tournament, 3
    MaxPurges       \* bound on the purges of one tournament's llm_response

ASSUME BracketSizeAssumption == BracketSize \in BracketSizes

\* A lineup half-fills the bracket (curate_and_select_films and
\* _reject_unfillable_bracket) and names no film twice.
ASSUME LineupsAssumption ==
    \A lineup \in Lineups :
        /\ lineup \in Seq(Films)
        /\ Len(lineup) <= BracketSize /\ BracketSize <= 2 * Len(lineup)
        /\ \A i, j \in DOMAIN lineup : lineup[i] = lineup[j] => i = j
ASSUME RegensAssumption == MaxRegens \in Nat /\ MaxPurges \in Nat
ASSUME NoFilmAssumption == NoFilm \notin Films

Matches == Places(BracketSize)
LastMatch == Final(BracketSize)

MatchRow ==
    [a : Films \cup {NoFilm}, b : Films \cup {NoFilm},
     winner : Films \cup {NoFilm}, bye : BOOLEAN]

\* The tournaments row and its matches.  Match ids are fresh after every
\* regeneration: generation tells the sets of matches apart.
TournamentRow ==
    [status : {"none", "active", "completed", "abandoned"}, curated : BOOLEAN,
     champion : Films \cup {NoFilm}, regens : Nat, generation : Nat,
     bracket : [Matches -> MatchRow]]

\* A match result as a client sends it: the match by its id, and who won.
Result(t, m, w) == [op |-> "submit", generation |-> t.generation, match |-> m, winner |-> w]

VARIABLES
    tournament, \* the tournament
    duels,      \* how many duels of mode "tournament" it has recorded
    purges      \* how often the retention purge has dropped its llm_response

atomicVars == <<tournament, duels, purges>>

Unborn ==
    [status |-> "none", curated |-> FALSE, champion |-> NoFilm, regens |-> 0,
     generation |-> 0, bracket |-> [m \in Matches |-> EmptyMatch]]

AtomicInit == tournament = Unborn /\ duels = 0 /\ purges = 0
-----------------------------------------------------------------------------
(* The checks *)

\* Mutant of ValidResult: a match that was won already may be played again.
ValidResultAgain(t, c) ==
    LET match == t.bracket[c.match] IN
    /\ t.status = "active"
    /\ c.generation = t.generation
    /\ match.a # NoFilm /\ match.b # NoFilm
    /\ c.winner \in {match.a, match.b}

\* validate_match
ValidResult(t, c) ==
    LET match == t.bracket[c.match] IN
    /\ t.status = "active"
    /\ c.generation = t.generation
    /\ Playable(match)
    /\ c.winner \in {match.a, match.b}

\* Mutant of MayRegenerate: played matches do not matter.
MayRegenerateAnytime(t) ==
    /\ t.status = "active"
    /\ t.curated
    /\ t.regens < MaxRegens

\* The early returns of regenerate_tournament.
MayRegenerate(t) ==
    /\ t.status = "active"
    /\ t.curated
    /\ \A m \in Matches : ~Played(t.bracket[m])
    /\ t.regens < MaxRegens

MayAbandon(t) == t.status = "active"
-----------------------------------------------------------------------------
(* The writes *)

Created(t, films, curated) ==
    [t EXCEPT !.status = "active", !.curated = curated,
              !.bracket = NewBracket(BracketSize, films)]

\* record_match_winner: the match, the slot it feeds, and after the final the
\* tournament.
Won(t, c) ==
    [t EXCEPT !.bracket = Decide(BracketSize, @, c.match, c.winner),
              !.champion = IF c.match = LastMatch THEN c.winner ELSE @,
              !.status = IF c.match = LastMatch THEN "completed" ELSE @]

Abandoned(t) == [t EXCEPT !.status = "abandoned"]

\* All matches are deleted and a new bracket is made; the count is written
\* from the one read before the LLM was called.
Recurated(t, films, regensRead) ==
    [t EXCEPT !.bracket = NewBracket(BracketSize, films),
              !.generation = @ + 1,
              !.regens = regensRead + 1]
-----------------------------------------------------------------------------
\* create_tournament inserts the row and all its matches in one transaction;
\* nobody has the tournament's id before that commits.
Create ==
    /\ tournament.status = "none"
    /\ \E films \in Lineups, curated \in BOOLEAN :
          tournament' = Created(tournament, films, curated)
    /\ UNCHANGED <<duels, purges>>

Win ==
    \E m \in Matches, w \in Films :
        LET c == Result(tournament, m, w) IN
        /\ ValidResult(tournament, c)
        /\ tournament' = Won(tournament, c)
        /\ duels' = duels + 1
    /\ UNCHANGED purges

Abandon ==
    /\ MayAbandon(tournament)
    /\ tournament' = Abandoned(tournament)
    /\ UNCHANGED <<duels, purges>>

\* The count is kept in llm_response.  A purge that empties it while a
\* regeneration has it in hand does not undo what that one writes: it may then
\* read more than is there, never less.
RegensRead ==
    {tournament.regens}
        \cup IF purges = 0 THEN {} ELSE tournament.regens..(MaxRegens - 1)

Regenerate ==
    /\ MayRegenerate(tournament)
    /\ \E films \in Lineups, regensRead \in RegensRead :
          tournament' = Recurated(tournament, films, regensRead)
    /\ UNCHANGED <<duels, purges>>

\* The nightly purge, of a tournament old enough, takes no advisory lock.
PurgeLlmResponse ==
    /\ purges < MaxPurges
    /\ tournament.regens > 0
    /\ tournament' = [tournament EXCEPT !.regens = 0]
    /\ purges' = purges + 1
    /\ UNCHANGED duels

AtomicNext == Create \/ Win \/ Abandon \/ Regenerate \/ PurgeLlmResponse

AtomicSpec == AtomicInit /\ [][AtomicNext]_atomicVars
-----------------------------------------------------------------------------
(* Properties *)

Match(m) == tournament.bracket[m]

\* Every later match holds exactly the winners of the two matches that feed
\* it, so the bracket a user sees is a tournament (_advance_winner_to_next_round).
SlotsAgree ==
    tournament.status # "none" =>
        \A m \in Matches : m[1] > 1 =>
            /\ Match(m).a = Match(<<m[1] - 1, 2 * m[2]>>).winner
            /\ Match(m).b = Match(<<m[1] - 1, 2 * m[2] + 1>>).winner

\* No film is in two matches of one round, or plays itself, whatever a client
\* submits, and however often the bracket is drawn again: the pairings name
\* every seed once, and only a winner moves on, to one match
\* (generate_seeded_bracket, record_match_winner).
OneMatchPerRound ==
    \A m, k \in Matches : m[1] = k[1] =>
        /\ Match(m).a = Match(m).b => Match(m).a = NoFilm
        /\ m # k => {Match(m).a, Match(m).b} \cap {Match(k).a, Match(k).b} \subseteq {NoFilm}

\* A tournament is completed if and only if its final is decided, and the
\* champion is who won it: an abandon never lands on a decided final (SEC-19).
CompletedByFinal ==
    /\ tournament.status = "completed" <=> Match(LastMatch).winner # NoFilm
    /\ tournament.champion = Match(LastMatch).winner

\* One duel per played match: no match rates its films twice, and no rated
\* match is wiped from the bracket.
DuelPerMatch ==
    duels = Cardinality({ m \in Matches : Played(Match(m)) })

\* Each curation that replaces the first one is counted (SEC-02), parallel
\* regenerations never share a count, and MaxRegens of them is the limit until
\* the retention purge drops the count, from then on once more per purge.
RegensCounted ==
    /\ tournament.regens <= MaxRegens
    /\ tournament.generation <= tournament.regens + purges * MaxRegens
    /\ purges = 0 => tournament.generation = tournament.regens

\* A result the user has entered stands: no regeneration that was under way
\* wipes it and no second submission replaces it (#692).
ResultsStand ==
    [][\A m \in Matches :
          Played(Match(m)) => Match(m)' = Match(m)]_atomicVars

ButRegens(t) == [t EXCEPT !.regens = 0]

\* Once completed or abandoned a tournament never changes, but for the purge
\* of its LLM payload (SEC-19, #587).
EndedIsFrozen ==
    [][tournament.status \in {"completed", "abandoned"} =>
          ButRegens(tournament') = ButRegens(tournament)]_atomicVars
=============================================================================
