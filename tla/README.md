# FilmDuel in TLA+

Specifications, model-checking configurations and machine-checked proofs for the
server of FilmDuel (`src/backend`): duels between films, tournaments, swiping, and
what shares their rows.  The reference is the code; `PROJECT.json` maps each
definition to the lines it models.

    tlasany M.tla                       parse
    tlc -workers 2 -config X.cfg M      model-check
    tlapm XProofs.tla                   check the proofs about module X

## 1. The system

FilmDuel is one FastAPI process on one asyncio loop, SQLAlchemy sessions on a small
connection pool (3 + 2), PostgreSQL at READ COMMITTED, and a React client.  Each
request has one session (`db.py: get_db`); it commits when the handler has returned
and rolls back on any error.  Row locks (`FOR UPDATE`) and transaction-scoped advisory
locks therefore last until that commit.  Background tasks run afterwards on sessions of
their own.  A nightly job purges old rows.

### Components

| Component | State | Operations | Interacts with | Hard part | Correct when |
|---|---|---|---|---|---|
| Duel submission (`routers/duels.py`, `services/duel.py`) | `user_movies` (seen, battles, elo), `duels`, `duel_history` | `POST /api/duels` | pair tokens, retention, rating sync | concurrent read-modify-write of two rows, retries after a lost answer, lock order | no rating update lost, a token applied once, battles = decided duels, a ranked film is seen |
| Pair selection, tokens (`pair_selection.py`, `tokens.py`, `routers/movies.py`) | none (the token is the state) | `GET /api/movies/pair` | duels | token lifetime against the digest index | only seen films are served; an expired token is refused |
| Tournaments (`routers/tournaments.py`, `services/tournament.py`) | `tournaments`, `tournament_matches` | create, regenerate, submit a match, abandon | curator, duels, retention | an LLM call inside a transaction, staleness of what was read before it | results stand, ended tournaments are frozen, one duel per match, regenerations counted |
| Bracket and seeding | pure | sizes, pairings, byes, advancing | tournaments | boundaries of the tables | every offered bracket can be finished; byes to the top seeds |
| Curator, LLM client (`curator.py`, `llm.py`) | slots in memory | `chat_completion` | tournaments, suggestions, the connection pool | fail-fast slots against the connection pool | at most two calls; no request waits for ever |
| Swipe (`routers/swipe.py`) | `user_movies.seen`, `swipe_results` | cards, submit results | duels, imports, expansion, retention | cap under parallel batches, unlocked reads | a film classified once, the cap |
| Title pool import (`pool.py`, `routers/users.py`) | `movies`, `user_movies`, `users.pool_import_*` | consent, retry, sync | providers, tokens | background task, restart, superseded runs, lock order | one import at a time; the status tells the truth |
| Pool expansion (`expand.py`) | `pool_expansions`, `user_movies` | background refill after a swipe | swipe, providers | try lock, cooldown, what the user does meanwhile | a source is used once a week; nothing in the library changes |
| Suggestions (`routers/suggestions.py`, `suggest.py`) | `suggestions`, empty-answer cooldown in memory | get, regenerate, dismiss, seen, watchlist | LLM, duels, tokens | two generators, freshness read before the lock, dismissals before the call | one generation per stale period, the cap, a failure loses no card |
| Provider tokens, rating sync (`token_refresh.py`, `sync.py`) | token columns of `users` | refresh, push ratings | duels, import, suggestions, retention | one-use refresh tokens | no refresh token used twice by those that lock |
| Encryption, rotation (`token_crypto.py`, `db_models.py`, `scripts/reencrypt_tokens.py`) | ciphertexts | rotate on read, re-encrypt | everything that reads a token | write-back at commit | never overwrites a newer token; all is readable to the end of a rotation |
| Sessions (`routers/auth.py`) | cookie, `tokens_invalid_before`, `last_seen_at` | sign-in, check, re-issue, logout | all, retention | a request in flight at logout, three clocks | a session lasts up to its cap and no longer |
| Retention (`retention.py`, `scheduler.py`) | all tables | eight purges | every component that keeps rows | deletes what others rely on | see the component purged |
| Feedback (`routers/feedback.py`) | `feedback_reports` | submit, delete | retention | cap | 20 a day |
| Rejection alert (`duel_rejections.py`) | timestamps in memory | `record` | duels | window and cooldown | one alert per window |
| Elo, percentile ratings (`elo.py`, `rankings.py`) | pure | `update_elo`, `percentile_rating` | duels, sync | rounding at decile edges | monotone, 1 to 10 |
| Rankings, export, HTTP shell, rate limits, provider clients, migrations, frontend | read-only or I/O | | | | not modelled |

Section 6 says of each part that is left out why.

## 2. Modules

| Module | Models | State and actions |
|---|---|---|
| `DuelRules` | what one duel does to a `user_movies` row | operators; a rating is the identity of the duel that produced it, so that a lost update shows |
| `DuelLedger` | what duels promise: atomic, once per token | `row`, `entry`; `Record`, `MarkSeen` |
| `Duels` | the transactions behind `POST /api/duels` and the row half of a match | clock, tokens, rows, row locks, a program counter per request; one action per await that touches the database: `Arrive`, `Decode`, `LockFirst`, `LockSecond`, `Flush`, `Commit`, `Abort`, and `IssueToken`, `MarkSeen`, `PurgeOldDuels`, `Tick` |
| `MCDuels`, `DuelsProofs` | instance; theorems about `Duels` | |
| `Seeding`, `Bracket` | bracket sizes, seeding tables, byes, advancing | operators |
| `ChalkPlay` | every offered bracket, the better seed always winning | `bracket`; `PlayNext` |
| `AtomicTournament` | what a tournament promises, every operation one step | `tournament`, `duels`, `purges`; `Create`, `Win`, `Abandon`, `Regenerate`, `PurgeLlmResponse` |
| `Tournament` | concurrent requests under the advisory lock, the LLM call included | adds `holder`, `pc`, `call`, `reading`, `lineup`; `Arrive`, `Acquire`, `Busy`, `Load`, `Refuse`, `Curated`, `CommitResult`, `CommitAbandon`, `CommitRegenerate`, `Abort` |
| `SwipeLedger` | what swiping promises: a submission is one step | `now`, `seen`, `results`; `Submit`, and the other writers of `seen`: `AddToLibrary`, `Classify`; `Tick` |
| `Swipe` | `POST /api/swipe/results`, query by query | adds `lock`, `holder`, `pc`, `batch`, `start`, `todo`, `written`; `Arrive`, `Acquire`, `Refuse`, `Accept`, `Select`, `Update`, `Commit`, `Abort` |
| `PoolImport` | consent, withdrawal, retry, sign-in and manual sync, and the imports they start | the consent and import columns of `users`, a bag of requests with the columns they loaded, a record per run; `Load`, `AcceptFirst`, `AcceptAgain`, `WithdrawConsent`, `RetryPoolImport`, `SyncProviders`, `SignIn`; `Fetch`, `Upsert`, `Leave`, `FinishRun`, `Raise`, `RecordFailure`; `Tick`, `Deploy`, `DeleteAccount`, `PurgeUnconsentedAccount` |
| `PoolImportProofs` | theorems about `PoolImport` and about the row locks imports take (`RowLocks`) | |
| `RowLocks` | which rows duels, matches, swipes and imports lock, and in what order | `running`, `locked`, `owner`; `Begin`, `Lock`, `Commit`, `Victim` |
| `SuggestionLedger` | what suggestions promise: a generation is one step, and due when it takes effect | `now`, `batches`, `cooling`; `Refreshes`, `Regenerates`, `Dismiss`, `Tick` |
| `Suggestions` | the handlers, the LLM client and the connection pool | adds `holder`, `marked`, a program counter per request; `Refresh`, `Outrun`, `LockStale`, `Regenerate`, `NothingToAsk`, `Curate`, `Call`, `NoSlot`, five replies, `OpenCard`, `WriteCard`, `NoCard`, `Ineligible`, `Abort` |
| `Tokens` | refreshes of one-use provider tokens, and the rotation of the key they are stored under | the encrypted columns, what the provider still takes (`live`), the row lock, the columns each task loaded; `Load`, `LockRow`, `Settle`, `Refreshed`, `Refused`, `Exchange`, `Flush`, `Commit`, `Abort`; `Lapse`, `PurgeDormantTokens`; `ScriptRead`, `ScriptSwap`, `ScriptCommit`, `ScriptAbort`, `Deploy` |
| `Expansion` | one background refill: try-lock, sources, cooldown, one transaction | `library`, `records`, `holder`, per run its plan position and what it has added; `Trigger`, `Lose`, `Begin`, `Skip`, `Fetch`, `FetchFails`, `Commit`, `Abort`, and `Classify` for the user |
| `Sessions` | the life of a session and the purge that must spare it | a cookie per device, a request in flight per device, `invalidBefore`, `lastSeen`; `SignIn`, `Check`, `Reject`, `RejectAtCap`, `Answer`, `AnswerWithoutCookie`, `Logout`, `CommitLogout`, `RefreshTokens`, `PurgeDormantTokens`, `Tick` |
| `TournamentProofs` | theorems about `Tournament` and `ChalkPlay` | |
| `SwipeProofs`, `SuggestionsProofs`, `TokensProofs`, `ExpansionProofs`, `SessionsProofs` | theorems about the module of that name | |
| `MCSwipe`, `MCTournament`, `MCRowLocks`, `MCSuggestions`, `MCExpansion`, `MCSessions` | instances | |

`Duels` EXTENDS `DuelRules` and instantiates `DuelLedger`; `Tournament` EXTENDS
`AtomicTournament`, which EXTENDS `Bracket` and `Seeding`; `ChalkPlay` EXTENDS
`Bracket`; `Swipe` EXTENDS `SwipeLedger`, and
`Suggestions` `SuggestionLedger`.  `RowLocks` composes the lock footprints of three components; `Suggestions`
composes the routes of suggestions with the LLM client, the connection pool and the
curations that compete for both; `Tokens` composes the five users of the token columns
with the encryption underneath.

Definitions named `...Ignored`, `...OffByOne` and the like, commented as "Mutant of",
are plausible bugs; each property fails when its mutant takes the definition's place.

### Abstractions

* One user: every row, lock, token and cap is keyed by the user (a tournament by its
  id), and no operation crosses users.
* A transaction's writes appear at its commit (READ COMMITTED), its locks go then too.
  Locks taken by the commit of what was only read are not needed: reads that matter are
  under the locks shown.
* Any failure — an exception, a film that is not in the pool, a dropped connection, a
  restart of the process — is `Abort`: the transaction is rolled back and its locks go.
* In `Duels` ratings have no numbers.  Elo's arithmetic cannot change which rating was
  computed from which, and that is what interleaving could break.
* In `Duels` only duels and "seen" on a suggestion write `seen`.  A swipe or an import
  can write it too (`Swipe`); `RankedIsSeen` is a statement about duels alone.
* In `PoolImport` a source is a provider's lists for one media type: what matters is
  whether all of them arrived and whether what arrived is committed.  How long an account
  was idle before the purge of unconsented accounts is left out, so that the purge may
  strike sooner than the code's.
* SQLAlchemy sends the columns whose value changed since they were loaded (`Flush`); two
  requests that load the same row therefore overwrite each other column by column.
* A tournament match is a submission without a token in `Duels`, and one step of
  `duels` in `Tournament`.
* A regeneration that read its row before a purge commits the count it read.  In
  `AtomicTournament`, where it is one step, it may therefore have read more regenerations
  than are there once a purge has run, never less (`RegensRead`).
* In `Swipe` a request keeps the positions of the body it still has to look at: the
  first of each film.  The order of films is the body's, the answer is the last one given
  for a film, as in the dict the handler builds.
* The LLM answers with any lineup that passes the checks, or fails.
* In `Suggestions` a batch stands for its cards: it is active while one of them is not
  dismissed, which is what freshness, the cap and the page tell apart.
* In `Tokens` a grant is a number and a ciphertext is a grant and a key: the ciphers are
  ideal.  Screenshots go through the same rotation and have one writer; they are left out.
* In `Expansion` titles are fetched and inserted in one step, their catalog rows are
  there already, and the poster backfill that follows the commit is left out.  A failure
  at TMDB reaches the caller as an empty list, which `Fetch` includes and records, so
  that a source that failed there is not asked again for a week; the code does the same.
* In `Sessions` a device has one request in flight at a time.  A tick is less than the
  second to which `iat` and `exp` are truncated, so that the truncation shows.
* Postgres is modelled by what the code relies on: `FOR UPDATE` waits, a unique index
  refuses, a cycle of waiters loses one.

### Assumptions on the constants

* `Duels!RetentionAssumption`: a duel is kept at least as long as its token is accepted
  and a request takes (180 days against 15 minutes).  The setting has no lower bound in
  `config.py`; without this assumption `AtMostOncePerToken` is false.
* `Duels!Tick` lets no request outlive `RequestLifetime`: the server's timeouts.
* `AtomicTournament!LineupsAssumption`: a lineup half-fills the bracket and repeats no
  film, as `curate_and_select_films` and `_reject_unfillable_bracket` check.
* `Swipe!RetentionAssumption`: results outlive the 24-hour window.
* `PoolImport!WorstCaseAssumption`: a recorded run ends within the 20 minutes after which
  it is taken for dead, as the comment on `POOL_IMPORT_STALE_AFTER` demands ("~13
  minutes"); `Tick` waits for such runs.
* `PoolImport!SignIn`: the transaction of a sign-in ends before its background sync begins.
  The callback flushes and leaves the commit to `get_db`; if the framework ran background
  tasks before that commit, the sync would read the old row and wait for the lock the
  sign-in holds.  The framework is not in the repository, so this stays an assumption.
* `SuggestionLedger!PastAssumption`: the batches there at the start were written by the same
  handlers, so they keep the two promises that `OnlyWhenStale` and `RegenCap` state.
* `Suggestions!SlotsAssumption` is what `llm_slots_below_pool_capacity` (`config.py`)
  enforces; `SuggestionLedger!RetentionAssumption` says that batches outlive the day in which they count.
* `Sessions!DormantAssumption` is the validator at `config.py:388`: accounts become
  dormant later than a session ends.  `LiveSessionKeepsTokens` is false without it.
* `Sessions!Latency`: `Tick` waits for a request that has read its row, so that such a
  request ends within `Latency`.  A logout whose UPDATE waits for a row lock is not held
  to it.
* `Sessions!DurationsAssumption` also says that the re-issue interval is longer than the
  part of a second that `iat` loses; `StaysSignedIn` needs it.
* `Expansion!RankingsAssumption` only says that a ranking is a sequence of ids.  Each run
  finds some ranking of its own; an id may stand in it twice, since the schema does not
  make it unique and a film and a show may share one.
* `RowLocks!DisjointAssumption`: a film in a duel was seen, a film in a swipe was not
  classified, and `seen` never returns to NULL.  A film that is classified by an import
  between a batch's SELECT and its UPDATE, and then dueled, is both (the window of
  `Swipe!OnlyUnclassified`); such films are left out.
* `RowLocks!SlotsAssumption`: transactions are finitely many at a time; the pool has
  five connections.

## 3. Model checking

| Run | Question | Instance | Distinct states |
|---|---|---|---|
| `Duels_submission` | Do concurrent, retried, aborted, purged submissions corrupt anything, do the transactions implement the ledger, and does every request end? | 3 films, 2 tokens, 2 requests, 5 bodies, clock to 3 | 154 k |
| `ChalkPlay_brackets` | Is every offered bracket playable and seeded? | pools of 4 to 70 films, all sizes | 2,130 |
| `Tournament_races` | Do races on one tournament lose anything, and does every request act in one step? Is every film in one match of a round? | bracket of 8 with 4 or 5 films, 2 requests, 2 regenerations, a purge | 0.8 M |
| `Swipe_cap` | What do parallel batches do to films and cap, and does each act in one step? | 4 films, 3 requests, batches of 2, cap 2 | 1.8 M |
| `PoolImport_status` | Is the import status true, does it settle, and is nothing imported without consent? | 2 requests, 2 imports of 2 sources, a deploy, stale after 1 | 0.6 M |
| `RowLocks_order` | Who can be in a deadlock, and does every transaction end? | 5 films, 3 transactions | 6 k |
| `Suggestions_generation` | Does a generation act in one step, when it is due and within the cap, does a failure lose nothing, does every request end? | a GET, 2 regenerations, a card action and a curation; 1 slot, 3 connections, cap 2, clock to 2 | 184 k |
| `Tokens_rotation` | Does what is stored stay live and readable across refreshes and a key rotation? | a sync, a watchlist push, an import, a sign-in, the script, 2 deploys, the purge | 4.7 M |
| `Expansion_cooldown` | Is a source used once per cooldown, shared ids apart, and is the library only added to? | 3 titles, 2 runs, target 2, plans of 5 and 3 steps, rankings with and without a shared id, clock to 2 | 1.7 M |
| `Sessions_lifetime` | How long does a session last, and does it keep its provider tokens? | 2 devices, clock to 8, expiry 4, re-issue after 1, cap 6, dormant after 7 | 4.0 M |

Two more runs, `ChalkPlay_standard` and `Suggestions_room`, must fail: see below.
The type invariants are not listed in the configurations: those of `Duels`, `Tournament`,
`Swipe`, `PoolImport`, `RowLocks` (`OrderTypeOK`), `Suggestions`, `Tokens`, `Expansion`
and `Sessions` are proved, and each
module's `TypeOK` can be added to its run as it is.  So can `OneResultPerFilm`,
`OnlyWhenStale` and `EndedIsFrozen`, which are proved (section 4) and which the refinements
`BatchesAreAtomic`, `GenerationsAreAtomic` and `RequestsAreAtomic` of these runs contain.

Bounds.  Two requests of a duel give every pair of rivals: retries, a winner and a
loser of each row lock and of the index (the theorems of section 4 are about any
number); three films give pairs that overlap in one film and pairs that are the same; two tokens, one
of them submitted with the wrong films, give retries, mixed-up pairs and rivals.  The
clock of `Duels` is long enough for a token to expire and for its duel to be purged
with a retry on its way.  A bracket of eight with four films is all byes in round one,
with five it has one real match there, and the bracket can be played in any order its
rounds allow; the larger brackets are played in one order by `ChalkPlay_brackets`.  Two
regenerations let a purge empty a count that a regeneration holds.  Clients submit
matches that were playable when they looked; other requests are refused by the same
checks.  A swipe cap of two with batches of two lets a batch start below the cap and
end above it.  Symmetry is used for requests and transactions, in runs of safety
properties only.  Two imports let
one supersede the other or be retried after a deploy; two sources let the first be
committed and lost lists be remembered while the second is fetched; with a worst case of
one tick time passes while a run is going on.  In `Suggestions` a batch of four days
ago is stale and about to be purged, one of yesterday is about to go stale and counts
against the cap; with one slot and three connections a call, a request behind its rows
and one more fill the pool; the other numbers are small so that the day, the cooldown
and the cap all run out within three ticks.  In `Tokens` one task of each kind is
enough for every pair of a task that locks with one that does not, and for two that lock.
In `Expansion` two runs race for the lock, use it one after the other, or expand both
media at once; the cooldown runs out within the clock.  In `Sessions` the clock passes
the cap and the dormancy of a session that began at 0, the expiry is two seconds of two
ticks, and a session is re-issued up to three times before its cap.  `MaxTime`, `MaxPool`, `MaxPurges`,
`MaxRuns`, `MaxRestarts` and `MaxRequests` bound counters; nothing
else is cut off.  Deadlock is checked in `Tournament_races`, `PoolImport_status` and `RowLocks_order`; the other instances may stop (all requests ended, the clock at its bound, the final won).

Fairness.  `Duels` has weak fairness of each step of a request that has begun: the loop
schedules it, and a row lock it waits for is freed by a transaction under the same
assumption.  Nothing is assumed of clients, the clock, or the purge, and `Abort` is not
fair.  `RowLocks` has strong fairness of taking a lock, because Postgres serves the
waiters of a row in turn, and weak fairness of commits and of the deadlock detector.
`EveryTransactionEnds` needs the detector; `EveryRequestEnds` does not, which is what
the sorted lock order is for.

`PoolImport` has weak fairness of each run's next step (the loop schedules it, every HTTP
call has a timeout) and of time; a deploy may kill any run, and nothing is assumed of
requests.

`Suggestions` has weak fairness of each request's next step, the reply of the LLM
included, which `LLM_TIMEOUT_SECONDS` bounds.  It is weak fairness of the request and
not of a choice: no branch is promised.  Time need not pass.  `Tokens`, `Expansion` and
`Sessions` state safety only.

What is shown, in words: a pair token is applied at most once; no rating update is
lost; battles count decided duels, purged ones included; 409 is only answered when the
duel is recorded; no result of a tournament is wiped by a regeneration under way, no
match rates twice, no film is in two matches of a round, an ended tournament is frozen, and across the LLM call a request acts
as if it were one step; every offered bracket can be finished; a film is swiped once,
the cap is overrun by less than one batch, and a batch acts as if it were one step; duels and swipes do not deadlock each other; an import's outcome is recorded only under
its own stamp, "complete" means that some run fetched and stored everything, a killed
import becomes retriable, and nothing is imported for a user who never consented or kept
after deletion; suggestions are generated in one step, once per stale period however many tabs ask,
no more often than the cap allows, not while an empty answer cools down, and a failed
regeneration leaves the cards as they were; no two tasks that lock the row spend one
refresh token, and neither a rotation on read nor the script puts back a token that
was replaced; what is stored can be read under the keys deployed to the end of a
rotation; a source of titles is used once a week, whoever loses the try-lock or aborts, but for an
id that two titles share;
a session ends at its cap, over any number of re-issues and whatever is in flight, a
device used every 60 hours stays signed in until then, and its account keeps its
provider tokens.

### Where code and documents disagree

Two of them are runs that TLC must find violated.

* `ChalkPlay_standard`: brackets of 32 and 64 put seeds 1 and 2 in one half, so they
  meet in the semi-final.  "Standard tournament seeding" (`services/tournament.py:102`)
  would have them meet in the final only; 8 and 16 do.
* `Suggestions_room`: "the cap must leave at least one connection free for everything
  else" (`config.py:301`).  A regeneration flushes its dismissals before it calls the
  LLM, so the rows of the dismissed cards stay locked during the call, and requests on
  those cards wait for them, each with a connection of the pool.  The page keeps the
  cards and their buttons (`frontend/src/pages/Suggestions.jsx`) while it waits.  `EveryRequestEnds` holds all the same: the
  call ends by its timeout.

The others are definitions under "A promise the code breaks" in their modules.  No run
lists them; TLC refutes each when it is added to the run of its module.

* `Swipe!OnlyUnclassified`: the swipe handler reads "unclassified" without a lock and
  updates by key, so what a duel, an import or a suggestion wrote in between is written
  over, where "Only titles still unclassified in the user's library SHALL be updated;
  others SHALL be skipped" (`openspec/specs/swipe/spec.md:39`).  The window is as long as
  an import's transaction when that holds the row.  `SwipeLedger!Submit` allows it, so
  `BatchesAreAtomic` does not speak of it.
* `Expansion!NeverRepeated`: "Pool expansion SHALL NOT repeat a source for the same key
  within 7 days" (`openspec/specs/title-pool/spec.md:92`).  A run looks each key up in the
  cooldowns it read when it began.  The ten best titles are films and shows alike and may
  share a TMDB id; the run then asks for it, and records it, twice.  `OncePerCooldown`
  states what does hold: there is no other repetition.
* `PoolImport!ImportNeedsCurrentConsent`: a sign-in re-imports the library if any policy
  version was ever accepted and not withdrawn; the specification asks for the current
  version.
* `PoolImport!RunningIsReported`: the status "importing" is not sent when the row was
  loaded as "importing".  If the run before records its outcome between a
  re-acceptance's load and its commit, the new import is reported under the old outcome
  until it ends.
* `RowLocks!DuelsNeverDeadlock`: imports lock `user_movies` rows in provider order, so
  the sorted order of duels does not keep them out of deadlocks.
* `Suggestions!AutomaticNotCounted`: "Automatic refreshes SHALL NOT count" against the
  cap (`openspec/specs/ai-suggestions/spec.md`), and `_over_regen_cap` counts every
  timestamp of the last 24 hours, those of automatic refreshes included.
* `Sessions!LogoutRevokesEverySession`: a logout "invalidates every session the user
  holds" (`openspec/specs/authentication/spec.md:60`).  A request that was checked
  before the logout was committed re-issues its cookie afterwards; when a second has
  begun since the logout took its time, the new `iat` is later than
  `tokens_invalid_before` and the session goes on.  The window is widest when the
  logout's UPDATE waits for the row, which a token refresh keeps locked through its
  call to the provider.

Smaller ones, seen while modelling.  `CapAndOneBatch` cannot be tightened to the cap: a
batch that crosses the daily cap is recorded whole, where
`openspec/specs/swipe/spec.md:39` refuses it whole.  `RegensCounted` speaks of purges:
the retention purge empties the column that holds the count of regenerations, so "Max 3
regenerations" (`routers/tournaments.py:311`) holds per retention period.
`SerializedRefreshes` excepts what an import has spent: the import and the sign-in
refresh or store without the lock that "Concurrent refreshes for one user SHALL NOT
race" (`openspec/specs/authentication/spec.md:69`) asks for.  A sign-in within the second
of a logout is rejected at its first request, because its `iat` is cut to the second
in which the logout took its time; two logouts that commit out of order leave the
earlier time in the row.  A regeneration that gets no usable pick commits its
dismissals, so the user is left without cards.  An expansion stops between sources, not
between titles, so it may add more than its target.

## 4. Proofs

`DuelsProofs` proves, for every set of films, tokens and requests, every body and
every value of the times that meets the assumptions above:

| Theorem | Says |
|---|---|
| `TypeCorrect` | `Spec => []TypeOK` |
| `NoLostRating` | `Spec => []RatingChain` |
| `BattlesAreDuels` | `Spec => []BattlesCountDuels` |
| `RankedStaysSeen` | `Spec => []RankedIsSeen` |
| `DuelsApplyOnce` | `Spec => []AtMostOncePerToken` |
| `ConflictsAreTrue` | `Spec => []ConflictIsRecorded` |
| `DuelsImplementLedger` | `Spec => LedgerImplemented` |

The argument.  Types come first.  The next invariant ties locks to reads: a request that
has got past a lock owns that row, and what it read there is what the row still holds;
duels are exactly the requests that ended recorded.  With it a commit computes from
the present rows, so the new rating is fresh (a request's identity is used once) and each
earlier duel's starting point differs from it: that is the chain.  The counter follows
by counting the same step in a finite set, and the seen flag because the rules raise
battles and rating together and never clear the flag of a film with battles.  For
`DuelsApplyOnce` the invariant speaks of time: a request that was let through carries a
token still young when it arrived, it ends within `RequestLifetime`, and a purged duel is older
than both, so while such a request runs the duel that spent its token is
still in `duels`, where the index finds it; two requests past the index exclude each
other because a token names one pair, and they hold its locks.  The refinement maps a
ledger entry to a recorded request with the rows it read; `Commit` is `Record`,
`MarkSeen` is itself, and everything else, the purge included, is a stutter.
`ConflictsAreTrue` needs no lock: a 409 is answered to a request whose digest was taken
in `duels`, and whoever took it ended recorded, which a purge does not undo.

`TournamentProofs` proves, for every bracket size that is offered (4 to 64), any pool
and lineups, any caps, and any number of requests and purges:

| Theorem | Says |
|---|---|
| `TypeCorrect` | `Spec => []TypeOK` |
| `RacesAreAtomic` | `Spec => RequestsAreAtomic`: requests implement `AtomicTournament` |
| `FinalCompletes` | `Spec => []CompletedByFinal` |
| `MatchesAreDuels` | `Spec => []DuelPerMatch` |
| `RegensAreCounted` | `Spec => []RegensCounted` |
| `WinnersMoveOn` | `Spec => []SlotsAgree` |
| `OneMatchEach` | `Spec => []OneMatchPerRound` |
| `EveryFilmOpensOnce` | a new bracket of any size has every film of its lineup in exactly one opening match |
| `PlayedStays` | `Spec => ResultsStand` |
| `EndedStays` | `Spec => EndedIsFrozen` |
| `NothingStuck` | `Spec => []ActiveIsPlayable`: an active tournament has a match to play |
| `ChalkGoesOn` | `ChalkSpec => []NeverStuck` (`ChalkPlay`) |
| `ByesAreEarned` | `ChalkSpec => []ByesToTopSeeds` (`ChalkPlay`) |

The argument.  First the geometry of brackets: every match but the final feeds one
match, its winner goes to one of two slots there, and no other match writes that slot
(`Feeders`, `Feeding`, `FeedsOnly`).  Each table of pairings names every seed once: the
written ones by inspection, the two doubled ones because doubling a seeding gives a
seeding (`DoubledIsSeeding`), so a new bracket has every film of the lineup in one match
(`EveryFilmOpensOnce`) and a first round in which a bye faces a film (`NewBracketSound`).
Deciding a match keeps the bracket sound, plays that match and no other (`Decided`), and
moves its winner to the one slot it feeds: a film is in two matches of a round only if it
was in two matches of the round before (`OnceInEveryRound`).  `AtomicInv` adds the counts:
duels are the matches played, and every regeneration is in the row's count or was
dropped by a purge.  The races come down to `RequestInv`: a request is in its
transaction if and only if it holds the lock, it passed its checks, and what it read
then is what the row is now, except that a purge may have emptied the count.  So the
checks would pass again at the commit, and the commit is the atomic operation; all other
steps stutter (`StepIsAtomic`).  The promises of `AtomicTournament` then hold of
`Tournament`.  `NothingStuck` is an induction over the at most six rounds: with nothing
to play, a round is decided because the one before it is, and so is the final.  All of
the geometry is stated for any of the five sizes and any set of films, so the same lemmas
serve `ChalkPlay` (`ChalkInv`): its bracket stays sound, hence never stuck
(`UndecidedIsPlayable`), and since at most half of its places are byes each bye has a
film, and the films without an opponent are seeds 1 to `size - films`.

`SwipeProofs` proves, for any films, requests, batches, cap, window and retention that
meets the assumption:

| Theorem | Says |
|---|---|
| `TypeCorrect` | `Spec => []TypeOK` |
| `SwipedOnce` | `Spec => []OneResultPerFilm` |
| `CapKept` | `Spec => []CapAndOneBatch` |
| `HandlerIsAtomic` | `Spec => BatchesAreAtomic`: the handler implements `SwipeLedger` |

The argument (`SwipeInv`).  The holder of the advisory lock is alone between counting
and committing.  A film with a result has an answer, and although others write `seen`
without the lock, nobody writes NULL back: so what the SELECT finds unclassified has no
result, and gets none until the holder's commit.  The positions a request looks at are
of different films, so it writes none twice.  Results are kept at least as long as the
window in which they count, hence what is counted includes the latest window, which can
only shrink until the commit: there was room for one more, and rows written and
positions left together never exceed a batch.  `HandlerIsAtomic` needs both halves at the
commit: the rows a request has written are its own, of films that have a row and still no
result, so the commit is one `Submit` (`CommitIsSubmit`); a refusal or an abort is a
stutter, because nothing written is visible before (`StepIsLedger`).

`SuggestionsProofs` proves, for any requests, slots, pool, caps and times that meet the
assumptions:

| Theorem | Says |
|---|---|
| `TypeCorrect` | `Spec => []TypeOK` |
| `RefreshesAreDaily` | `Spec => []OnlyWhenStale` |
| `RegenerationsCapped` | `Spec => []RegenCap` |
| `NoCallUnderWindow` | `Spec => []NoCallWhileCooling` |
| `CardsKept` | `Spec => KeptOnFailure` |
| `GenerationIsAtomic` | `Spec => GenerationsAreAtomic`: the handlers implement `SuggestionLedger` |

The argument (`SuggestionsInv`).  Whoever generates holds the advisory lock, and found
under it that no batch of that medium is fresh, or that the cap has room.  Only the
holder adds a batch, so both are still so at its commit: the clock makes batches older,
and what the purge hides from a request is too old to count (`Stale <= Retention`).
`batches` is the whole history, what was purged included: a batch is added behind all
others (`OneMoreBatch`), and dismissing its cards changes neither dates nor order
(`HistoryKept`).  Only the holder opens a cooldown, after its own call.  Dismissals are
committed by requests that answer, and by no other step (`CardsKept`).  The ledger asks for more at
a commit than the invariant of the lock gives: that nothing the regeneration was to
replace is still shown.  `MarkedInv` says so: what it marked before the call is of its
media, and while it holds the lock nothing else comes to be shown, since only it could
add a batch, a dismissal is for good and the purge only hides (`MarksKept`).  Hence a
reply is one `Refreshes` or `Regenerates` (`GeneratesIsLedger`), a card written one
`Dismiss`, and every other step a stutter.

`PoolImportProofs` proves, for any number of requests, sources, runs and deploys and
any times with `WorstCase <= StaleAfter`:

| Theorem | Says |
|---|---|
| `TypeCorrect` | `Spec => []TypeOK` |
| `StampedOutcomes` | `Spec => OutcomeOfStampedRun` |
| `ConsentFirst` | `Spec => []NoImportBeforeConsent` |
| `PurgeSafe` | `Spec => []PurgeSparesConsented` |
| `CompleteHolds` | `Spec => []CompleteIsTrue` |
| `StaleRunsAreDead` | `Spec => []StaleIsDead` |
| `DeletedIsEmpty` | `Spec => []NothingAfterDeletion` |
| `OnlyImportsDeadlock` | `OrderSpec => []DeadlockNeedsImport` (`RowLocks`) |
| `RowsAreHeld` | `OrderSpec => []OrderTypeOK` (`RowLocks`) |

The argument.  A flush writes a column only where the handler changed it, so a request
can leave the status as it is or set "importing", nothing else (`RequestsOnlyStart`);
the outcomes are left to the runs, whose UPDATE asks for their own stamp.  `ConsentInv` remembers consent
in four places: the accepted flag, the retries let in, and, against the purge, a status or
a film that is there once a consent was recorded; for the race of two
consents it needs that a status set when a request loaded the row is still set when it commits.
`CompleteInv` follows a recorded run that lost nothing: the sources before its next one
are in the library or pending, so that at its end all of them are.  `StaleInv` says that a
live stamped run is at least as old as the stamp, which a retry that does not send
"importing" (`PoolImport_reported`) keeps all the same.  `Emptied` says that a run that outlives its account has
nothing pending.

`OnlyImportsDeadlock` and `RowsAreHeld` are about `RowLocks`, for any films, pairs,
batches, lists and finitely many transactions, under its assumptions.  Take a set of
transactions that wait for each other with no import in it.  A swipe batch shares no
film with a duel, and under the advisory lock it is the only one, so nobody in the set
keeps it waiting and the set is one of duels and matches.  One that is waited for has a
row and wants another, so it is past its lower film and waits for its higher one; its
owner is past that one as its lower, and waits higher still.  The set is finite, so one
of the rows waited for is the highest, and its owner cannot be waiting.

`SessionsProofs` proves, for any number of devices and any durations that meet the
assumptions:

| Theorem | Says |
|---|---|
| `TypeCorrect` | `Spec => []TypeOK` |
| `SessionsEnd` | `Spec => []EndsAtCap` |
| `TokensSpared` | `Spec => []LiveSessionKeepsTokens` |
| `UsersStay` | `Spec => []StaysSignedIn` |

The argument.  A request in flight carries the cookie its device still has, so an answer
extends the session it belongs to.  `CapInv` says of each cookie that it descends from
its sign-in, that the account was seen since, and that the provider tokens are there
until the cap of that sign-in has passed; dormancy is longer than the cap, so the purge
finds only sessions that are over.  For `StaysSignedIn`, `Whole(t)` loses less than a
second (`WholeBounds`); a fresh cookie lasts as long as its token or until the last
second before the cap (`IssueIsSound`), and a token too young to be re-issued has that
much left (`YoungLasts`).

`ExpansionProofs` proves, for any finite set of titles, any number of runs, any rankings
of titles, and any target, cooldown and clock:

| Theorem | Says |
|---|---|
| `TypeCorrect` | `Spec => []TypeOK` |
| `SourcesRest` | `Spec => []OncePerCooldown` |
| `LibraryIsKept` | `Spec => LibraryKept` |

The argument.  A plan names no step twice but those of ids shared in its ranking
(`PlanIsOnce`: its parts have different sources); nothing is assumed of the ids.  A run under way holds the lock of its media type, so
the records of that type are the ones it read when it began, and what it notes is out of
their cooldown; two runs under way are of different types.  What a run is about to
insert has no row, and nobody else may insert it meanwhile.

`TokensProofs` proves, for any number of syncs, watchlist pushes, imports and sign-ins:

| Theorem | Says |
|---|---|
| `StaysReadable` | `Spec => []Readable` |
| `StaysLive` | `Spec => []StoredIsLive` |
| `OneRefreshEach` | `Spec => []SerializedRefreshes` |
| `TypeCorrect` | `Spec => []TypeOK` |

The argument.  Every store of a column writes the current key (`EveryStore`), so that
behind the script's back a column can only improve; at its commit each column has been
swapped, was already under the new key, or has changed since, and that report is what the
last deploy waits for.  `LockInv` says that whoever has locked the row has read it as it
is.  `GrantInv` says that a grant received and not yet committed is live and nowhere
else, because numbers of grants are issued once; that the stored grant is live, lost, or
about to be replaced by the task that presented it; together with the lock that leaves
only an import to have spent what a locked task presents.  `TypeOK` bounds the numbers of
grants by the number of tasks: there is one place in a task's run where it may receive a
grant, and the set of tasks past it only grows (`CountInv`).

Only model-checked:

* liveness (`EveryRequestEnds` of `Duels` and of `Suggestions`, `EveryTransactionEnds`,
  `ImportIsReported`): fairness is beyond the prover;
* what the seeding recursion would give at other sizes: the proofs speak of the five
  offered.

## 5. Plan

1. Done: `Duels` with ledger, proofs; brackets and tournaments; swipe; `PoolImport`
   (consent, retry, restart, superseded runs); row locks.
2. Done: `Suggestions` (freshness, caps, slots against the connection pool), `Tokens`
   (one-use tokens, rotation, script, deploys), `Expansion`, `Sessions`.
3. Done: the proofs of `Duels`, `PoolImport`, `Tokens`, `Expansion`, `Sessions`,
   `Tournament`, `ChalkPlay`, `Swipe`, `Suggestions` and `RowLocks`, with the refinements of
   the four abstract specifications.
4. Considered and left out: the rejection alert, the percentile formula and the quotas
   of tournaments and feedback.  The first two are sequential and tested at their edges; the
   last repeat the lock and the count of `Swipe`.

Abstract specifications: `DuelLedger`, `AtomicTournament`, `SwipeLedger`, `SuggestionLedger`.

## 6. Not modelled

Read-only queries (rankings, export, lists, the choice of ten swipe cards), the numbers
of Elo (floating point), the prompts and the parsing of LLM replies, HTTP to providers,
headers and body limits, rate limiting (a library's counters), migrations, scripts and
the frontend, whose requests the models take as arbitrary, duplicates included.  Cascading
deletion of an account or a film during a request is not modelled.  Of authentication:
the state and PKCE cookies of the OAuth exchange, the adoption of rows from before
accounts had ids, and the key of the smoke test.  Of storage: screenshots, feedback
reports and the posters of an expansion.
`FOR UPDATE` on the match row is not modelled separately: the advisory lock already
excludes every rival, which is what `RequestsAreAtomic` shows.
