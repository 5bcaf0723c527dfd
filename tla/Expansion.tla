------------------------------ MODULE Expansion ------------------------------
(***************************************************************************)
(* Pool expansion (services/expand.py), which a swipe starts in the        *)
(* background when few unclassified titles are left (routers/swipe.py):    *)
(* its try-lock, its sources in priority order with their cooldown, and    *)
(* the one transaction that adds titles and records the sources used.      *)
(*                                                                         *)
(* One user is modelled: the lock, the records and the library are per     *)
(* user.  The catalog row of a title exists as soon as a title is fetched. *)
(***************************************************************************)
EXTENDS Integers, FiniteSets, Sequences, FiniteSetsExt

CONSTANTS
    Titles,
    Movies,         \* those of media type "movie"; the others are shows
    Library,        \* unclassified titles in the library at first
    Runs,           \* background tasks
    Rankings,       \* what the TMDB ids of the ten best rated titles may be, best first
    LastPage,       \* popular pages 2 to LastPage, 5
    Low,            \* unclassified titles that do not start an expansion, 50
    Target,         \* TARGET_ADDED, 100
    Cooldown,       \* EXPANSION_COOLDOWN, 7 days
    MaxTime,        \* bound on the clock
    NoRun           \* a free advisory lock

Media == {"movie", "show"}
MediaOf(title) == IF title \in Movies THEN "movie" ELSE "show"

ASSUME TitlesAssumption == Movies \subseteq Titles /\ Library \subseteq Titles /\ IsFiniteSet(Titles)
ASSUME BoundsAssumption ==
    /\ Low \in Nat /\ Target \in Nat \ {0} /\ Cooldown \in Nat /\ MaxTime \in Nat
    /\ LastPage \in Nat
\* An id may stand in a ranking twice: tmdb_id is not unique, and a movie and a
\* show that share one may both be among the ten.
ASSUME RankingsAssumption == Rankings \subseteq Seq(Nat)
ASSUME RunsAssumption == NoRun \notin Runs

Sources == <<"trakt_recommendations", "tmdb_similar", "anticipated", "popular">>

Step(source, key) == [source |-> source, key |-> key]

PopularPages == [i \in 1..(LastPage - 1) |-> Step("popular", i + 1)]

\* A row of pool_expansions; "by" and "nth" say which step of which run wrote it.
Record == [source : {Sources[i] : i \in DOMAIN Sources}, key : Nat, media : Media,
           at : Nat, by : Runs, nth : Nat]

VARIABLES
    now,        \* the clock
    library,    \* user_movies.seen of each title, "absent" without a row
    records,    \* pool_expansions, as committed
    holder,     \* who holds the "pool_expansion" lock of each media type
    pc,         \* where each run is
    media,      \* the media type it expands
    start,      \* the time it took as its own
    best,       \* the TMDB ids of the best rated titles, as it found them
    recent,     \* the sources it found in their cooldown
    pos,        \* where it is in its plan
    gain,       \* titles it has added, by source
    adding,     \* ... and which, not committed
    noting      \* records it has written, not committed

vars == <<now, library, records, holder, pc, media, start, best, recent, pos, gain, adding, noting>>

NoGain == [s \in {Sources[i] : i \in DOMAIN Sources} |-> 0]

TypeOK ==
    /\ now \in Nat
    /\ library \in [Titles -> {"absent", "unknown", "yes", "no"}]
    /\ records \subseteq Record
    /\ holder \in [Media -> Runs \cup {NoRun}]
    /\ pc \in [Runs -> {"idle", "triggered", "running", "ended"}]
    /\ media \in [Runs -> Media]
    /\ start \in [Runs -> Nat]
    /\ best \in [Runs -> Rankings \cup {<< >>}]
    /\ recent \in [Runs -> SUBSET [source : DOMAIN NoGain, key : Nat]]
    /\ pos \in [Runs -> Nat]
    /\ gain \in [Runs -> [DOMAIN NoGain -> Nat]]
    /\ adding \in [Runs -> SUBSET Titles]
    /\ noting \in [Runs -> SUBSET Record]

Init ==
    /\ now = 0
    /\ library = [t \in Titles |-> IF t \in Library THEN "unknown" ELSE "absent"]
    /\ records = {}
    /\ holder = [m \in Media |-> NoRun]
    /\ pc = [r \in Runs |-> "idle"]
    /\ media = [r \in Runs |-> "movie"]
    /\ start = [r \in Runs |-> 0]
    /\ best = [r \in Runs |-> << >>]
    /\ recent = [r \in Runs |-> {}]
    /\ pos = [r \in Runs |-> 1]
    /\ gain = [r \in Runs |-> NoGain]
    /\ adding = [r \in Runs |-> {}]
    /\ noting = [r \in Runs |-> {}]

runVars == <<best, recent, pos, gain, adding, noting>>
-----------------------------------------------------------------------------
(* The user: swipes, duels and imports on the same library *)

\* An INSERT of a row that a run has inserted waits for its transaction.
Classify(t, answer) ==
    /\ library[t] # answer
    /\ \A r \in Runs : t \notin adding[r]
    /\ answer = "no" => library[t] # "absent"
    /\ library' = [library EXCEPT ![t] = answer]
    /\ UNCHANGED <<now, records, holder, pc, media, start, runVars>>

Unclassified(m) == { t \in Titles : MediaOf(t) = m /\ library[t] = "unknown" }

\* The end of a swipe: the task runs after the answer is sent.
Trigger(r, m) ==
    /\ pc[r] = "idle"
    /\ Cardinality(Unclassified(m)) < Low
    /\ pc' = [pc EXCEPT ![r] = "triggered"]
    /\ media' = [media EXCEPT ![r] = m]
    /\ UNCHANGED <<now, library, records, holder, start, runVars>>
-----------------------------------------------------------------------------
(* A run *)

Similar(r) == [i \in 1..Len(best[r]) |-> Step("tmdb_similar", best[r][i])]

\* The sources of a run in the order of their priority.
Plan(r) ==
    << Step("trakt_recommendations", 1) >>
        \o Similar(r)
        \o << Step("anticipated", 1) >>
        \o PopularPages

End(r) ==
    /\ pc' = [pc EXCEPT ![r] = "ended"]
    /\ holder' = [m \in Media |-> IF holder[m] = r THEN NoRun ELSE holder[m]]
    /\ recent' = [recent EXCEPT ![r] = {}]
    /\ pos' = [pos EXCEPT ![r] = 1]
    /\ gain' = [gain EXCEPT ![r] = NoGain]
    /\ adding' = [adding EXCEPT ![r] = {}]
    /\ noting' = [noting EXCEPT ![r] = {}]

\* Mutant of LockFree: two runs of a media type at once.
LockIgnored(r) == TRUE

LockFree(r) == holder[media[r]] = NoRun

\* The loser of the try-lock ends without a trace.
Lose(r) ==
    /\ pc[r] = "triggered"
    /\ ~LockFree(r)
    /\ End(r)
    /\ UNCHANGED <<now, library, records, media, start, best>>

\* ran_at >= now - EXPANSION_COOLDOWN
Recent(m) ==
    { Step(rec.source, rec.key) : rec \in { e \in records : e.media = m /\ e.at + Cooldown >= now } }

\* The ranking is of movies and shows alike, and read for movies only: TMDB is
\* asked for similar movies.
RankingsFor(m) == IF m = "movie" THEN Rankings ELSE {<< >>}

\* With the lock, the run takes its time and reads the cooldowns.  The ranking
\* it reads later, at its second source.
Begin(r) ==
    /\ pc[r] = "triggered"
    /\ LockFree(r)
    /\ holder' = [holder EXCEPT ![media[r]] = r]
    /\ pc' = [pc EXCEPT ![r] = "running"]
    /\ start' = [start EXCEPT ![r] = now]
    /\ \E ranking \in RankingsFor(media[r]) : best' = [best EXCEPT ![r] = ranking]
    /\ recent' = [recent EXCEPT ![r] = Recent(media[r])]
    /\ UNCHANGED <<now, library, records, media, pos, gain, adding, noting>>

AtStep(r) == pc[r] = "running" /\ pos[r] \in DOMAIN Plan(r)

Current(r) == Plan(r)[pos[r]]

Before(source) ==
    { s \in DOMAIN NoGain :
        \E i, j \in DOMAIN Sources : i < j /\ Sources[i] = s /\ Sources[j] = source }

\* A source is used while the sources before it have not reached the target,
\* and goes on, key by key, until it has itself.
Wanted(r) ==
    LET source == Current(r).source
    IN  /\ MapThenSumSet(LAMBDA s : gain[r][s], Before(source)) < Target
        /\ gain[r][source] < Target

Skip(r) ==
    /\ AtStep(r)
    /\ ~Wanted(r) \/ Current(r) \in recent[r]
    /\ pos' = [pos EXCEPT ![r] = @ + 1]
    /\ UNCHANGED <<now, library, records, holder, pc, media, start, best, recent, gain, adding, noting>>

\* Titles the source may name: similar ones are found by TMDB id, whatever
\* their media type.
Offered(r) ==
    IF Current(r).source = "tmdb_similar" THEN Titles
    ELSE { t \in Titles : MediaOf(t) = media[r] }

\* Mutant of New: a title in the library is inserted over.
NewOrKnown(titles) == titles

\* ON CONFLICT DO NOTHING: only titles without a row are inserted.
New(titles) == { t \in titles : library[t] = "absent" }

NewRecord(r) ==
    [source |-> Current(r).source, key |-> Current(r).key, media |-> media[r],
     at |-> start[r], by |-> r, nth |-> pos[r]]

\* A source answers; a title another run is inserting is waited for.
Fetch(r) ==
    /\ AtStep(r)
    /\ Wanted(r)
    /\ Current(r) \notin recent[r]
    /\ \E titles \in SUBSET Offered(r) :
          LET added == New(titles) \ adding[r]
          IN  /\ \A q \in Runs \ {r} : titles \cap adding[q] = {}
              /\ adding' = [adding EXCEPT ![r] = @ \cup added]
              /\ gain' = [gain EXCEPT ![r][Current(r).source] = @ + Cardinality(added)]
    /\ noting' = [noting EXCEPT ![r] = @ \cup {NewRecord(r)}]
    /\ pos' = [pos EXCEPT ![r] = @ + 1]
    /\ UNCHANGED <<now, library, records, holder, pc, media, start, best, recent>>

\* A source fails: it is not recorded.  (Of a failure at TMDB the caller sees
\* an empty list, and records it.)
FetchFails(r) ==
    /\ AtStep(r)
    /\ Wanted(r)
    /\ Current(r) \notin recent[r]
    /\ Current(r).source # "tmdb_similar"
    /\ pos' = [pos EXCEPT ![r] = @ + 1]
    /\ UNCHANGED <<now, library, records, holder, pc, media, start, best, recent, gain, adding, noting>>

Commit(r) ==
    /\ pc[r] = "running"
    /\ ~AtStep(r)
    /\ library' = [t \in Titles |-> IF t \in adding[r] THEN "unknown" ELSE library[t]]
    /\ records' = records \cup noting[r]
    /\ End(r)
    /\ UNCHANGED <<now, media, start, best>>

\* Any exception, or the process ends: nothing is kept.
Abort(r) ==
    /\ pc[r] \in {"triggered", "running"}
    /\ End(r)
    /\ UNCHANGED <<now, library, records, media, start, best>>

Tick ==
    /\ now < MaxTime
    /\ now' = now + 1
    /\ UNCHANGED <<library, records, holder, pc, media, start, runVars>>

Next ==
    \/ Tick
    \/ \E t \in Titles, answer \in {"yes", "no"} : Classify(t, answer)
    \/ \E r \in Runs :
          \/ \E m \in Media : Trigger(r, m)
          \/ Lose(r) \/ Begin(r)
          \/ Skip(r) \/ Fetch(r) \/ FetchFails(r)
          \/ Commit(r) \/ Abort(r)

Spec == Init /\ [][Next]_vars
-----------------------------------------------------------------------------
(* Properties *)

Used == records \cup UNION { noting[r] : r \in Runs }

\* Two uses are of different keys, or the cooldown lies between them.
Apart(a, b) ==
    \/ a = b
    \/ a.source # b.source \/ a.key # b.key \/ a.media # b.media
    \/ a.at + Cooldown < b.at \/ b.at + Cooldown < a.at

\* The ids a run found more than once among the best: it does not look at what
\* it has noted itself, and asks for each.
Shared(r) ==
    { Step("tmdb_similar", best[r][i]) :
        i \in { i \in DOMAIN best[r] : \E j \in DOMAIN best[r] : i # j /\ best[r][i] = best[r][j] } }

SharedId(a, b) == a.by = b.by /\ Step(a.source, a.key) \in Shared(a.by)

\* A source is not used twice for the same key within the cooldown, however
\* many swipes start a run at once: not by two runs, and not by one, unless it
\* is one TMDB id of two of the best titles (expand_pool).
OncePerCooldown == \A a, b \in Used : Apart(a, b) \/ SharedId(a, b)

\* "SHALL NOT change the state of titles already in the library": a run only
\* adds, also when the user classifies or imports a title while it runs.
LibraryKept ==
    [][\A t \in Titles : library[t] # "absent" => library'[t] \in {library[t], "yes", "no"}]_library
-----------------------------------------------------------------------------
(* A promise the code breaks: TLC refutes it (README, section 3) *)

\* "Pool expansion SHALL NOT repeat a source for the same key within 7 days"
\* (openspec/specs/title-pool/spec.md:92).  The keys of the cooldown are read
\* once, so a TMDB id that two of the best titles share is asked for twice.
NeverRepeated == \A a, b \in Used : Apart(a, b)
=============================================================================
