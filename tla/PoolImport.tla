------------------------------ MODULE PoolImport ------------------------------
(***************************************************************************)
(* Consent and the import of the provider library: the users row as        *)
(* routers/users.py, routers/auth.py and services/retention.py write it,   *)
(* and the runs of populate_movie_pool (services/pool.py) that consent, a  *)
(* retry, a manual sync or a sign-in start.                                *)
(*                                                                         *)
(* One account is modelled.  A request loads the users row, decides, and   *)
(* writes it back at its commit, when SQLAlchemy sends only the columns    *)
(* whose value differs from the one loaded.  Runs are numbered as they     *)
(* start; a run's number stands for its pool_import_started_at.            *)
(***************************************************************************)
EXTENDS Naturals, Bags

CONSTANTS
    MaxRequests,    \* bound on the requests in flight
    Sources,        \* the (media type, provider) pairs of an import: 1 .. Sources
    MaxRuns,        \* bound on the imports ever started
    MaxRestarts,    \* bound on deploys
    StaleAfter,     \* POOL_IMPORT_STALE_AFTER, 20 minutes
    WorstCase       \* the longest a run can take, about 13 minutes

ASSUME BoundsAssumption ==
    /\ MaxRequests \in Nat /\ Sources \in Nat \ {0} /\ MaxRuns \in Nat
    /\ MaxRestarts \in Nat /\ StaleAfter \in Nat
\* The comment on POOL_IMPORT_STALE_AFTER: it "must exceed the worst case".
ASSUME WorstCaseAssumption == WorstCase \in Nat /\ WorstCase <= StaleAfter

Runs == 1 .. MaxRuns
Versions == {"none", "old", "current"}
Statuses == {"none", "importing", "complete", "failed"}
Handlers == {"accept", "withdraw", "retry"}
Columns == [accepted : BOOLEAN, version : Versions, status : Statuses, startedAt : 0 .. MaxRuns]

VARIABLES
    exists,     \* the users row is there
    user,       \* its consent and import columns
    age,        \* time since pool_import_started_at while it matters: as long
                \* as the status is "importing", and up to StaleAfter + 1
    library,    \* the sources whose films are committed to user_movies
    requests,   \* the requests in flight, a bag: what each does and has loaded
    run,        \* every import
    restarts,   \* deploys so far
    consented   \* auxiliary: a consent was once recorded

vars == <<exists, user, age, library, requests, run, restarts, consented>>

Going == {"fetching", "waiting", "leaving", "raised"}

TypeOK ==
    /\ exists \in BOOLEAN /\ consented \in BOOLEAN
    /\ user \in Columns
    /\ age \in 0 .. StaleAfter + 1
    /\ library \subseteq 1 .. Sources
    /\ IsABag(requests) /\ BagToSet(requests) \subseteq [does : Handlers, loaded : Columns]
    /\ run \in [Runs -> [phase : Going \cup {"unused", "ended", "broken"}, recorded : BOOLEAN,
                         next : 1 .. Sources + 1, pending : SUBSET (1 .. Sources),
                         failed : BOOLEAN, age : 0 .. WorstCase]]
    /\ restarts \in 0 .. MaxRestarts

NoRow == [accepted |-> FALSE, version |-> "none", status |-> "none", startedAt |-> 0]
NoRun == [phase |-> "unused", recorded |-> FALSE, next |-> 1, pending |-> {}, failed |-> FALSE, age |-> 0]

\* A new account, or one from before imports were recorded (migration 026):
\* it accepted an older policy and its sign-ins filled the library.
Init ==
    /\ exists = TRUE
    /\ \/ user = NoRow /\ library = {}
       \/ user = [NoRow EXCEPT !.accepted = TRUE, !.version = "old"] /\ library = 1 .. Sources
    /\ consented = user.accepted
    /\ age = 0
    /\ requests = EmptyBag
    /\ run = [i \in Runs |-> NoRun]
    /\ restarts = 0
-----------------------------------------------------------------------------
(* What the row says *)

HasCurrentConsent(row) == row.accepted /\ row.version = "current"

\* Mutant of Stale: a run is given up at the worst case.
StaleEarly(time) == time >= WorstCase

Stale(time) == time > StaleAfter

\* Mutant of EffectiveStatus: the status is reported as it is stored.
EffectiveStatusStored(row) == row.status

\* _effective_pool_import_status
EffectiveStatus(row) ==
    IF row.status = "importing" /\ (row.startedAt = 0 \/ Stale(age)) THEN "failed" ELSE row.status

\* The columns an UPDATE sends are those that differ from the row as loaded.
Flush(loaded, changed) ==
    [c \in DOMAIN user |-> IF changed[c] = loaded[c] THEN user[c] ELSE changed[c]]
-----------------------------------------------------------------------------
(* Starting a run *)

Fresh(i) == run[i].phase = "unused" /\ \A j \in 1 .. i - 1 : run[j].phase # "unused"

Queue(i, recorded) ==
    /\ Fresh(i)
    /\ run' = [run EXCEPT ![i].phase = "fetching", ![i].recorded = recorded]

\* Mutant of StartPoolImport: the status is left to the run.
StartStampOnly(row, i) == [row EXCEPT !.startedAt = i]

\* _start_pool_import
StartPoolImport(row, i) == [row EXCEPT !.status = "importing", !.startedAt = i]

\* The columns a handler assigns, whose loaded values decide what is sent;
\* pool_import_started_at is always sent, being a new time.
Assigned(does) ==
    CASE does = "retry"    -> {"status"}
      [] does = "withdraw" -> {"accepted", "version"}
      [] does = "accept"   -> {"accepted", "version", "status"}

Loaded(does) == [c \in DOMAIN user |-> IF c \in Assigned(does) THEN user[c] ELSE NoRow[c]]

\* get_current_user and the checks that need nothing else: require_consent for
\* a retry, and the no-op of a retry while an import goes on.  A request that
\* will find no column to send is left out.
HasWork(does) ==
    CASE does = "retry"    -> HasCurrentConsent(user) /\ EffectiveStatus(user) # "importing"
      [] does = "withdraw" -> user.accepted \/ user.version # "none"
      [] does = "accept"   -> ~HasCurrentConsent(user)

Load(does) ==
    /\ exists /\ BagCardinality(requests) < MaxRequests
    /\ HasWork(does)
    /\ requests' = requests (+) SetToBag({[does |-> does, loaded |-> Loaded(does)]})
    /\ UNCHANGED <<exists, user, age, library, run, restarts, consented>>

\* withdraw_consent keeps the import columns.
Withdrawn(row) == [row EXCEPT !.accepted = FALSE, !.version = "none"]

Accepted(row) == [row EXCEPT !.accepted = TRUE, !.version = "current"]

\* The commit of a request; the row may be gone, and the UPDATE then fails.
Answer(q) == q \in BagToSet(requests) /\ requests' = requests (-) SetToBag({q})

WithdrawConsent(q) ==
    /\ exists /\ q.does = "withdraw"
    /\ user' = Flush(q.loaded, Withdrawn(q.loaded))
    /\ Answer(q)
    /\ UNCHANGED <<exists, age, library, run, restarts, consented>>

\* accept_consent of a user whose consent was to an older version.
AcceptAgain(q) ==
    /\ exists /\ q.does = "accept" /\ q.loaded.accepted
    /\ user' = Flush(q.loaded, Accepted(q.loaded))
    /\ Answer(q)
    /\ UNCHANGED <<exists, age, library, run, restarts, consented>>

\* accept_consent that is the first, or the first since consent was withdrawn.
AcceptFirst(q) ==
    /\ exists /\ q.does = "accept" /\ ~q.loaded.accepted
    /\ \E i \in Runs :
        /\ user' = Flush(q.loaded, StartPoolImport(Accepted(q.loaded), i))
        /\ Queue(i, TRUE)
    /\ age' = 0
    /\ consented' = TRUE
    /\ Answer(q)
    /\ UNCHANGED <<exists, library, restarts>>

RetryPoolImport(q) ==
    /\ exists /\ q.does = "retry"
    /\ \E i \in Runs :
        /\ user' = Flush(q.loaded, StartPoolImport(q.loaded, i))
        /\ Queue(i, TRUE)
    /\ age' = 0
    /\ Answer(q)
    /\ UNCHANGED <<exists, library, restarts, consented>>

Refused(q) ==
    /\ ~exists
    /\ Answer(q)
    /\ UNCHANGED <<exists, user, age, library, run, restarts, consented>>

\* sync_providers: the import runs inside the request and is recorded nowhere.
SyncProviders ==
    /\ exists /\ HasCurrentConsent(user)
    /\ \E i \in Runs : Queue(i, FALSE)
    /\ UNCHANGED <<exists, user, age, library, requests, restarts, consented>>

\* Mutant of MayResync: every sign-in imports.
ResyncAnyone(row) == TRUE

\* The OAuth callback asks for a consent, whatever its version.
MayResync(row) == row.accepted

SignIn ==
    /\ exists /\ MayResync(user)
    /\ \E i \in Runs : Queue(i, FALSE)
    /\ UNCHANGED <<exists, user, age, library, requests, restarts, consented>>
-----------------------------------------------------------------------------
(* A run: populate_movie_pool, one source after the other.  A run that finds  *)
(* no users row returns; here it fails at its first upsert, to the same end.  *)

\* What is kept of a run is whether it ended, recorded and whole.
Over(i, phase) ==
    [NoRun EXCEPT !.phase = phase, !.recorded = run[i].recorded,
                  !.failed = phase = "ended" /\ run[i].failed]

End(i, phase) == run' = [run EXCEPT ![i] = Over(i, phase)]

\* What a run has upserted so far is committed before it waits for a provider,
\* so that no lock is held across the HTTP calls.
CommitUpserts(i, phase) ==
    /\ library' = library \cup run[i].pending
    /\ run' = [run EXCEPT ![i].pending = {}, ![i].phase = phase]
    /\ UNCHANGED <<exists, user, age, requests, restarts, consented>>

Fetch(i) ==
    /\ run[i].phase = "fetching" /\ run[i].next <= Sources
    /\ CommitUpserts(i, "waiting")

\* The lists of a source arrive, some or all of them lost after their retries;
\* those that arrive are upserted, which a deleted account makes fail.  Only a
\* recorded run asks in the end whether anything was lost.
Arrived(i, failed, some) ==
    [run[i] EXCEPT !.next = @ + 1, !.failed = @ \/ (failed /\ run[i].recorded),
                   !.phase = IF some /\ ~exists THEN "raised" ELSE "fetching",
                   !.pending = IF some /\ exists THEN {run[i].next} ELSE {}]

Upsert(i) ==
    /\ run[i].phase = "waiting"
    /\ \E failed \in BOOLEAN, some \in BOOLEAN :
        /\ failed \/ some
        /\ run' = [run EXCEPT ![i] = Arrived(i, failed, some)]
    /\ UNCHANGED <<exists, user, age, library, requests, restarts, consented>>

Leave(i) ==
    /\ run[i].phase = "fetching" /\ run[i].next > Sources
    /\ CommitUpserts(i, "leaving")

\* Mutant of Outcome: what arrived counts, not what was lost.
OutcomeOptimistic(i) == "complete"

Outcome(i) == IF run[i].failed THEN "failed" ELSE "complete"

\* Mutant of RecordPoolImportOutcome: the row is found by the user's id alone.
RecordAnyOutcome(i, outcome) ==
    IF exists /\ run[i].recorded
    THEN user' = [user EXCEPT !.status = outcome] /\ age' = 0
    ELSE UNCHANGED <<user, age>>

\* _record_pool_import_outcome: an UPDATE ... WHERE started_at is the run's own.
RecordPoolImportOutcome(i, outcome) ==
    IF exists /\ run[i].recorded /\ user.startedAt = i
    THEN user' = [user EXCEPT !.status = outcome] /\ age' = 0
    ELSE UNCHANGED <<user, age>>

\* last_seen_at, the outcome and the commit; without its row the UPDATE fails.
FinishRun(i) ==
    /\ run[i].phase = "leaving"
    /\ IF exists
       THEN RecordPoolImportOutcome(i, Outcome(i)) /\ End(i, "ended")
       ELSE UNCHANGED <<user, age>> /\ run' = [run EXCEPT ![i].phase = "raised"]
    /\ UNCHANGED <<exists, library, requests, restarts, consented>>

\* A token refresh or the database fails: the transaction is rolled back, and
\* sign-ins and manual syncs leave it at that.
Raise(i) ==
    /\ run[i].phase \in {"fetching", "waiting", "leaving"}
    /\ IF run[i].recorded
       THEN run' = [run EXCEPT ![i].phase = "raised", ![i].pending = {}] ELSE End(i, "broken")
    /\ UNCHANGED <<exists, user, age, library, requests, restarts, consented>>

\* _run_pool_import records the failure in a second session, if it can.
RecordFailure(i) ==
    /\ run[i].phase = "raised"
    /\ RecordPoolImportOutcome(i, "failed") \/ UNCHANGED <<user, age>>
    /\ End(i, "broken")
    /\ UNCHANGED <<exists, library, requests, restarts, consented>>
-----------------------------------------------------------------------------
(* Time, deploys and deletion *)

\* No recorded run outlives the worst case.
Tick ==
    /\ \A i \in Runs : run[i].phase \in Going => run[i].age < WorstCase
    /\ age' = IF user.status # "importing" \/ Stale(age) THEN age ELSE age + 1
    /\ run' = [i \in Runs |-> IF run[i].phase \in Going /\ run[i].recorded THEN [run[i] EXCEPT !.age = @ + 1] ELSE run[i]]
    /\ UNCHANGED <<exists, user, library, requests, restarts, consented>>

\* A deploy ends the process with its requests and runs, and may bring a new
\* CURRENT_PRIVACY_POLICY_VERSION.
Deploy ==
    /\ restarts < MaxRestarts
    /\ restarts' = restarts + 1
    /\ requests' = EmptyBag
    /\ run' = [i \in Runs |-> IF run[i].phase \in Going THEN Over(i, "broken") ELSE run[i]]
    /\ \/ UNCHANGED user
       \/ user.version = "current" /\ user' = [user EXCEPT !.version = "old"]
    /\ UNCHANGED <<exists, age, library, consented>>

\* Mutant of NothingPending: user_movies has no foreign key, the DELETE does
\* not wait.
PendingIgnored == TRUE

\* A DELETE of the users row waits for the user_movies rows that an import has
\* inserted and not committed: they share-lock the row they refer to.
NothingPending == \A i \in Runs : run[i].pending = {}

\* ON DELETE CASCADE takes the library with the account.
Delete ==
    /\ exists /\ NothingPending
    /\ exists' = FALSE
    /\ user' = NoRow
    /\ age' = 0
    /\ library' = {}
    /\ UNCHANGED <<requests, run, restarts, consented>>

DeleteAccount == Delete

\* purge_unconsented_accounts; how long the account was idle is left out.
Purgeable ==
    exists /\ ~user.accepted /\ user.version = "none" /\ user.status = "none" /\ library = {}

PurgeUnconsentedAccount == Purgeable /\ Delete
-----------------------------------------------------------------------------
Next ==
    \/ \E does \in Handlers : Load(does)
    \/ \E q \in BagToSet(requests) :
          \/ WithdrawConsent(q) \/ AcceptAgain(q) \/ AcceptFirst(q) \/ RetryPoolImport(q) \/ Refused(q)
    \/ SyncProviders \/ SignIn
    \/ \E i \in Runs :
          Fetch(i) \/ Upsert(i) \/ Leave(i) \/ FinishRun(i) \/ Raise(i) \/ RecordFailure(i)
    \/ Tick \/ Deploy \/ DeleteAccount \/ PurgeUnconsentedAccount

Spec == Init /\ [][Next]_vars

\* Time passes, and the event loop goes on with every run.
Progress(i) ==
    Fetch(i) \/ Upsert(i) \/ Leave(i) \/ FinishRun(i) \/ RecordFailure(i)

FairSpec == Spec /\ WF_vars(Tick) /\ \A i \in Runs : WF_vars(Progress(i))
-----------------------------------------------------------------------------
(* Properties *)

Whole(i) == run[i].recorded /\ run[i].phase = "ended" /\ ~run[i].failed

\* "complete" is never reported unless some import fetched every list of every
\* source and all of its films are in the library.
CompleteIsTrue ==
    user.status = "complete" => library = 1 .. Sources /\ \E i \in Runs : Whole(i)

\* "A retry restamps started_at, so a superseded run's outcome matches no row"
\* (routers/users.py): an outcome is recorded only by the run that is stamped
\* on the row at that moment.
OutcomeOfStampedRun ==
    [][ exists' /\ user'.status # user.status /\ user'.status \in {"complete", "failed"}
          => \E i \in Runs : /\ i = user.startedAt /\ run[i].recorded
                             /\ run[i].phase \in Going /\ run'[i].phase \notin Going ]_vars

\* An import that is taken for dead because of its age is dead: a retry that
\* the 20 minutes let through does not run beside it.
StaleIsDead ==
    user.status = "importing" /\ Stale(age) => run[user.startedAt].phase \notin Going

\* No provider data is stored, and no import runs, for a user who never
\* accepted any policy version.
NoImportBeforeConsent ==
    library # {} \/ (\E i \in Runs : run[i].phase # "unused") => consented

\* An account that once consented is never purged as one that never did, also
\* after consent was withdrawn.
PurgeSparesConsented == Purgeable => ~consented

\* Runs that outlive a deleted account leave nothing behind.
NothingAfterDeletion == ~exists => library = {}

\* An import is not reported as going on for ever: its run ends and says so, or
\* a deploy killed it and it grows stale; then a retry is possible.
ImportIsReported ==
    user.status = "importing" ~> EffectiveStatus(user) # "importing"

-----------------------------------------------------------------------------
(* Promises the code breaks: TLC refutes them (README, section 3) *)

\* "The user's profile SHALL report the import as importing, complete or
\* failed" (openspec/specs/title-pool/spec.md:11): while the import stamped on
\* the row goes on, the profile says importing.
RunningIsReported ==
    \A i \in Runs : run[i].recorded /\ run[i].phase \in Going /\ user.startedAt = i
                      => EffectiveStatus(user) = "importing"

\* "A user SHALL accept the current privacy policy version before any provider
\* data is imported" (openspec/specs/privacy-and-consent/spec.md:11).
ImportNeedsCurrentConsent ==
    [][ \A i \in Runs : run[i].phase = "unused" /\ run'[i].phase = "fetching"
                          => HasCurrentConsent(user') ]_vars
=============================================================================
