-------------------------------- MODULE Duels --------------------------------
(***************************************************************************)
(* Duel submission at the level of database transactions: POST /api/duels  *)
(* (routers/duels.py, services/duel.py), the row-locking half of a         *)
(* tournament match (record_match_winner), pair tokens with their TTL, the *)
(* retention purge that moves old duels to duel_history, retries, and      *)
(* requests that die before their commit.                                  *)
(*                                                                         *)
(* One user is modelled: every row, token and lock is keyed by the user.   *)
(* A transaction's writes are invisible until Commit (READ COMMITTED); its *)
(* row locks are held until it ends.                                       *)
(***************************************************************************)
EXTENDS DuelRules

CONSTANTS
    PairOf,             \* the two films a token names
    Watched,            \* films already seen when the account starts
    Bodies,             \* the submissions clients send
    TTL,                \* PAIR_TOKEN_TTL_SECONDS
    RequestLifetime,    \* longest time a request stays in flight
    Retention,          \* DUEL_RETENTION_DAYS
    MaxTime,            \* bound on the clock
    NoRequest,          \* an unlocked row
    NotRead,            \* a row the request has not read
    Never,              \* a token not issued yet
    NoEntry             \* a request that recorded nothing

ASSUME PairOfAssumption ==
    PairOf \in [Tokens -> { {f, g} : f, g \in Films }]
ASSUME BodiesAssumption == Bodies \subseteq Submissions
ASSUME WatchedAssumption == Watched \subseteq Films
ASSUME TimesAssumption ==
    /\ TTL \in Nat /\ RequestLifetime \in Nat /\ Retention \in Nat /\ MaxTime \in Nat
    /\ Never \notin Nat
\* A duel is not purged while a request may still present its token: 180 days
\* against 15 minutes and the time a request takes.
ASSUME RetentionAssumption == Retention >= TTL + RequestLifetime
ASSUME MarkersAssumption ==
    /\ NoRequest \notin Requests /\ NotRead \notin Row
    /\ NoEntry \notin [body : Submissions, beforeA : Row, beforeB : Row]

VARIABLES
    now,        \* the clock
    issued,     \* when each pair token was minted
    row,        \* committed user_movies rows
    lock,       \* FOR UPDATE row lock of each film
    pc,         \* where each request is
    body,       \* what each request submits
    since,      \* when each request arrived
    created,    \* created_at of the duel each request inserted
    read,       \* the rows each request has read under its locks
    duels,      \* requests whose duel is in the duels table
    history     \* requests whose duel was moved to duel_history

vars == <<now, issued, row, lock, pc, body, since, created, read, duels, history>>

\* A request ends recorded (200), conflict (409), rejected (400) or failed
\* (rolled back by an error, a lost connection or a restart).
Running == {"arrived", "lockFirst", "lockSecond", "locked", "flushed"}
Ended == {"recorded", "conflict", "rejected", "failed"}

Recorded == duels \cup history

\* Mutant of First: rows are locked in the order submitted.
FirstNamed(s) == s.a

\* Rows are locked in id order.
First(s) == IF s.a < s.b THEN s.a ELSE s.b
Second(s) == IF First(s) = s.a THEN s.b ELSE s.a

TypeOK ==
    /\ now \in Nat
    /\ issued \in [Tokens -> Nat \cup {Never}]
    /\ row \in [Films -> Row]
    /\ lock \in [Films -> Requests \cup {NoRequest}]
    /\ pc \in [Requests -> {"idle"} \cup Running \cup Ended]
    /\ body \in [Requests -> Submissions]
    /\ since \in [Requests -> Nat]
    /\ created \in [Requests -> Nat]
    /\ read \in [Requests -> [Films -> Row \cup {NotRead}]]
    /\ duels \subseteq Requests
    /\ history \subseteq Requests

Nothing == [f \in Films |-> NotRead]

Init ==
    /\ now = 0
    /\ issued = [t \in Tokens |-> Never]
    /\ row = [f \in Films |-> NewRow(f \in Watched)]
    /\ lock = [f \in Films |-> NoRequest]
    /\ pc = [r \in Requests |-> "idle"]
    /\ body \in [Requests -> Bodies]
    /\ since = [r \in Requests |-> 0]
    /\ created = [r \in Requests |-> 0]
    /\ read = [r \in Requests |-> Nothing]
    /\ duels = {}
    /\ history = {}
-----------------------------------------------------------------------------
(* Pair tokens and the other writers of a row *)

\* select_pair draws both films from the seen ones.
Servable(pair) == \A f \in pair : row[f].seen = "yes"

\* GET /movies/pair: a token is minted with the pair it is served for.
IssueToken(t) ==
    /\ issued[t] = Never
    /\ Servable(PairOf[t])
    /\ issued' = [issued EXCEPT ![t] = now]
    /\ UNCHANGED <<now, row, lock, pc, body, since, created, read, duels, history>>

\* POST /suggestions/{id}/seen writes the flag whatever it was; the UPDATE
\* waits for a row lock like any other.
MarkSeen(f) ==
    /\ lock[f] = NoRequest
    /\ row[f].seen # "yes"
    /\ row' = [row EXCEPT ![f].seen = "yes"]
    /\ UNCHANGED <<now, issued, lock, pc, body, since, created, read, duels, history>>
-----------------------------------------------------------------------------
(* A submission *)

\* A duel answers a token the client was served; a tournament match names two
\* ranked films.
Arrive(r) ==
    /\ pc[r] = "idle"
    /\ IF IsMatch(body[r])
       THEN \A f \in Pair(body[r]) : row[f].rating # Unrated
       ELSE issued[body[r].token] # Never
    /\ pc' = [pc EXCEPT ![r] = "arrived"]
    /\ since' = [since EXCEPT ![r] = now]
    /\ UNCHANGED <<now, issued, row, lock, body, created, read, duels, history>>

\* Mutant of TokenAccepted: tokens do not expire.
TokenAcceptedAtAnyAge(s) == IsMatch(s) \/ PairOf[s.token] = Pair(s)

\* decode_pair_token: the token is young enough and names these two films.
TokenAccepted(s) ==
    IsMatch(s) \/ (now <= issued[s.token] + TTL /\ PairOf[s.token] = Pair(s))

Decode(r) ==
    /\ pc[r] = "arrived"
    /\ pc' = [pc EXCEPT ![r] = IF TokenAccepted(body[r]) THEN "lockFirst" ELSE "rejected"]
    /\ UNCHANGED <<now, issued, row, lock, body, since, created, read, duels, history>>

\* Mutant of LockRow: a plain SELECT.
ReadUnlocked(r, f) ==
    /\ read' = [read EXCEPT ![r][f] = row[f]]
    /\ UNCHANGED <<now, issued, row, lock, body, since, created, duels, history>>

\* SELECT ... FOR UPDATE of one row.
LockRow(r, f) ==
    /\ lock[f] = NoRequest
    /\ lock' = [lock EXCEPT ![f] = r]
    /\ read' = [read EXCEPT ![r][f] = row[f]]
    /\ UNCHANGED <<now, issued, row, body, since, created, duels, history>>

LockFirst(r) ==
    /\ pc[r] = "lockFirst"
    /\ pc' = [pc EXCEPT ![r] = "lockSecond"]
    /\ LockRow(r, First(body[r]))

LockSecond(r) ==
    /\ pc[r] = "lockSecond"
    /\ pc' = [pc EXCEPT ![r] = "locked"]
    /\ LockRow(r, Second(body[r]))

Unlocked(r) == [f \in Films |-> IF lock[f] = r THEN NoRequest ELSE lock[f]]

\* Mutant of DigestTaken: the index is on the pair instead of its token.
PairTaken(s) == \E d \in duels : Pair(body[d]) = Pair(s)

\* The unique index on pair_token_digest covers the duels table only: a purged
\* duel no longer holds its digest.
DigestTaken(s) ==
    ~IsMatch(s) /\ \E d \in duels : body[d].token = s.token

\* The INSERT reaches the database at the autoflush before compute_next_action;
\* a taken digest rolls the transaction back and answers 409.
Flush(r) ==
    /\ pc[r] = "locked"
    /\ IF DigestTaken(body[r])
       THEN /\ pc' = [pc EXCEPT ![r] = "conflict"]
            /\ lock' = Unlocked(r)
            /\ read' = [read EXCEPT ![r] = Nothing]
            /\ UNCHANGED created
       ELSE /\ pc' = [pc EXCEPT ![r] = "flushed"]
            /\ created' = [created EXCEPT ![r] = now]
            /\ UNCHANGED <<lock, read>>
    /\ UNCHANGED <<now, issued, row, body, since, duels, history>>

\* get_db commits: the rows computed from the values read become visible, with
\* the duel, and the locks are released.
Commit(r) ==
    /\ pc[r] = "flushed"
    /\ row' = [f \in Films |->
                 IF f \in Pair(body[r]) THEN After(read[r][f], f, body[r], r) ELSE row[f]]
    /\ duels' = duels \cup {r}
    /\ lock' = Unlocked(r)
    /\ pc' = [pc EXCEPT ![r] = "recorded"]
    /\ UNCHANGED <<now, issued, body, since, created, read, history>>

\* Any error, a missing row, a dropped connection or a restart of the process
\* rolls the transaction back.
Abort(r) ==
    /\ pc[r] \in Running
    /\ pc' = [pc EXCEPT ![r] = "failed"]
    /\ lock' = Unlocked(r)
    /\ read' = [read EXCEPT ![r] = Nothing]
    /\ UNCHANGED <<now, issued, row, body, since, created, duels, history>>
-----------------------------------------------------------------------------
(* Retention and time *)

\* Mutant of Expired: no retention period.
Past == { d \in duels : created[d] < now }

\* Duels older than DUEL_RETENTION_DAYS.
Expired == { d \in duels : created[d] + Retention < now }

\* Mutant of PurgeOldDuels: nothing is kept.
DeleteOldDuels ==
    /\ Expired # {}
    /\ duels' = duels \ Expired
    /\ UNCHANGED <<now, issued, row, lock, pc, body, since, created, read, history>>

\* One statement deletes from duels and inserts into duel_history.
PurgeOldDuels ==
    /\ Expired # {}
    /\ duels' = duels \ Expired
    /\ history' = history \cup Expired
    /\ UNCHANGED <<now, issued, row, lock, pc, body, since, created, read>>

\* No request outlives RequestLifetime: time waits for it to end.
Tick ==
    /\ now < MaxTime
    /\ \A r \in Requests : pc[r] \in Running => now < since[r] + RequestLifetime
    /\ now' = now + 1
    /\ UNCHANGED <<issued, row, lock, pc, body, since, created, read, duels, history>>
-----------------------------------------------------------------------------
Next ==
    \/ \E t \in Tokens : IssueToken(t)
    \/ \E f \in Films : MarkSeen(f)
    \/ \E r \in Requests :
          \/ Arrive(r) \/ Decode(r) \/ LockFirst(r) \/ LockSecond(r)
          \/ Flush(r) \/ Commit(r) \/ Abort(r)
    \/ PurgeOldDuels
    \/ Tick

Spec == Init /\ [][Next]_vars

\* A request the server has begun keeps running, and Postgres grants a freed
\* row lock to a waiter.
Fairness ==
    \A r \in Requests :
        /\ WF_vars(Decode(r)) /\ WF_vars(LockFirst(r)) /\ WF_vars(LockSecond(r))
        /\ WF_vars(Flush(r)) /\ WF_vars(Commit(r))

FairSpec == Spec /\ Fairness
-----------------------------------------------------------------------------
(* Properties *)

\* A pair token is applied at most once, however often the client re-sends it
\* and whether or not the first duel has since been purged (routers/duels.py:62).
AtMostOncePerToken ==
    \A d, e \in Recorded :
        (~IsMatch(body[d]) /\ body[d].token = body[e].token) => d = e

\* A decided duel moved the rating of film f.
Moved(f) == { d \in Recorded : Decided(body[d]) /\ f \in Pair(body[d]) }

\* No update of a rating is lost: no two duels of a film started from the same
\* rating, and none started from the rating the film has now.
RatingChain ==
    \A f \in Films :
        /\ \A d, e \in Moved(f) : read[d][f].rating = read[e][f].rating => d = e
        /\ \A d \in Moved(f) : read[d][f].rating # row[f].rating

\* battles counts exactly the decided duels the film took part in, purged or
\* not, tournament matches included.
BattlesCountDuels ==
    \A f \in Films : row[f].battles = Cardinality(Moved(f))

\* A ranked film is a seen film: no skip outcome racing a decided duel takes
\* the seen flag off a film that has battles.
RankedIsSeen ==
    \A f \in Films :
        /\ row[f].battles > 0 => row[f].seen = "yes"
        /\ row[f].battles > 0 <=> row[f].rating # Unrated

\* 409 tells the truth: the client may treat it as success because a duel with
\* this token is recorded.
ConflictIsRecorded ==
    \A r \in Requests :
        pc[r] = "conflict" => \E d \in Recorded : body[d].token = body[r].token

\* Sorted lock order: a request that began always ends, it is never stuck in
\* a cycle of row locks.
EveryRequestEnds ==
    \A r \in Requests : pc[r] = "arrived" ~> pc[r] \in Ended

\* The transaction-level specification implements the atomic ledger.
EntryOfRequest(r) ==
    IF r \in Recorded
    THEN [body |-> body[r], beforeA |-> read[r][body[r].a], beforeB |-> read[r][body[r].b]]
    ELSE NoEntry

Ledger == INSTANCE DuelLedger WITH
    entry <- [r \in Requests |-> EntryOfRequest(r)]

LedgerImplemented == Ledger!LedgerSpec
=============================================================================
