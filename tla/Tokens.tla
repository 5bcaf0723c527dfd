------------------------------- MODULE Tokens -------------------------------
(***************************************************************************)
(* The provider tokens of one user: who refreshes them and how the row is  *)
(* locked meanwhile (services/token_refresh.py, services/sync.py, the      *)
(* import of routers/users.py, the watchlist of routers/suggestions.py,    *)
(* the sign-in of routers/auth.py), the nightly purge of dormant tokens    *)
(* (services/retention.py), and the rotation of the key they are stored    *)
(* under (db_models.py, services/token_crypto.py,                          *)
(* scripts/reencrypt_tokens.py).                                           *)
(*                                                                         *)
(* A grant is an access token and its refresh token; the provider takes a  *)
(* refresh token once and answers with the next grant.                     *)
(***************************************************************************)
EXTENDS Naturals, FiniteSets

CONSTANTS
    Syncs,          \* rating syncs after a duel
    Watches,        \* pushes of a suggestion to the provider's watchlist
    Imports,        \* library imports
    SignIns,        \* OAuth callbacks
    Script,         \* the re-encryption script
    NoTask          \* a row nobody has locked

Tasks == Syncs \cup Watches \cup Imports \cup SignIns

ASSUME TasksAssumption ==
    /\ IsFiniteSet(Tasks)
    /\ NoTask \notin Tasks \cup {Script} /\ Script \notin Tasks
    /\ Syncs \cap (Watches \cup Imports \cup SignIns) = {}
    /\ Watches \cap (Imports \cup SignIns) = {}
    /\ Imports \cap SignIns = {}

NoGrant == 0
Grants == 0..(Cardinality(Tasks) + 1)

\* What is encrypted, and under which of the two keys.
Ciphertext == [grant : Grants, key : {1, 2}]

Columns == {"access", "refresh"}

VARIABLES
    phase,      \* keys deployed: "old"; "both", the old one to read only; "new"
    row,        \* the encrypted columns, as committed
    due,        \* the access token expires within the hour
    dormant,    \* no sign-in and no refresh for DORMANT_TOKEN_RETENTION_DAYS
    live,       \* grants whose refresh token the provider still takes
    issued,     \* grants the provider has issued
    locked,     \* who holds the row lock
    pc,         \* where each task is
    obj,        \* the token columns as a task loaded them
    objDue,     \* ... and whether they were due
    got,        \* the grant a task has received and not committed
    read,       \* columns the script has read, with what it read
    swapped,    \* columns it has updated, not committed
    clean,      \* a run of the script has reported unreadable=0
    byImport,   \* grants an import has presented, without the row lock
    lost        \* grants presented or revoked in a transaction that failed

vars == <<phase, row, due, dormant, live, issued, locked, pc, obj, objDue, got,
          read, swapped, clean, byImport, lost>>

taskVars == <<pc, obj, objDue, got>>
scriptVars == <<read, swapped, clean>>
history == <<byImport, lost>>

Empty == [grant |-> NoGrant, key |-> 1]
NoObject == [c \in Columns |-> Empty]

TypeOK ==
    /\ phase \in {"old", "both", "new"}
    /\ row \in [Columns -> Ciphertext]
    /\ due \in BOOLEAN
    /\ dormant \in BOOLEAN
    /\ live \subseteq Grants
    /\ issued \in Grants
    /\ locked \in Tasks \cup {Script, NoTask}
    /\ pc \in [Tasks -> {"idle", "loaded", "locked", "holding", "flushed", "ended"}]
    /\ obj \in [Tasks -> [Columns -> Ciphertext]]
    /\ objDue \in [Tasks -> BOOLEAN]
    /\ got \in [Tasks -> Grants]
    /\ read \in [Columns -> Ciphertext]
    /\ swapped \subseteq Columns
    /\ clean \in BOOLEAN
    /\ byImport \subseteq Grants
    /\ lost \subseteq Grants

\* Signed in, under the old key.
Init ==
    /\ phase = "old"
    /\ row = [c \in Columns |-> [grant |-> 1, key |-> 1]]
    /\ due = FALSE
    /\ dormant = FALSE
    /\ live = {1}
    /\ issued = 1
    /\ locked = NoTask
    /\ pc = [t \in Tasks |-> "idle"]
    /\ obj = [t \in Tasks |-> NoObject]
    /\ objDue = [t \in Tasks |-> FALSE]
    /\ got = [t \in Tasks |-> NoGrant]
    /\ read = NoObject
    /\ swapped = {}
    /\ clean = FALSE
    /\ byImport = {}
    /\ lost = {}
-----------------------------------------------------------------------------
(* Encryption at rest *)

CurrentKey == IF phase = "old" THEN 1 ELSE 2

Encrypt(g) == [grant |-> g, key |-> CurrentKey]

\* With the current key, or with a key that is kept to read.
Decrypts(c) == c.key = CurrentKey \/ phase = "both"

\* A token that reads as "" is not there.
Has(c) == c.grant # NoGrant /\ Decrypts(c)

Outdated(c) == c.grant # NoGrant /\ Decrypts(c) /\ c.key # CurrentKey

\* Mutant of SameAsRead: an outdated value is an attribute like any other, and
\* is flushed whatever the row holds by now.
AnyValue(t, c) == TRUE

\* Only while the row still holds the ciphertext that was read.
SameAsRead(t, c) == row[c] = obj[t][c]

\* before_commit: what t has read under the old key is stored under the
\* current one.
Rotated(t, columns) ==
    [c \in Columns |->
        IF c \in columns /\ Outdated(obj[t][c]) /\ SameAsRead(t, c)
        THEN Encrypt(obj[t][c].grant)
        ELSE row[c]]
-----------------------------------------------------------------------------
(* Transactions of the tasks *)

RowFree(t) == locked \in {t, NoTask}

End(t) ==
    /\ pc' = [pc EXCEPT ![t] = "ended"]
    /\ obj' = [obj EXCEPT ![t] = NoObject]
    /\ objDue' = [objDue EXCEPT ![t] = FALSE]
    /\ got' = [got EXCEPT ![t] = NoGrant]
    /\ locked' = IF locked = t THEN NoTask ELSE locked

\* The row is read without a lock; without a token there is nothing to do.
Load(t) ==
    /\ t \in Syncs \cup Imports
    /\ pc[t] = "idle"
    /\ Has(row["access"])
    /\ pc' = [pc EXCEPT ![t] = "loaded"]
    /\ obj' = [obj EXCEPT ![t] = row]
    /\ objDue' = [objDue EXCEPT ![t] = due]
    /\ UNCHANGED <<phase, row, due, dormant, live, issued, locked, got>>
    /\ UNCHANGED <<scriptVars, history>>

\* Mutant of Reloaded: the identity map answers with the object it has.
NotReloaded(t) == IF t \in Syncs THEN obj[t] ELSE row

\* populate_existing, or the first load of a session: the row as it is now.
Reloaded(t) == row

Refreshes(t) == \/ t \in Syncs /\ pc[t] = "loaded" /\ objDue[t]
                \/ t \in Watches /\ pc[t] = "idle"

\* SELECT ... FOR UPDATE, and then the row is looked at again.
LockRow(t) ==
    /\ Refreshes(t)
    /\ locked = NoTask
    /\ locked' = t
    /\ pc' = [pc EXCEPT ![t] = "locked"]
    /\ obj' = [obj EXCEPT ![t] = Reloaded(t)]
    /\ objDue' = [objDue EXCEPT ![t] = due]
    /\ UNCHANGED <<phase, row, due, dormant, live, issued, got>>
    /\ UNCHANGED <<scriptVars, history>>

\* Nothing to refresh (any more): commit what has been read, the access token.
Settle(t) ==
    /\ \/ pc[t] = "loaded" /\ ~objDue[t]
       \/ pc[t] = "locked" /\ ~(objDue[t] /\ Has(obj[t]["access"]))
    /\ Rotated(t, {"access"}) # row => RowFree(t)
    /\ row' = Rotated(t, {"access"})
    /\ End(t)
    /\ UNCHANGED <<phase, due, dormant, live, issued>>
    /\ UNCHANGED <<scriptVars, history>>

\* ensure_fresh_token: an import goes on with the row it loaded.
Presents(t) ==
    \/ pc[t] = "locked" /\ objDue[t] /\ Has(obj[t]["access"])
    \/ t \in Imports /\ pc[t] = "loaded" /\ objDue[t]

Presented(t) == IF Decrypts(obj[t]["refresh"]) THEN obj[t]["refresh"].grant ELSE NoGrant

\* The provider takes the refresh token, for this once.
Refreshed(t) ==
    /\ Presents(t)
    /\ Presented(t) \in live
    /\ issued' = issued + 1
    /\ live' = (live \ {Presented(t)}) \cup {issued'}
    /\ got' = [got EXCEPT ![t] = issued']
    /\ pc' = [pc EXCEPT ![t] = "holding"]
    /\ byImport' = IF t \in Imports THEN byImport \cup {Presented(t)} ELSE byImport
    /\ UNCHANGED <<phase, row, due, dormant, locked, obj, objDue, scriptVars, lost>>

\* It refuses: the import ends as failed; a sync rolls back and goes on for the
\* other provider, if that is enabled, with a commit that stores the rotations
\* still noted on its session.
Refused(t) ==
    /\ Presents(t)
    /\ Presented(t) \notin live
    /\ \/ row' = row
       \/ t \in Syncs /\ row' = Rotated(t, Columns)
    /\ End(t)
    /\ UNCHANGED <<phase, due, dormant, live, issued, scriptVars, history>>

\* A sign-in exchanges its code for a grant of its own.
Exchange(t) ==
    /\ t \in SignIns
    /\ pc[t] = "idle"
    /\ issued' = issued + 1
    /\ live' = live \cup {issued'}
    /\ got' = [got EXCEPT ![t] = issued']
    /\ pc' = [pc EXCEPT ![t] = "holding"]
    /\ UNCHANGED <<phase, row, due, dormant, locked, obj, objDue, scriptVars, history>>

\* The UPDATE waits for the row lock and takes it.
Flush(t) ==
    /\ pc[t] = "holding"
    /\ RowFree(t)
    /\ locked' = t
    /\ pc' = [pc EXCEPT ![t] = "flushed"]
    /\ UNCHANGED <<phase, row, due, dormant, live, issued, obj, objDue, got, scriptVars, history>>

\* Both columns are set; the pending rotation no longer finds what it read.
Commit(t) ==
    /\ pc[t] = "flushed"
    /\ row' = [c \in Columns |-> Encrypt(got[t])]
    /\ due' = FALSE
    /\ dormant' = FALSE
    /\ End(t)
    /\ UNCHANGED <<phase, live, issued, scriptVars, history>>

\* What is lost when t ends without a commit: the token it has presented.
Forfeited(t) == IF pc[t] \in {"holding", "flushed"} /\ t \notin SignIns
                THEN {obj[t]["refresh"].grant} ELSE {}

Abort(t) ==
    /\ pc[t] \in {"loaded", "locked", "holding", "flushed"}
    /\ lost' = lost \cup Forfeited(t)
    /\ End(t)
    /\ UNCHANGED <<phase, row, due, dormant, live, issued, scriptVars, byImport>>
-----------------------------------------------------------------------------
(* Time and the nightly purge *)

Lapse ==
    /\ row # NoObject
    /\ due' = TRUE
    /\ dormant' \in {dormant, TRUE}
    /\ UNCHANGED <<phase, row, live, issued, locked, taskVars, scriptVars, history>>

\* Best effort: a token that can be decrypted, at a provider that answers.
RevokeProviderTokens ==
    live' \in {live, IF Has(row["access"]) THEN live \ {row["access"].grant} ELSE live}

\* The row is locked, cleared, and its token revoked, all before the commit,
\* which may fail.
PurgeDormantTokens ==
    /\ dormant
    /\ locked = NoTask
    /\ \E c \in Columns : row[c].grant # NoGrant
    /\ RevokeProviderTokens
    /\ \/ /\ row' = NoObject
          /\ due' = FALSE
          /\ UNCHANGED lost
       \/ /\ lost' = lost \cup {row["access"].grant}
          /\ UNCHANGED <<row, due>>
    /\ UNCHANGED <<phase, dormant, issued, locked, taskVars, scriptVars, byImport>>
-----------------------------------------------------------------------------
(* The re-encryption script: one transaction over all columns *)

\* Mutant of ScriptColumns: the column the requests read, only.
ColumnsReadOften == {"access"}

ScriptColumns == Columns

ScriptRead(c) ==
    /\ phase = "both"
    /\ c \in ScriptColumns
    /\ read[c] = Empty
    /\ row[c].grant # NoGrant
    /\ read' = [read EXCEPT ![c] = row[c]]
    /\ UNCHANGED <<phase, row, due, dormant, live, issued, locked, taskVars, swapped, clean, history>>

\* The compare and swap waits for the row and keeps it locked.
ScriptSwap(c) ==
    /\ Outdated(read[c])
    /\ c \notin swapped
    /\ RowFree(Script)
    /\ row[c] = read[c]
    /\ locked' = Script
    /\ swapped' = swapped \cup {c}
    /\ UNCHANGED <<phase, row, due, dormant, live, issued, taskVars, read, clean, history>>

ScriptDone(c) ==
    \/ row[c].grant = NoGrant \/ c \notin ScriptColumns     \* not listed, or cleared since
    \/ read[c] # Empty /\ (Outdated(read[c]) => c \in swapped \/ row[c] # read[c])

ScriptEnd ==
    /\ read' = NoObject
    /\ swapped' = {}
    /\ locked' = IF locked = Script THEN NoTask ELSE locked

\* Deploys follow the script's report unreadable=0.
ScriptCommit ==
    /\ phase = "both"
    /\ \A c \in Columns : ScriptDone(c)
    /\ row' = [c \in Columns |-> IF c \in swapped THEN Encrypt(row[c].grant) ELSE row[c]]
    /\ clean' = TRUE
    /\ ScriptEnd
    /\ UNCHANGED <<phase, due, dormant, live, issued, taskVars, history>>

ScriptAbort ==
    /\ read # NoObject
    /\ ScriptEnd
    /\ UNCHANGED <<phase, row, due, dormant, live, issued, taskVars, clean, history>>

\* A deploy ends the process and what it was doing.
Deploy ==
    /\ \/ phase = "old" /\ phase' = "both"
       \/ phase = "both" /\ clean /\ phase' = "new"
    /\ read = NoObject
    /\ lost' = lost \cup UNION { Forfeited(t) : t \in Tasks }
    /\ pc' = [t \in Tasks |-> IF pc[t] = "idle" THEN "idle" ELSE "ended"]
    /\ obj' = [t \in Tasks |-> NoObject]
    /\ objDue' = [t \in Tasks |-> FALSE]
    /\ got' = [t \in Tasks |-> NoGrant]
    /\ locked' = NoTask
    /\ UNCHANGED <<row, due, dormant, live, issued, scriptVars, byImport>>

Next ==
    \/ \E t \in Tasks :
          \/ Load(t) \/ LockRow(t) \/ Settle(t)
          \/ Refreshed(t) \/ Refused(t) \/ Exchange(t)
          \/ Flush(t) \/ Commit(t) \/ Abort(t)
    \/ \E c \in Columns : ScriptRead(c) \/ ScriptSwap(c)
    \/ ScriptCommit \/ ScriptAbort \/ Deploy
    \/ Lapse \/ PurgeDormantTokens

Spec == Init /\ [][Next]_vars
-----------------------------------------------------------------------------
(* Properties *)

\* The stored columns belong to one grant, and the provider still takes its
\* refresh token, unless a task holds the answer that will replace it or the
\* transaction that spent it has failed.  Neither a rotation on read nor the
\* script may put back a value that was replaced (db_models.py:105).
StoredIsLive ==
    /\ row["access"].grant = row["refresh"].grant
    /\ LET g == row["refresh"].grant
       IN  \/ g \in live \cup lost \cup {NoGrant}
           \/ \E t \in Tasks : got[t] # NoGrant /\ obj[t]["refresh"].grant = g

\* The tasks that take the row lock never spend a token twice: what one of
\* them presents is live unless an import, a failure or a purge has spent it
\* (sync.py:115: the row is read again once it is locked).
SerializedRefreshes ==
    \A t \in Tasks : pc[t] = "locked" /\ Presents(t) =>
        Presented(t) \in live \cup byImport \cup lost

\* Whatever is stored can be read under the keys deployed, to the end of a
\* rotation that follows docs/PRD.md:136.
Readable == \A c \in Columns : row[c].grant # NoGrant => Decrypts(row[c])
=============================================================================
