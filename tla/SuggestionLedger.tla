--------------------------- MODULE SuggestionLedger ---------------------------
(***************************************************************************)
(* What suggestions promise one user: a generation takes effect as a whole *)
(* or not at all, in one step, and only when it is due at that moment.  A  *)
(* refresh adds to batches that are all a day old; a regeneration, within  *)
(* the cap, takes away whatever is shown of its media.  Suggestions.tla    *)
(* shows that the handlers, which wait for the LLM in between, implement   *)
(* this.                                                                   *)
(***************************************************************************)
EXTENDS Integers, FiniteSets, Sequences

CONSTANTS
    Media,          \* "movie" and "show"
    Stale,          \* STALE_HOURS, and the window of the cap: 24 hours
    MaxRegens,      \* MAX_REGENERATIONS_PER_DAY, 3
    Cooldown,       \* EMPTY_SUGGESTIONS_COOLDOWN, one hour
    Retention,      \* SUGGESTION_RETENTION_DAYS, 180 days
    InitialBatches, \* what the user's suggestions may be at first
    MaxTime         \* bound on the clock

Batch == [at : Int, media : Media, auto : BOOLEAN, active : BOOLEAN]

ASSUME BoundsAssumption ==
    /\ Stale \in Nat \ {0} /\ MaxRegens \in Nat \ {0} /\ Cooldown \in Nat
    /\ Retention \in Nat /\ MaxTime \in Nat
ASSUME RetentionAssumption == Stale <= Retention
ASSUME InitialAssumption ==
    \A past \in InitialBatches : past \in Seq(Batch) /\ \A i \in DOMAIN past : past[i].at <= 0

RefreshedDaily(history) ==
    \A j \in DOMAIN history : history[j].auto =>
        \A i \in 1..(j - 1) : history[i].media = history[j].media =>
            history[i].at + Stale <= history[j].at

RegeneratedWithinCap(history) ==
    \A j \in DOMAIN history : ~history[j].auto =>
        Cardinality({ i \in 1..j : history[i].at > history[j].at - Stale }) <= MaxRegens

\* The same handlers wrote what is there at first.
ASSUME PastAssumption ==
    \A past \in InitialBatches : RefreshedDaily(past) /\ RegeneratedWithinCap(past)

VARIABLES
    now,        \* the clock
    batches,    \* every batch of suggestions ever committed, oldest first;
                \* "active" while one of its cards is not dismissed
    cooling     \* per media, when the window opened by an empty reply ends

ledgerVars == <<now, batches, cooling>>

LedgerInit ==
    /\ now = 0
    /\ batches \in InitialBatches
    /\ cooling = [m \in Media |-> 0]
-----------------------------------------------------------------------------
\* Rows the nightly purge has not deleted yet.
Visible == { i \in DOMAIN batches : batches[i].at + Retention >= now }

Shown(m) == { i \in Visible : batches[i].media = m /\ batches[i].active }

\* Every batch of the media is stale, purged ones included, and no window of
\* an empty reply is open.
Due(m) ==
    /\ \A i \in DOMAIN batches : batches[i].media = m => batches[i].at + Stale <= now
    /\ now >= cooling[m]

Recent == { i \in DOMAIN batches : batches[i].at > now - Stale }

Dismissed(gone) ==
    [i \in DOMAIN batches |->
        IF i \in gone THEN [batches[i] EXCEPT !.active = FALSE] ELSE batches[i]]

Generated(m, auto) == [at |-> now, media |-> m, auto |-> auto, active |-> TRUE]

\* record_empty_suggestions: a fixed window that later hits do not extend.
OpenWindow(m) == cooling' = [cooling EXCEPT ![m] = IF now < @ THEN @ ELSE now + Cooldown]
-----------------------------------------------------------------------------
\* A GET that generates: a batch beside what is there, or a window.
Refreshes(m) ==
    /\ Due(m)
    /\ \/ batches' = Append(batches, Generated(m, TRUE)) /\ UNCHANGED cooling
       \/ UNCHANGED batches /\ OpenWindow(m)
    /\ UNCHANGED now

\* A regeneration: what is shown goes, whether there is a new batch or none;
\* or all stays, with a window, after a reply that is none.
Regenerates(m) ==
    /\ Cardinality(Recent) < MaxRegens
    /\ \E gone \in SUBSET { i \in DOMAIN batches : batches[i].media = m } :
          /\ Shown(m) \subseteq gone
          /\ \/ batches' = Append(Dismissed(gone), Generated(m, FALSE)) /\ UNCHANGED cooling
             \/ batches' = Dismissed(gone) /\ (UNCHANGED cooling \/ OpenWindow(m))
             \/ UNCHANGED batches /\ OpenWindow(m)
    /\ UNCHANGED now

\* The user is done with the last card of a batch.
Dismiss(i) ==
    /\ batches' = Dismissed({i})
    /\ UNCHANGED <<now, cooling>>

Tick ==
    /\ now < MaxTime
    /\ now' = now + 1
    /\ UNCHANGED <<batches, cooling>>

LedgerNext ==
    \/ \E m \in Media : Refreshes(m) \/ Regenerates(m)
    \/ \E i \in DOMAIN batches : Dismiss(i)
    \/ Tick

LedgerSpec == LedgerInit /\ [][LedgerNext]_ledgerVars
-----------------------------------------------------------------------------
(* Properties *)

\* A batch generated by a GET is at least a day younger than every earlier
\* batch of its media, however many tabs found the old one stale at once
\* (AUD-08: one generation at a time, and freshness read again under the lock).
OnlyWhenStale == RefreshedDaily(batches)

\* A regenerated batch is at most the MaxRegens-th of the 24 hours that end
\* with it, for both media together and with parallel requests (SEC-02).
RegenCap == RegeneratedWithinCap(batches)
=============================================================================
