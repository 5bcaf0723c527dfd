----------------------------- MODULE Suggestions -----------------------------
(***************************************************************************)
(* AI suggestions (routers/suggestions.py, services/suggest.py) and the    *)
(* LLM client they share with tournament curation (services/llm.py): when  *)
(* a batch of suggestions is generated, by whom, how often, and which      *)
(* pooled database connections wait for the LLM meanwhile.                 *)
(*                                                                         *)
(* The advisory lock, the batches and the caps are those of one user; the  *)
(* connection pool and the LLM slots are those of the process, which       *)
(* serves the curations of others too.                                     *)
(***************************************************************************)
EXTENDS SuggestionLedger

CONSTANTS
    Gets,           \* requests: GET /api/suggestions,
    Regenerations,  \* POST /api/suggestions/regenerate,
    CardActions,    \* dismiss, watchlist or seen, on one suggestion,
    Curations,      \* and tournaments curated by the LLM, of any user
    Slots,          \* LLM_MAX_CONCURRENT, 2
    PoolCapacity,   \* DB_POOL_SIZE + DB_MAX_OVERFLOW, 5
    Asked,          \* the media types the requests may ask for
    NoRequest       \* a free advisory lock

Requests == Gets \cup Regenerations \cup CardActions \cup Curations

\* llm_slots_below_pool_capacity refuses any other configuration.
ASSUME SlotsAssumption == Slots \in Nat \ {0} /\ PoolCapacity \in Nat /\ Slots < PoolCapacity
ASSUME AskedAssumption == Asked \subseteq [Requests -> Media]
ASSUME RequestsAssumption ==
    /\ NoRequest \notin Requests
    /\ IsFiniteSet(Requests)
    /\ Regenerations \cap (Gets \cup CardActions \cup Curations) = {}
    /\ Gets \cap (CardActions \cup Curations) = {}
    /\ CardActions \cap Curations = {}

VARIABLES
    holder,     \* who holds the "suggestions_regen" advisory lock
    pc,         \* where each request is
    media,      \* the media type it asks for
    start,      \* the time a GET took its cutoff from
    marked      \* batches whose rows it has updated, or is about to

requestVars == <<holder, pc, media, start, marked>>
vars == <<now, batches, cooling, holder, pc, media, start, marked>>

TypeOK ==
    /\ now \in Nat
    /\ batches \in Seq(Batch)
    /\ cooling \in [Media -> Nat]
    /\ holder \in Requests \cup {NoRequest}
    /\ pc \in [Requests -> {"queued", "stale", "asking", "calling", "acting", "answered", "refused"}]
    /\ media \in [Requests -> Media]
    /\ start \in [Requests -> Nat]
    /\ marked \in [Requests -> SUBSET Nat]

Init ==
    /\ LedgerInit
    /\ holder = NoRequest
    /\ pc = [r \in Requests |-> "queued"]
    /\ media \in Asked
    /\ start = [r \in Requests |-> 0]
    /\ marked = [r \in Requests |-> {}]
-----------------------------------------------------------------------------
(* What a request can see *)

\* latest > cutoff: the newest batch of the media, dismissed or not, is recent.
Fresh(m, t) == \E i \in Visible : batches[i].media = m /\ batches[i].at > t - Stale

\* Mutant of Counted: the day is the one of the media asked for.
CountedPerMedia(r) ==
    { i \in Visible : batches[i].at > now - Stale /\ batches[i].media = media[r] }

\* Batches of the last 24 hours, of both media and of both origins.
Counted(r) == { i \in Visible : batches[i].at > now - Stale }

UnderCap(r) == Cardinality(Counted(r)) < MaxRegens

\* Mutant of LockFree: several requests may hold the lock.
LockIgnored == TRUE

LockFree == holder = NoRequest

Calling == { r \in Requests : pc[r] = "calling" }

SlotFree == Cardinality(Calling) < Slots

\* Mutant of Pinned: a failed request does not return its connection.
PinnedOnceFailed ==
    { r \in Requests : pc[r] \in {"stale", "asking", "calling", "acting", "refused"} }

\* Requests that hold a pooled connection.
Pinned == { r \in Requests : pc[r] \in {"stale", "asking", "calling", "acting"} }

ConnectionFree == Cardinality(Pinned) < PoolCapacity

\* The UPDATE of a regeneration is flushed before the LLM is called, so its
\* rows stay locked during the call.
RowFree(i) == \A q \in Regenerations : pc[q] \in {"asking", "calling"} => i \notin marked[q]
-----------------------------------------------------------------------------
(* Ends of a request: the transaction is over, the lock and rows released *)

Leave(r, how) ==
    /\ pc' = [pc EXCEPT ![r] = how]
    /\ start' = [start EXCEPT ![r] = 0]
    /\ marked' = [marked EXCEPT ![r] = {}]
    /\ holder' = IF holder = r THEN NoRequest ELSE holder

\* 200: what there is to show, or the reason there is nothing.
Answer(r) == Leave(r, "answered")

\* 429 and 404, before anything was written.
Refuse(r) == Leave(r, "refused")

\* Mutant of Rollback: the dismissals were committed before the call.
RollbackPart(r) ==
    batches' = [i \in DOMAIN batches |->
                   IF i \in marked[r] THEN [batches[i] EXCEPT !.active = FALSE] ELSE batches[i]]

\* get_db rolls back: the rows marked by r are as they were.
Rollback(r) == UNCHANGED batches

Committed(r) == Dismissed(marked[r])

\* 500 and 503.
Fail(r) == Leave(r, "refused") /\ Rollback(r)
-----------------------------------------------------------------------------
Connects(r) == pc[r] = "queued" /\ ConnectionFree

\* No consent, AI features off, or fewer than 20 ranked films of the media.
Ineligible(r) ==
    /\ r \in Gets \cup Regenerations
    /\ Connects(r)
    /\ Answer(r) \/ Refuse(r)
    /\ UNCHANGED <<now, batches, cooling, media>>

\* GET, up to its first look at the newest batch, which takes no lock.
Refresh(r) ==
    /\ r \in Gets
    /\ Connects(r)
    /\ \/ /\ Fresh(media[r], now)
          /\ Answer(r)
       \/ /\ ~Fresh(media[r], now)
          /\ start' = [start EXCEPT ![r] = now]
          /\ pc' = [pc EXCEPT ![r] = "stale"]
          /\ UNCHANGED <<holder, marked>>
    /\ UNCHANGED <<now, batches, cooling, media>>

\* Another request holds the lock: show what there is, do not wait.
Outrun(r) ==
    /\ pc[r] = "stale"
    /\ ~LockFree
    /\ IF Shown(media[r]) # {} THEN Answer(r) ELSE Refuse(r)
    /\ UNCHANGED <<now, batches, cooling, media>>

\* Mutant of StillStale: what was read before the lock is not read again.
StaleAsRead(r) == TRUE

StillStale(r) == ~Fresh(media[r], start[r])

Cooling(r) == now < cooling[media[r]]

\* With the lock the newest batch is read again.
LockStale(r) ==
    /\ pc[r] = "stale"
    /\ LockFree
    /\ \/ /\ ~StillStale(r) \/ Cooling(r)
          /\ Answer(r)
       \/ /\ StillStale(r)
          /\ ~Cooling(r)
          /\ holder' = r
          /\ pc' = [pc EXCEPT ![r] = "asking"]
          /\ UNCHANGED <<start, marked>>
    /\ UNCHANGED <<now, batches, cooling, media>>

\* POST regenerate: refuse when the lock is taken or the day is spent, else
\* dismiss what is shown and go on to ask.
Regenerate(r) ==
    /\ r \in Regenerations
    /\ Connects(r)
    /\ \/ ~LockFree /\ Refuse(r)
       \/ LockFree /\ ~UnderCap(r) /\ Refuse(r)
       \/ /\ LockFree
          /\ UnderCap(r)
          /\ holder' = r
          /\ marked' = [marked EXCEPT ![r] = Shown(media[r])]
          /\ pc' = [pc EXCEPT ![r] = "asking"]
          /\ UNCHANGED start
    /\ UNCHANGED <<now, batches, cooling, media>>

\* The curation of a tournament; its own lock and rows are in Tournament.
Curate(r) ==
    /\ r \in Curations
    /\ Connects(r)
    /\ pc' = [pc EXCEPT ![r] = "asking"]
    /\ UNCHANGED <<now, batches, cooling, holder, media, start, marked>>

\* No suggestion and no error: an answer, so what was dismissed is committed.
EmptyHanded(r) ==
    /\ Answer(r)
    /\ batches' = Committed(r)

\* generate_suggestions returns without a call: too few candidates.
NothingToAsk(r) ==
    /\ pc[r] = "asking"
    /\ r \notin Curations
    /\ EmptyHanded(r)
    /\ UNCHANGED <<now, cooling, media>>

\* Both slots taken: LLMBusyError, 503 at once.
NoSlot(r) ==
    /\ pc[r] = "asking"
    /\ ~SlotFree
    /\ Fail(r)
    /\ UNCHANGED <<now, cooling, media>>

\* The slot is tested and taken without an await in between.
Call(r) ==
    /\ pc[r] = "asking"
    /\ SlotFree
    /\ pc' = [pc EXCEPT ![r] = "calling"]
    /\ UNCHANGED <<now, batches, cooling, holder, media, start, marked>>

NewBatch(r) == Generated(media[r], r \in Gets)

\* Usable picks: the dismissals and the new batch are committed together.
ReplyPicks(r) ==
    /\ pc[r] = "calling"
    /\ r \notin Curations
    /\ Answer(r)
    /\ batches' = Append(Committed(r), NewBatch(r))
    /\ UNCHANGED <<now, cooling, media>>

\* Well-formed, but no pick is a candidate.
ReplyEmpty(r) ==
    /\ pc[r] = "calling"
    /\ r \notin Curations
    /\ OpenWindow(media[r])
    /\ EmptyHanded(r)
    /\ UNCHANGED <<now, media>>

\* No list of picks, or none well-formed: counted as empty and then an error.
ReplyMalformed(r) ==
    /\ pc[r] = "calling"
    /\ r \notin Curations
    /\ OpenWindow(media[r])
    /\ Fail(r)
    /\ UNCHANGED <<now, media>>

\* The call times out or the provider refuses.
ReplyFailed(r) ==
    /\ pc[r] = "calling"
    /\ Fail(r)
    /\ UNCHANGED <<now, cooling, media>>

\* The curation goes on with what it got.
ReplyCurated(r) ==
    /\ pc[r] = "calling"
    /\ r \in Curations
    /\ Answer(r)
    /\ UNCHANGED <<now, batches, cooling, media>>

\* Dismiss, watchlist, seen: read the row without a lock ...
OpenCard(r) ==
    /\ r \in CardActions
    /\ Connects(r)
    /\ \E i \in Visible :
          /\ batches[i].media = media[r]
          /\ marked' = [marked EXCEPT ![r] = {i}]
    /\ pc' = [pc EXCEPT ![r] = "acting"]
    /\ UNCHANGED <<now, batches, cooling, holder, media, start>>

\* ... or find none: 404.
NoCard(r) ==
    /\ r \in CardActions
    /\ Connects(r)
    /\ \A i \in Visible : batches[i].media # media[r]
    /\ Refuse(r)
    /\ UNCHANGED <<now, batches, cooling, media>>

\* ... and write it, once its row is free; the card may be the last one shown.
WriteCard(r) ==
    /\ pc[r] = "acting"
    /\ \A i \in marked[r] : RowFree(i)
    /\ batches' \in {batches, Committed(r)}
    /\ Answer(r)
    /\ UNCHANGED <<now, cooling, media>>

\* A database error, or no connection within the pool's timeout.
Abort(r) ==
    /\ pc[r] \in {"queued", "stale", "asking", "acting"}
    /\ Fail(r)
    /\ UNCHANGED <<now, cooling, media>>

Reply(r) ==
    \/ ReplyPicks(r) \/ ReplyEmpty(r) \/ ReplyMalformed(r) \/ ReplyFailed(r) \/ ReplyCurated(r)

Handle(r) ==
    \/ Ineligible(r)
    \/ Refresh(r) \/ Outrun(r) \/ LockStale(r)
    \/ Regenerate(r)
    \/ Curate(r)
    \/ NothingToAsk(r) \/ NoSlot(r) \/ Call(r)
    \/ OpenCard(r) \/ NoCard(r) \/ WriteCard(r)

Next ==
    \/ Tick /\ UNCHANGED requestVars
    \/ \E r \in Requests : Handle(r) \/ Reply(r) \/ Abort(r)

\* A handler that can go on does; an LLM call ends within LLM_TIMEOUT_SECONDS.
Fairness == \A r \in Requests : WF_vars(Handle(r) \/ Reply(r))

Spec == Init /\ [][Next]_vars /\ Fairness
-----------------------------------------------------------------------------
(* Properties *)

\* A generation takes effect in one step, at its commit, or not at all: what
\* the request looked at before the LLM was called is due then, whatever other
\* tabs did meanwhile, and nothing it was to replace is still shown.
GenerationsAreAtomic == LedgerSpec

\* No GET waits for the LLM about a media whose last reply was empty less than
\* an hour ago, also when the two were asked for at the same time (SEC-11).
NoCallWhileCooling ==
    \A r \in Calling \cap Gets : now >= cooling[media[r]]

\* Cards disappear at the hand of the user, or with a regeneration that
\* answers: a failed one leaves what was shown.
KeptOnFailure ==
    [][\A i \in DOMAIN batches : batches[i].active /\ ~batches'[i].active =>
          \E r \in Requests :
              pc[r] # "answered" /\ pc'[r] = "answered"]_vars

\* Every request ends: none waits for ever for a connection, a lock, a slot or
\* a row another request has updated.
EveryRequestEnds == \A r \in Requests : <>(pc[r] \in {"answered", "refused"})

-----------------------------------------------------------------------------
(* Promises the code breaks: TLC refutes them (README, section 3) *)

\* openspec/specs/ai-suggestions/spec.md: automatic refreshes do not count
\* against the cap.
AutomaticNotCounted ==
    \A r \in Regenerations :
        Cardinality({ i \in Counted(r) : ~batches[i].auto }) < MaxRegens => UnderCap(r)

\* Connections that wait for an LLM call, in it or for a row it keeps locked.
WaitingForLlm ==
    Calling \cup { r \in CardActions : pc[r] = "acting" /\ \E i \in marked[r] : ~RowFree(i) }

\* What config.py:297 promises: whatever waits for the LLM, one connection is
\* left for everything else.
RoomInPool == Cardinality(WaitingForLlm) < PoolCapacity
=============================================================================
