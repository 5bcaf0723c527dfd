-------------------------- MODULE SuggestionsProofs --------------------------
(***************************************************************************)
(* Proofs about Suggestions, for any number of requests, caps, times and   *)
(* pool sizes.  The argument is the advisory lock: one request of the user *)
(* generates at a time, so the history of batches and the window of empty  *)
(* replies it looked at do not change until it writes.                     *)
(***************************************************************************)
EXTENDS Suggestions, FiniteSetTheorems, SequenceTheorems, TLAPS

-----------------------------------------------------------------------------
(* The invariant *)

Generating(r) == pc[r] \in {"asking", "calling"}

\* One request at a time generates for the user: the one with the lock.
OneGenerates ==
    \A r \in Requests : holder = r <=> r \in Gets \cup Regenerations /\ Generating(r)

Roles ==
    /\ \A r \in Requests : pc[r] = "stale" => r \in Gets
    /\ \A r \in CardActions : ~Generating(r)

TimesPast ==
    /\ \A r \in Requests : start[r] <= now
    /\ \A i \in DOMAIN batches : batches[i].at <= now

SuggestionsInv ==
    /\ TypeOK
    /\ OneGenerates
    /\ Roles
    /\ TimesPast
    /\ OnlyWhenStale
    /\ RegenCap
    /\ \A r \in Gets : holder = r => Due(media[r])
    /\ \A r \in Regenerations : holder = r => Cardinality(Recent) < MaxRegens
-----------------------------------------------------------------------------
(* Histories *)

\* What a dismissal leaves as it was.
SameHistory(g, h) ==
    /\ DOMAIN g = DOMAIN h
    /\ \A i \in DOMAIN g : g[i].at = h[i].at /\ g[i].media = h[i].media /\ g[i].auto = h[i].auto

LEMMA CommittedKeeps ==
    ASSUME TypeOK, NEW r \in Requests
    PROVE  /\ Committed(r) \in Seq(Batch) /\ Len(Committed(r)) = Len(batches)
           /\ SameHistory(Committed(r), batches)
<1>1. batches \in Seq(Batch) /\ Len(batches) \in Nat /\ DOMAIN batches = 1..Len(batches)
  BY DEF TypeOK
<1>2. ASSUME NEW i \in 1..Len(batches)
      PROVE  /\ batches[i] \in Batch
             /\ [batches[i] EXCEPT !.active = FALSE] \in Batch
             /\ [batches[i] EXCEPT !.active = FALSE].at = batches[i].at
             /\ [batches[i] EXCEPT !.active = FALSE].media = batches[i].media
             /\ [batches[i] EXCEPT !.active = FALSE].auto = batches[i].auto
  <2>1. batches[i] \in Batch
    BY <1>1, ElementOfSeq
  <2> QED
    BY <2>1 DEF Batch
<1>3. DOMAIN Committed(r) = 1..Len(batches)
  BY <1>1 DEF Committed, Dismissed
<1>4. \A i \in 1..Len(batches) :
        Committed(r)[i] = IF i \in marked[r] THEN [batches[i] EXCEPT !.active = FALSE] ELSE batches[i]
  BY <1>1 DEF Committed, Dismissed
<1>5. \A i \in 1..Len(batches) :
        /\ Committed(r)[i] \in Batch
        /\ Committed(r)[i].at = batches[i].at
        /\ Committed(r)[i].media = batches[i].media
        /\ Committed(r)[i].auto = batches[i].auto
  BY <1>2, <1>4
<1>6. Committed(r) \in [1..Len(batches) -> Batch]
  BY <1>3, <1>5 DEF Committed, Dismissed
<1>7. Committed(r) \in Seq(Batch)
  BY <1>1, <1>6, SeqDef
<1>8. Len(Committed(r)) = Len(batches)
  BY <1>1, <1>3, <1>7, LenProperties
<1> QED
  BY <1>1, <1>3, <1>5, <1>7, <1>8 DEF SameHistory

LEMMA SameHistoryKeeps ==
    ASSUME NEW g \in Seq(Batch), NEW h \in Seq(Batch), SameHistory(g, h)
    PROVE  /\ RefreshedDaily(h) => RefreshedDaily(g)
           /\ RegeneratedWithinCap(h) => RegeneratedWithinCap(g)
<1>1. DOMAIN g = 1..Len(g) /\ DOMAIN h = 1..Len(h) /\ Len(g) \in Nat
  OBVIOUS
<1>2. ASSUME NEW j \in DOMAIN g
      PROVE  \A i \in 1..j : g[i].at = h[i].at /\ g[i].media = h[i].media
  BY <1>1 DEF SameHistory
<1>3. ASSUME NEW j \in DOMAIN g
      PROVE  { i \in 1..j : g[i].at > g[j].at - Stale } = { i \in 1..j : h[i].at > h[j].at - Stale }
  BY <1>2 DEF SameHistory
<1>4. RefreshedDaily(h) => RefreshedDaily(g)
  BY <1>1 DEF SameHistory, RefreshedDaily
<1>5. RegeneratedWithinCap(h) => RegeneratedWithinCap(g)
  BY <1>3 DEF SameHistory, RegeneratedWithinCap
<1> QED
  BY <1>4, <1>5

\* One more batch, written now by a request with the right to it.
LEMMA OneMoreBatch ==
    ASSUME NEW g \in Seq(Batch), NEW b \in Batch,
           RefreshedDaily(g), RegeneratedWithinCap(g),
           b.auto => \A i \in DOMAIN g : g[i].media = b.media => g[i].at + Stale <= b.at,
           ~b.auto => Cardinality({ i \in DOMAIN g : g[i].at > b.at - Stale }) < MaxRegens
    PROVE  RefreshedDaily(Append(g, b)) /\ RegeneratedWithinCap(Append(g, b))
<1> DEFINE h == Append(g, b)
           n == Len(g)
           late == { i \in DOMAIN g : g[i].at > b.at - Stale }
<1>1. n \in Nat /\ DOMAIN g = 1..n /\ DOMAIN h = 1..(n + 1)
  OBVIOUS
<1>2. h[n + 1] = b /\ \A i \in 1..n : h[i] = g[i]
  OBVIOUS
<1>3. \A i \in 1..n : g[i] \in Batch
  BY ElementOfSeq
<1> HIDE DEF h, n
<1>4. RefreshedDaily(h)
  <2> SUFFICES ASSUME NEW j \in 1..(n + 1), h[j].auto, NEW i \in 1..(j - 1), h[i].media = h[j].media
               PROVE  h[i].at + Stale <= h[j].at
    BY <1>1 DEF RefreshedDaily
  <2>1. CASE j \in 1..n
    BY <1>1, <1>2, <2>1 DEF RefreshedDaily
  <2>2. CASE j = n + 1
    BY <1>1, <1>2, <2>2
  <2> QED
    BY <1>1, <2>1, <2>2
<1>5. RegeneratedWithinCap(h)
  <2> SUFFICES ASSUME NEW j \in 1..(n + 1), ~h[j].auto
               PROVE  Cardinality({ i \in 1..j : h[i].at > h[j].at - Stale }) <= MaxRegens
    BY <1>1 DEF RegeneratedWithinCap
  <2>1. CASE j \in 1..n
    <3>1. { i \in 1..j : h[i].at > h[j].at - Stale } = { i \in 1..j : g[i].at > g[j].at - Stale }
      BY <1>1, <1>2, <2>1
    <3> QED
      BY <1>1, <1>2, <2>1, <3>1 DEF RegeneratedWithinCap
  <2>2. CASE j = n + 1
    <3>1. h[j] = b /\ b.at \in Int /\ Stale \in Nat \ {0}
      BY <1>2, <2>2, BoundsAssumption DEF Batch
    <3>2. { i \in 1..j : h[i].at > h[j].at - Stale } = late \cup {n + 1}
      BY <1>1, <1>2, <2>2, <3>1
    <3>3. IsFiniteSet(late)
      <4>1. 1 \in Int /\ n \in Int
        BY <1>1
      <4>2. IsFiniteSet(1..n)
        BY <4>1, FS_Interval
      <4> QED
        BY <1>1, <4>2, FS_Subset
    <3>4. n + 1 \notin late
      BY <1>1
    <3> HIDE DEF late
    <3>5. Cardinality(late \cup {n + 1}) = Cardinality(late) + 1 /\ Cardinality(late) \in Nat
      BY <3>3, <3>4, FS_AddElement, FS_CardinalityType
    <3>6. Cardinality(late) < MaxRegens /\ MaxRegens \in Nat
      BY <1>2, <2>2, BoundsAssumption DEF late
    <3>7. Cardinality(late \cup {n + 1}) <= MaxRegens
      BY <3>5, <3>6
    <3> QED
      BY <3>2, <3>7
  <2> QED
    BY <1>1, <2>1, <2>2
<1> QED
  BY <1>4, <1>5 DEF h
-----------------------------------------------------------------------------
(* Ends *)

\* The ways a request ends that open no window and add no batch: what it may
\* have dismissed is committed, or is not.
QuietEnd(r) ==
    /\ \E how \in {"answered", "refused"} : Leave(r, how)
    /\ batches' \in {batches, Committed(r)}
    /\ UNCHANGED <<now, cooling, media>>

LEMMA LeaveType ==
    ASSUME TypeOK, NEW r \in Requests, NEW how \in {"answered", "refused"}, Leave(r, how)
    PROVE  /\ holder' \in Requests \cup {NoRequest}
           /\ pc' \in [Requests -> {"queued", "stale", "asking", "calling", "acting", "answered", "refused"}]
           /\ start' \in [Requests -> Nat]
           /\ marked' \in [Requests -> SUBSET Nat]
    BY DEF TypeOK, Leave

\* A request that ends gives the lock up and changes nothing of the others.
LEMMA LeaveKeeps ==
    ASSUME SuggestionsInv, NEW r \in Requests, NEW how \in {"answered", "refused"}, Leave(r, how),
           UNCHANGED now
    PROVE  /\ OneGenerates' /\ Roles'
           /\ \A q \in Requests : start'[q] <= now'
           /\ \A q \in Requests : holder' = q => holder = q /\ q # r
<1>1. pc'[r] = how /\ \A q \in Requests \ {r} : pc'[q] = pc[q]
  BY DEF SuggestionsInv, TypeOK, Leave
<1>2. holder' # r /\ \A q \in Requests \ {r} : holder' = q <=> holder = q
  BY RequestsAssumption DEF SuggestionsInv, Leave
<1>3. OneGenerates'
  BY <1>1, <1>2 DEF SuggestionsInv, OneGenerates, Generating
<1>4. Roles'
  BY <1>1 DEF SuggestionsInv, Roles, Generating, Requests
<1>5. \A q \in Requests : start'[q] \in {start[q], 0}
  BY DEF SuggestionsInv, TypeOK, Leave
<1>6. \A q \in Requests : start'[q] <= now'
  <2>1. now \in Nat /\ \A q \in Requests : start[q] <= now
    BY DEF SuggestionsInv, TypeOK, TimesPast
  <2>2. 0 <= now /\ now' = now
    BY <2>1
  <2> QED
    BY <1>5, <2>1, <2>2
<1>7. \A q \in Requests : holder' = q => holder = q /\ q # r
  BY <1>2
<1> QED
  BY <1>3, <1>4, <1>6, <1>7

\* What an unchanged history keeps, at the same time or later.
LEMMA HistoryKept ==
    ASSUME SuggestionsInv, batches' \in Seq(Batch), SameHistory(batches', batches),
           now' \in Nat, now <= now'
    PROVE  /\ OnlyWhenStale' /\ RegenCap'
           /\ \A i \in DOMAIN batches' : batches'[i].at <= now'
           /\ Cardinality(Recent') \in Nat /\ Cardinality(Recent') <= Cardinality(Recent)
           /\ Cardinality(Recent) \in Nat
           /\ \A m \in Media :
                (\A i \in DOMAIN batches : batches[i].media = m => batches[i].at + Stale <= now)
                => \A i \in DOMAIN batches' : batches'[i].media = m => batches'[i].at + Stale <= now'
<1>1. batches \in Seq(Batch) /\ now \in Nat /\ Stale \in Nat
  BY BoundsAssumption DEF SuggestionsInv, TypeOK
<1>2. DOMAIN batches' = DOMAIN batches /\ DOMAIN batches = 1..Len(batches) /\ Len(batches) \in Nat
  BY <1>1 DEF SameHistory
<1>3. ASSUME NEW i \in DOMAIN batches
      PROVE  /\ batches[i].at \in Int
             /\ batches'[i].at = batches[i].at /\ batches'[i].media = batches[i].media
  <2>1. batches[i] \in Batch
    BY <1>1, <1>2, ElementOfSeq
  <2> QED
    BY <2>1 DEF Batch, SameHistory
<1>4. OnlyWhenStale' /\ RegenCap'
  BY <1>1, SameHistoryKeeps DEF SuggestionsInv, OnlyWhenStale, RegenCap
<1>5. \A i \in DOMAIN batches' : batches'[i].at <= now'
  BY <1>1, <1>2, <1>3 DEF SuggestionsInv, TimesPast
<1>6. Recent' \subseteq Recent
  BY <1>1, <1>2, <1>3 DEF Recent
<1>7. IsFiniteSet(Recent)
  <2>1. 1 \in Int /\ Len(batches) \in Int
    BY <1>2
  <2>2. IsFiniteSet(1..Len(batches))
    BY <2>1, FS_Interval
  <2>3. Recent \subseteq 1..Len(batches)
    BY <1>2 DEF Recent
  <2> QED
    BY <2>2, <2>3, FS_Subset
<1>8. /\ Cardinality(Recent') \in Nat /\ Cardinality(Recent') <= Cardinality(Recent)
      /\ Cardinality(Recent) \in Nat
  BY <1>6, <1>7, FS_Subset, FS_CardinalityType
<1>9. \A m \in Media :
        (\A i \in DOMAIN batches : batches[i].media = m => batches[i].at + Stale <= now)
        => \A i \in DOMAIN batches' : batches'[i].media = m => batches'[i].at + Stale <= now'
  BY <1>1, <1>2, <1>3
<1> QED
  BY <1>4, <1>5, <1>8, <1>9

\* A step that keeps the history, and gives nobody the lock.
LEMMA QuietStep ==
    ASSUME SuggestionsInv, TypeOK', SameHistory(batches', batches), now <= now',
           UNCHANGED media,
           OneGenerates', Roles', \A q \in Requests : start'[q] <= now',
           \A q \in Requests : holder' = q => holder = q,
           \A q \in Gets : holder' = q => cooling'[media[q]] = cooling[media[q]]
    PROVE  SuggestionsInv'
<1>1. batches' \in Seq(Batch) /\ now' \in Nat /\ now \in Nat /\ MaxRegens \in Nat
  BY BoundsAssumption DEF SuggestionsInv, TypeOK
<1>2. OnlyWhenStale' /\ RegenCap' /\ TimesPast'
  BY <1>1, HistoryKept DEF TimesPast
<1>3. ASSUME NEW q \in Gets, holder' = q PROVE Due(media[q])'
  <2>1. q \in Requests /\ media[q] \in Media /\ Due(media[q]) /\ cooling[media[q]] \in Nat
    BY <1>3 DEF SuggestionsInv, TypeOK, Requests
  <2>2. \A i \in DOMAIN batches' : batches'[i].media = media[q] => batches'[i].at + Stale <= now'
    BY <1>1, <2>1, HistoryKept DEF Due
  <2> QED
    BY <1>1, <1>3, <2>1, <2>2 DEF Due
<1>4. ASSUME NEW q \in Regenerations, holder' = q PROVE Cardinality(Recent') < MaxRegens
  <2>1. Cardinality(Recent) < MaxRegens
    BY <1>4 DEF SuggestionsInv, Requests
  <2> QED
    BY <1>1, <2>1, HistoryKept
<1> QED
  BY <1>2, <1>3, <1>4 DEF SuggestionsInv

LEMMA SameIsSame == SameHistory(batches, batches)
  BY DEF SameHistory

LEMMA QuietEndStep ==
    ASSUME SuggestionsInv, NEW r \in Requests, QuietEnd(r)
    PROVE  SuggestionsInv'
<1>1. PICK how \in {"answered", "refused"} : Leave(r, how)
  BY DEF QuietEnd
<1>2. batches' \in Seq(Batch) /\ SameHistory(batches', batches)
  BY CommittedKeeps, SameIsSame DEF SuggestionsInv, TypeOK, QuietEnd
<1>3. TypeOK'
  BY <1>1, <1>2, LeaveType DEF SuggestionsInv, TypeOK, QuietEnd
<1>4. now <= now' /\ UNCHANGED <<now, cooling, media>>
  BY DEF SuggestionsInv, TypeOK, QuietEnd
<1> QED
  BY <1>1, <1>2, <1>3, <1>4, LeaveKeeps, QuietStep

\* What an empty or malformed reply does: it ends the one request that
\* generates, and opens a window no refresh is under.
LEMMA EmptyReplyStep ==
    ASSUME SuggestionsInv, NEW r \in Requests, ReplyEmpty(r) \/ ReplyMalformed(r)
    PROVE  SuggestionsInv'
<1>1. PICK how \in {"answered", "refused"} : Leave(r, how)
  BY DEF ReplyEmpty, ReplyMalformed, EmptyHanded, Answer, Fail
<1>2. /\ UNCHANGED <<now, media>> /\ OpenWindow(media[r])
      /\ batches' \in {batches, Committed(r)}
  BY DEF ReplyEmpty, ReplyMalformed, EmptyHanded, Fail, Rollback
<1>3. holder = r
  BY DEF ReplyEmpty, ReplyMalformed, SuggestionsInv, OneGenerates, Roles, Generating, Requests
<1>4. batches' \in Seq(Batch) /\ SameHistory(batches', batches)
  BY <1>2, CommittedKeeps, SameIsSame DEF SuggestionsInv, TypeOK
<1>5. cooling' \in [Media -> Nat]
  BY <1>2, BoundsAssumption DEF SuggestionsInv, TypeOK, OpenWindow
<1>6. TypeOK'
  BY <1>1, <1>2, <1>4, <1>5, LeaveType DEF SuggestionsInv, TypeOK
<1>7. now <= now'
  BY <1>2 DEF SuggestionsInv, TypeOK
<1>8. \A q \in Requests : holder' # q
  BY <1>1, <1>2, <1>3, LeaveKeeps
<1>9. Gets \subseteq Requests
  BY DEF Requests
<1> QED
  BY <1>1, <1>2, <1>4, <1>6, <1>7, <1>8, <1>9, LeaveKeeps, QuietStep

\* A batch is added by the request that holds the lock, so to the history it
\* looked at.
LEMMA ReplyPicksStep ==
    ASSUME SuggestionsInv, NEW r \in Requests, ReplyPicks(r)
    PROVE  SuggestionsInv'
<1> DEFINE g == Committed(r)
           b == NewBatch(r)
<1>1. Leave(r, "answered") /\ UNCHANGED <<now, cooling, media>> /\ batches' = Append(g, b)
  BY DEF ReplyPicks, Answer
<1>2. holder = r /\ r \in Gets \cup Regenerations
  BY DEF ReplyPicks, SuggestionsInv, OneGenerates, Roles, Generating, Requests
<1>3. g \in Seq(Batch) /\ SameHistory(g, batches)
  BY CommittedKeeps DEF SuggestionsInv
<1>4. b \in Batch /\ b.at = now /\ b.media = media[r] /\ (b.auto <=> r \in Gets)
  <2> DEFINE a == r \in Gets
  <2>1. now \in Int /\ media[r] \in Media
    BY DEF SuggestionsInv, TypeOK
  <2>2. a \in BOOLEAN
    OBVIOUS
  <2>3. b = [at |-> now, media |-> media[r], auto |-> a, active |-> TRUE]
    BY DEF NewBatch, Generated
  <2> HIDE DEF a, b
  <2>4. b \in Batch
    BY <2>1, <2>2, <2>3 DEF Batch
  <2>5. b.at = now /\ b.media = media[r] /\ b.auto = a
    BY <2>3
  <2> QED
    BY <2>4, <2>5 DEF a
<1>5. batches \in Seq(Batch) /\ now \in Nat /\ Stale \in Nat
  BY BoundsAssumption DEF SuggestionsInv, TypeOK
<1> HIDE DEF g, b
<1>6. batches' \in Seq(Batch)
  BY <1>1, <1>3, <1>4
<1>7. TypeOK'
  BY <1>1, <1>6, LeaveType DEF SuggestionsInv, TypeOK
<1>8. DOMAIN g = DOMAIN batches /\ \A i \in DOMAIN g : g[i].at = batches[i].at /\ g[i].media = batches[i].media
  BY <1>3 DEF SameHistory
<1>9. RefreshedDaily(g) /\ RegeneratedWithinCap(g)
  BY <1>3, <1>5, SameHistoryKeeps DEF SuggestionsInv, OnlyWhenStale, RegenCap
<1>10. ASSUME b.auto, NEW i \in DOMAIN g, g[i].media = b.media PROVE g[i].at + Stale <= b.at
  <2>1. Due(media[r])
    BY <1>2, <1>4, <1>10 DEF SuggestionsInv
  <2> QED
    BY <1>4, <1>8, <1>10, <2>1 DEF Due
<1>11. ASSUME ~b.auto PROVE Cardinality({ i \in DOMAIN g : g[i].at > b.at - Stale }) < MaxRegens
  <2>1. Cardinality(Recent) < MaxRegens
    BY <1>2, <1>4, <1>11 DEF SuggestionsInv
  <2>2. { i \in DOMAIN g : g[i].at > b.at - Stale } = Recent
    BY <1>4, <1>8 DEF Recent
  <2> QED
    BY <2>1, <2>2
<1>12. RefreshedDaily(Append(g, b)) /\ RegeneratedWithinCap(Append(g, b))
  BY <1>3, <1>4, <1>9, <1>10, <1>11, OneMoreBatch
<1>13. OnlyWhenStale' /\ RegenCap'
  BY <1>1, <1>12 DEF OnlyWhenStale, RegenCap
<1>14. TimesPast'
  <2>1. \A i \in DOMAIN g : g[i].at <= now
    BY <1>8 DEF SuggestionsInv, TimesPast
  <2>2. \A i \in DOMAIN batches' : batches'[i].at <= now
    BY <1>1, <1>3, <1>4, <1>5, <2>1
  <2> QED
    BY <1>1, <2>2, LeaveKeeps DEF TimesPast
<1>15. \A q \in Requests : holder' # q
  BY <1>1, <1>2, LeaveKeeps
<1>16. OneGenerates' /\ Roles'
  BY <1>1, LeaveKeeps
<1> QED
  BY <1>7, <1>13, <1>14, <1>15, <1>16 DEF SuggestionsInv, Requests
-----------------------------------------------------------------------------
(* Other steps *)

\* A request that goes on, and does not take the lock.
LEMMA MovesOn ==
    ASSUME SuggestionsInv, TypeOK', NEW r \in Requests,
           UNCHANGED <<now, batches, cooling, holder, media>>,
           \A q \in Requests \ {r} : pc'[q] = pc[q] /\ start'[q] = start[q],
           start'[r] <= now,
           pc'[r] = "stale" => r \in Gets,
           pc'[r] \in {"asking", "calling"} => r \notin CardActions,
           r \in Gets \cup Regenerations =>
               (pc'[r] \in {"asking", "calling"} <=> pc[r] \in {"asking", "calling"})
    PROVE  SuggestionsInv'
<1>1. OneGenerates'
  BY DEF SuggestionsInv, OneGenerates, Generating
<1>2. Roles'
  BY DEF SuggestionsInv, Roles, Generating, Requests
<1>3. \A q \in Requests : start'[q] <= now'
  BY DEF SuggestionsInv, TimesPast
<1>4. now <= now' /\ SameHistory(batches', batches)
  BY DEF SuggestionsInv, TypeOK, SameHistory
<1> QED
  BY <1>1, <1>2, <1>3, <1>4, QuietStep

LEMMA GoOnStep ==
    ASSUME SuggestionsInv, NEW r \in Requests, Curate(r) \/ Call(r) \/ OpenCard(r)
    PROVE  SuggestionsInv'
<1>1. UNCHANGED <<now, batches, cooling, holder, media, start>>
  BY DEF Curate, Call, OpenCard
<1>2. TypeOK'
  <2>1. marked' \in [Requests -> SUBSET Nat]
    <3>1. CASE UNCHANGED marked
      BY <3>1 DEF SuggestionsInv, TypeOK
    <3>2. CASE OpenCard(r)
      <4>1. DOMAIN batches \subseteq Nat
        BY DEF SuggestionsInv, TypeOK
      <4>2. PICK i \in Visible : marked' = [marked EXCEPT ![r] = {i}]
        BY <3>2 DEF OpenCard
      <4>3. {i} \in SUBSET Nat
        BY <4>1, <4>2 DEF Visible
      <4> QED
        BY <4>2, <4>3 DEF SuggestionsInv, TypeOK
    <3> QED
      BY <3>1, <3>2 DEF Curate, Call
  <2>2. pc' \in [Requests -> {"queued", "stale", "asking", "calling", "acting", "answered", "refused"}]
    BY DEF SuggestionsInv, TypeOK, Curate, Call, OpenCard
  <2> QED
    BY <1>1, <2>1, <2>2 DEF SuggestionsInv, TypeOK
<1>3. /\ pc'[r] \in {"asking", "calling", "acting"}
      /\ \A q \in Requests \ {r} : pc'[q] = pc[q]
  BY DEF SuggestionsInv, TypeOK, Curate, Call, OpenCard
<1>4. pc'[r] \in {"asking", "calling"} => r \notin CardActions
  BY RequestsAssumption
  DEF SuggestionsInv, TypeOK, Roles, Generating, Curate, Call, OpenCard
<1>5. r \in Gets \cup Regenerations =>
        (pc'[r] \in {"asking", "calling"} <=> pc[r] \in {"asking", "calling"})
  BY RequestsAssumption DEF SuggestionsInv, TypeOK, Curate, Call, OpenCard
<1>6. start'[r] <= now
  BY <1>1 DEF SuggestionsInv, TimesPast
<1> QED
  BY <1>1, <1>2, <1>3, <1>4, <1>5, <1>6, MovesOn

LEMMA RefreshStep ==
    ASSUME SuggestionsInv, NEW r \in Requests, Refresh(r)
    PROVE  SuggestionsInv'
<1>1. CASE Answer(r)
  BY <1>1, QuietEndStep DEF Refresh, Answer, QuietEnd
<1>2. CASE ~Answer(r)
  <2>1. /\ start' = [start EXCEPT ![r] = now] /\ pc' = [pc EXCEPT ![r] = "stale"]
        /\ UNCHANGED <<now, batches, cooling, media, holder, marked>>
        /\ r \in Gets /\ pc[r] = "queued"
    BY <1>2 DEF Refresh, Connects
  <2>2. TypeOK'
    BY <2>1 DEF SuggestionsInv, TypeOK
  <2>3. /\ pc'[r] = "stale" /\ start'[r] = now
        /\ \A q \in Requests \ {r} : pc'[q] = pc[q] /\ start'[q] = start[q]
    BY <2>1 DEF SuggestionsInv, TypeOK
  <2>4. start'[r] <= now
    BY <2>3 DEF SuggestionsInv, TypeOK
  <2> QED
    BY <2>1, <2>2, <2>3, <2>4, MovesOn
<1> QED
  BY <1>1, <1>2

\* The request that takes the lock finds no other generating.
LEMMA TakesLock ==
    ASSUME SuggestionsInv, TypeOK', NEW r \in Gets \cup Regenerations,
           pc[r] \in {"queued", "stale"}, LockFree, holder' = r,
           pc' = [pc EXCEPT ![r] = "asking"],
           UNCHANGED <<now, batches, cooling, media, start>>,
           r \in Gets => Due(media[r]),
           r \in Regenerations => Cardinality(Recent) < MaxRegens
    PROVE  SuggestionsInv'
<1>1. r \in Requests /\ holder = NoRequest
  BY DEF Requests, LockFree
<1>2. pc'[r] = "asking" /\ \A q \in Requests \ {r} : pc'[q] = pc[q]
  BY <1>1 DEF SuggestionsInv, TypeOK
<1>3. OneGenerates'
  BY <1>1, <1>2, RequestsAssumption DEF SuggestionsInv, OneGenerates, Generating
<1>4. Roles'
  BY <1>1, <1>2, RequestsAssumption DEF SuggestionsInv, Roles, Generating, Requests
<1>5. TimesPast' /\ OnlyWhenStale' /\ RegenCap'
  BY DEF SuggestionsInv, TimesPast, OnlyWhenStale, RegenCap
<1>6. \A q \in Gets : holder' = q => Due(media[q])'
  BY DEF Due
<1>7. \A q \in Regenerations : holder' = q => Cardinality(Recent') < MaxRegens
  <2>1. Recent' = Recent
    BY DEF Recent
  <2> QED
    BY <2>1
<1> QED
  BY <1>3, <1>4, <1>5, <1>6, <1>7 DEF SuggestionsInv

LEMMA LockStaleStep ==
    ASSUME SuggestionsInv, NEW r \in Requests, LockStale(r)
    PROVE  SuggestionsInv'
<1>1. CASE Answer(r)
  BY <1>1, QuietEndStep DEF LockStale, Answer, QuietEnd
<1>2. CASE ~Answer(r)
  <2>1. /\ StillStale(r) /\ ~Cooling(r) /\ LockFree /\ pc[r] = "stale"
        /\ holder' = r /\ pc' = [pc EXCEPT ![r] = "asking"]
        /\ UNCHANGED <<now, batches, cooling, media, start, marked>>
    BY <1>2 DEF LockStale
  <2>2. r \in Gets
    BY <2>1 DEF SuggestionsInv, Roles
  <2>3. TypeOK'
    BY <2>1 DEF SuggestionsInv, TypeOK
  <2>4. ASSUME NEW i \in DOMAIN batches, batches[i].media = media[r]
        PROVE  batches[i].at + Stale <= now
    <3>1. batches[i].at \in Int /\ now \in Nat /\ start[r] \in Nat /\ start[r] <= now
      <4>1. batches[i] \in Batch
        BY ElementOfSeq DEF SuggestionsInv, TypeOK
      <4> QED
        BY <4>1 DEF Batch, SuggestionsInv, TypeOK, TimesPast
    <3>2. Stale \in Nat /\ Retention \in Nat /\ Stale <= Retention
      BY BoundsAssumption, RetentionAssumption
    <3>3. CASE i \in Visible
      BY <2>1, <2>4, <3>1, <3>2, <3>3 DEF StillStale, Fresh
    <3>4. CASE i \notin Visible
      BY <3>1, <3>2, <3>4 DEF Visible
    <3> QED
      BY <3>3, <3>4
  <2>5. now >= cooling[media[r]]
    BY <2>1 DEF Cooling, SuggestionsInv, TypeOK
  <2>6. Due(media[r])
    BY <2>4, <2>5 DEF Due
  <2>7. r \notin Regenerations
    BY <2>2, RequestsAssumption
  <2> QED
    BY <2>1, <2>2, <2>3, <2>6, <2>7, TakesLock
<1> QED
  BY <1>1, <1>2

LEMMA RegenerateStep ==
    ASSUME SuggestionsInv, NEW r \in Requests, Regenerate(r)
    PROVE  SuggestionsInv'
<1>1. CASE Refuse(r)
  BY <1>1, QuietEndStep DEF Regenerate, Refuse, QuietEnd
<1>2. CASE ~Refuse(r)
  <2>1. /\ UnderCap(r) /\ LockFree /\ pc[r] = "queued" /\ r \in Regenerations
        /\ holder' = r /\ pc' = [pc EXCEPT ![r] = "asking"]
        /\ marked' = [marked EXCEPT ![r] = Shown(media[r])]
        /\ UNCHANGED <<now, batches, cooling, media, start>>
    BY <1>2 DEF Regenerate, Connects
  <2>2. Shown(media[r]) \in SUBSET Nat
    BY DEF Shown, Visible, SuggestionsInv, TypeOK
  <2>3. TypeOK'
    BY <2>1, <2>2 DEF SuggestionsInv, TypeOK
  <2>4. Counted(r) = Recent
    <3>1. \A i \in DOMAIN batches : batches[i].at \in Int
      <4>1. \A i \in DOMAIN batches : batches[i] \in Batch
        BY ElementOfSeq DEF SuggestionsInv, TypeOK
      <4> QED
        BY <4>1 DEF Batch
    <3>2. now \in Nat /\ Stale \in Nat /\ Retention \in Nat /\ Stale <= Retention
      BY BoundsAssumption, RetentionAssumption DEF SuggestionsInv, TypeOK
    <3> QED
      BY <3>1, <3>2 DEF Counted, Visible, Recent
  <2>5. Cardinality(Recent) < MaxRegens
    BY <2>1, <2>4 DEF UnderCap
  <2>6. r \notin Gets
    BY <2>1, RequestsAssumption
  <2> QED
    BY <2>1, <2>3, <2>5, <2>6, TakesLock
<1> QED
  BY <1>1, <1>2

LEMMA TickStep ==
    ASSUME SuggestionsInv, (Tick /\ UNCHANGED requestVars) \/ UNCHANGED vars
    PROVE  SuggestionsInv'
<1>1. UNCHANGED <<batches, cooling, holder, pc, media, start, marked>>
  BY DEF Tick, requestVars, vars
<1>2. now' \in Nat /\ now <= now'
  BY DEF SuggestionsInv, TypeOK, Tick, requestVars, vars
<1>3. TypeOK'
  BY <1>1, <1>2 DEF SuggestionsInv, TypeOK
<1>4. OneGenerates' /\ Roles'
  BY <1>1 DEF SuggestionsInv, OneGenerates, Roles, Generating
<1>5. \A q \in Requests : start'[q] <= now'
  <2>1. now \in Nat /\ \A q \in Requests : start[q] \in Nat /\ start[q] <= now
    BY DEF SuggestionsInv, TypeOK, TimesPast
  <2> QED
    BY <1>1, <1>2, <2>1
<1>6. SameHistory(batches', batches)
  BY <1>1 DEF SameHistory
<1> QED
  BY <1>1, <1>2, <1>3, <1>4, <1>5, <1>6, QuietStep

LEMMA EndStep ==
    ASSUME SuggestionsInv, NEW r \in Requests,
           \/ Ineligible(r) \/ Outrun(r) \/ NothingToAsk(r) \/ NoSlot(r) \/ NoCard(r)
           \/ WriteCard(r) \/ ReplyFailed(r) \/ ReplyCurated(r) \/ Abort(r)
    PROVE  SuggestionsInv'
<1>1. \E how \in {"answered", "refused"} : Leave(r, how)
  BY DEF Ineligible, Outrun, NothingToAsk, NoSlot, NoCard, WriteCard, ReplyFailed, ReplyCurated,
         Abort, EmptyHanded, Answer, Refuse, Fail
<1>2. batches' \in {batches, Committed(r)} /\ UNCHANGED <<now, cooling, media>>
  BY DEF Ineligible, Outrun, NothingToAsk, NoSlot, NoCard, WriteCard, ReplyFailed, ReplyCurated,
         Abort, EmptyHanded, Fail, Rollback
<1> QED
  BY <1>1, <1>2, QuietEndStep DEF QuietEnd
-----------------------------------------------------------------------------
(* Theorems *)

LEMMA InvInit == Init => SuggestionsInv
<1> SUFFICES ASSUME Init PROVE SuggestionsInv
  OBVIOUS
<1>1. TypeOK
  BY InitialAssumption, AskedAssumption DEF Init, LedgerInit, TypeOK
<1>2. OneGenerates /\ Roles
  BY RequestsAssumption DEF Init, LedgerInit, OneGenerates, Roles, Generating, Requests
<1>3. TimesPast
  BY InitialAssumption DEF Init, LedgerInit, TimesPast
<1>4. OnlyWhenStale /\ RegenCap
  BY PastAssumption DEF Init, LedgerInit, OnlyWhenStale, RegenCap
<1>5. \A r \in Requests : holder # r
  BY RequestsAssumption DEF Init, LedgerInit
<1> QED
  BY <1>1, <1>2, <1>3, <1>4, <1>5 DEF SuggestionsInv, Requests

LEMMA InvStep == SuggestionsInv /\ [Next]_vars => SuggestionsInv'
<1> SUFFICES ASSUME SuggestionsInv, [Next]_vars PROVE SuggestionsInv'
  OBVIOUS
<1>1. ASSUME NEW r \in Requests, Handle(r) PROVE SuggestionsInv'
  BY <1>1, EndStep, RefreshStep, LockStaleStep, RegenerateStep, GoOnStep DEF Handle
<1>2. ASSUME NEW r \in Requests, Reply(r) PROVE SuggestionsInv'
  BY <1>2, EndStep, ReplyPicksStep, EmptyReplyStep DEF Reply
<1> QED
  BY <1>1, <1>2, TickStep, EndStep DEF Next

\* The invariant of a user's generations holds of every behaviour: one request
\* generates at a time, and what it looked at under the lock is still so.
THEOREM GenerationsHold == Spec => []SuggestionsInv
<1> QED
  BY InvInit, InvStep, PTL DEF Spec

\* The state of the suggestions handlers keeps its types.
THEOREM TypeCorrect == Spec => []TypeOK
<1>1. SuggestionsInv => TypeOK
  BY DEF SuggestionsInv
<1> QED
  BY <1>1, GenerationsHold, PTL

\* However many tabs find the suggestions stale at once, and whatever the purge
\* has deleted, a refresh comes a day or more after every batch of its media.
THEOREM RefreshesAreDaily == Spec => []OnlyWhenStale
<1>1. SuggestionsInv => OnlyWhenStale
  BY DEF SuggestionsInv
<1> QED
  BY <1>1, GenerationsHold, PTL

\* Parallel regenerations never exceed the cap of the day that ends with them.
THEOREM RegenerationsCapped == Spec => []RegenCap
<1>1. SuggestionsInv => RegenCap
  BY DEF SuggestionsInv
<1> QED
  BY <1>1, GenerationsHold, PTL

\* No refresh waits for the LLM about a media whose window of an empty reply is
\* open, also when the reply came after the refresh had looked.
THEOREM NoCallUnderWindow == Spec => []NoCallWhileCooling
<1>1. SuggestionsInv => NoCallWhileCooling
  BY DEF SuggestionsInv, OneGenerates, Generating, Due, NoCallWhileCooling, Calling
<1> QED
  BY <1>1, GenerationsHold, PTL

\* A card disappears only with a request that answers: the dismissals of a
\* regeneration that fails are rolled back.
THEOREM CardsKept == Spec => KeptOnFailure
<1>1. ASSUME SuggestionsInv, [Next]_vars, NEW i \in DOMAIN batches,
             batches[i].active, ~batches'[i].active
      PROVE  \E r \in Requests : pc[r] # "answered" /\ pc'[r] = "answered"
  <2>1. batches' # batches
    BY <1>1
  <2>2. PICK r \in Requests :
          \/ NothingToAsk(r) \/ ReplyEmpty(r) \/ ReplyPicks(r) \/ WriteCard(r)
    BY <1>1, <2>1 DEF Next, vars, Tick, Handle, Reply, Ineligible, Refresh, Outrun, LockStale,
       Regenerate, Curate, NoSlot, Call, OpenCard, NoCard, ReplyMalformed, ReplyFailed,
       ReplyCurated, Abort, Fail, Rollback
  <2>3. pc[r] # "answered" /\ Answer(r)
    BY <2>2 DEF NothingToAsk, ReplyEmpty, ReplyPicks, WriteCard, EmptyHanded
  <2> QED
    BY <1>1, <2>3 DEF Answer, Leave, SuggestionsInv, TypeOK
<1>2. SuggestionsInv /\ [Next]_vars =>
        [\A i \in DOMAIN batches : batches[i].active /\ ~batches'[i].active =>
            \E r \in Requests : pc[r] # "answered" /\ pc'[r] = "answered"]_vars
  BY <1>1
<1> QED
  BY <1>2, GenerationsHold, PTL DEF Spec, KeptOnFailure
-----------------------------------------------------------------------------
(* Each generation is one step *)

\* What a request has marked is of its media; a regeneration under way has
\* marked whatever is shown, and a card that is acted on is one card.
MarkedInv ==
    /\ \A r \in Requests : \A i \in marked[r] : i \in DOMAIN batches /\ batches[i].media = media[r]
    /\ \A r \in Regenerations : holder = r => Shown(media[r]) \subseteq marked[r]
    /\ \A r \in Gets : marked[r] = {}
    /\ \A r \in Requests : pc[r] = "acting" => \E i \in DOMAIN batches : marked[r] = {i}

LEMMA DismissedHides ==
    ASSUME TypeOK, NEW gone
    PROVE  /\ DOMAIN Dismissed(gone) = DOMAIN batches
           /\ \A i \in DOMAIN batches : Dismissed(gone)[i].active => batches[i].active
           /\ Dismissed({}) = batches
<1>1. \A i \in DOMAIN batches : batches[i] \in Batch
  BY ElementOfSeq DEF TypeOK
<1>2. \A i \in DOMAIN batches : [batches[i] EXCEPT !.active = FALSE].active = FALSE
  BY <1>1 DEF Batch
<1>3. Dismissed({}) = [i \in DOMAIN batches |-> batches[i]]
  BY DEF Dismissed
<1>4. batches = [i \in DOMAIN batches |-> batches[i]]
  BY DEF TypeOK
<1> QED
  BY <1>2, <1>3, <1>4 DEF Dismissed

\* Nothing new is shown, so whoever has marked what is shown still has.
LEMMA MarksKept ==
    ASSUME SuggestionsInv, MarkedInv, TypeOK', SameHistory(batches', batches), now <= now',
           \A i \in DOMAIN batches : batches'[i].active => batches[i].active,
           UNCHANGED media,
           \A q \in Requests : marked'[q] \in {marked[q], {}},
           \A q \in Requests : holder' = q => holder = q /\ marked'[q] = marked[q],
           \A q \in Requests : pc'[q] = "acting" => pc[q] = "acting" /\ marked'[q] = marked[q]
    PROVE  MarkedInv'
<1>1. DOMAIN batches' = DOMAIN batches
      /\ \A i \in DOMAIN batches : batches'[i].at = batches[i].at /\ batches'[i].media = batches[i].media
  BY DEF SameHistory
<1>2. \A i \in DOMAIN batches : batches[i].at \in Int
  <2>1. \A i \in DOMAIN batches : batches[i] \in Batch
    BY ElementOfSeq DEF SuggestionsInv, TypeOK
  <2> QED
    BY <2>1 DEF Batch
<1>3. now \in Int /\ now' \in Int /\ Retention \in Int
  BY BoundsAssumption DEF SuggestionsInv, TypeOK
<1>4. \A m : Shown(m)' \subseteq Shown(m)
  BY <1>1, <1>2, <1>3 DEF Shown, Visible
<1>5. \A r \in Requests : \A i \in marked'[r] : i \in DOMAIN batches' /\ batches'[i].media = media'[r]
  BY <1>1 DEF MarkedInv
<1>6. \A r \in Regenerations : holder' = r => Shown(media[r])' \subseteq marked'[r]
  BY <1>4 DEF MarkedInv, Requests
<1>7. \A r \in Gets : marked'[r] = {}
  BY DEF MarkedInv, Requests
<1>8. \A r \in Requests : pc'[r] = "acting" => \E i \in DOMAIN batches' : marked'[r] = {i}
  BY <1>1 DEF MarkedInv
<1> QED
  BY <1>5, <1>6, <1>7, <1>8 DEF MarkedInv

\* A request that ends, with what it dismissed or without.
LEMMA EndMarks ==
    ASSUME SuggestionsInv, MarkedInv, TypeOK', NEW r \in Requests,
           \E how \in {"answered", "refused"} : Leave(r, how),
           batches' \in {batches, Committed(r)}, UNCHANGED <<now, media>>
    PROVE  MarkedInv'
<1>1. SameHistory(batches', batches)
  BY CommittedKeeps, SameIsSame DEF SuggestionsInv
<1>2. \A i \in DOMAIN batches : batches'[i].active => batches[i].active
  BY DismissedHides DEF SuggestionsInv, Committed
<1>3. /\ marked'[r] = {} /\ pc'[r] \in {"answered", "refused"}
      /\ \A q \in Requests \ {r} : marked'[q] = marked[q] /\ pc'[q] = pc[q]
  BY DEF Leave, SuggestionsInv, TypeOK
<1>4. \A q \in Requests : holder' = q => holder = q /\ q # r
  BY LeaveKeeps
<1>5. now <= now'
  BY DEF SuggestionsInv, TypeOK
<1> QED
  BY <1>1, <1>2, <1>3, <1>4, <1>5, MarksKept

LEMMA PicksMarks ==
    ASSUME SuggestionsInv, MarkedInv, NEW r \in Requests, ReplyPicks(r)
    PROVE  MarkedInv'
<1> DEFINE g == Committed(r)
           b == NewBatch(r)
<1>1. Leave(r, "answered") /\ UNCHANGED <<now, cooling, media>> /\ batches' = Append(g, b)
  BY DEF ReplyPicks, Answer
<1>2. g \in Seq(Batch) /\ SameHistory(g, batches)
  BY CommittedKeeps DEF SuggestionsInv
<1> HIDE DEF g, b
<1>3. \A i \in DOMAIN batches : i \in DOMAIN batches' /\ batches'[i].media = batches[i].media
  BY <1>1, <1>2 DEF SameHistory
<1>4. /\ marked'[r] = {} /\ pc'[r] = "answered"
      /\ \A q \in Requests \ {r} : marked'[q] = marked[q] /\ pc'[q] = pc[q]
  BY <1>1 DEF Leave, SuggestionsInv, TypeOK
<1>5. holder = r
  BY DEF ReplyPicks, SuggestionsInv, OneGenerates, Roles, Generating, Requests
<1>6. \A q \in Requests : holder' # q
  BY <1>1, <1>5, LeaveKeeps
<1>7. \A q \in Requests : marked'[q] \in {marked[q], {}}
  BY <1>4
<1>8. \A q \in Requests : \A i \in marked'[q] : i \in DOMAIN batches' /\ batches'[i].media = media'[q]
  BY <1>1, <1>3, <1>7 DEF MarkedInv
<1>9. \A q \in Gets : marked'[q] = {}
  BY <1>7 DEF MarkedInv, Requests
<1>10. \A q \in Requests : pc'[q] = "acting" => \E i \in DOMAIN batches' : marked'[q] = {i}
  BY <1>3, <1>4 DEF MarkedInv
<1> QED
  BY <1>6, <1>8, <1>9, <1>10 DEF MarkedInv, Requests
\* A request that goes on; only a regeneration that takes the lock and the
\* reading of a card mark anything.
LEMMA GoOnMarks ==
    ASSUME SuggestionsInv, MarkedInv, TypeOK', NEW r \in Requests,
           UNCHANGED <<now, batches, media>>,
           \A q \in Requests \ {r} : marked'[q] = marked[q] /\ pc'[q] = pc[q],
           \A q \in Requests \ {r} : holder' = q => holder = q,
           \/ marked'[r] = marked[r] /\ pc'[r] # "acting" /\ (holder' = r => holder = r \/ r \in Gets)
           \/ marked'[r] = Shown(media[r]) /\ r \in Regenerations /\ pc'[r] # "acting"
           \/ r \in CardActions /\ holder' # r
              /\ \E i \in DOMAIN batches : batches[i].media = media[r] /\ marked'[r] = {i}
    PROVE  MarkedInv'
<1>1. \A m : Shown(m)' = Shown(m)
  BY DEF Shown, Visible
<1>2. \A i \in Shown(media[r]) : i \in DOMAIN batches /\ batches[i].media = media[r]
  BY DEF Shown, Visible
<1>3. \A q \in Requests : \A i \in marked'[q] : i \in DOMAIN batches' /\ batches'[i].media = media'[q]
  BY <1>2 DEF MarkedInv
<1>4. \A q \in Regenerations : holder' = q => Shown(media[q])' \subseteq marked'[q]
  BY <1>1, RequestsAssumption DEF MarkedInv, Requests
<1>5. \A q \in Gets : marked'[q] = {}
  BY RequestsAssumption DEF MarkedInv, Requests
<1>6. \A q \in Requests : pc'[q] = "acting" => \E i \in DOMAIN batches' : marked'[q] = {i}
  BY DEF MarkedInv
<1> QED
  BY <1>3, <1>4, <1>5, <1>6 DEF MarkedInv

LEMMA MarkedStep ==
    ASSUME SuggestionsInv, MarkedInv, [Next]_vars
    PROVE  MarkedInv'
<1> SuggestionsInv' /\ TypeOK'
  BY InvStep DEF SuggestionsInv
<1>1. CASE (Tick /\ UNCHANGED requestVars) \/ UNCHANGED vars
  <2>1. UNCHANGED <<batches, holder, pc, media, marked>>
    BY <1>1 DEF Tick, requestVars, vars
  <2>2. now <= now'
    BY <1>1 DEF SuggestionsInv, TypeOK, Tick, vars
  <2> QED
    BY <2>1, <2>2, SameIsSame, MarksKept
<1>2. ASSUME NEW r \in Requests,
             \/ Ineligible(r) \/ Outrun(r) \/ NothingToAsk(r) \/ NoSlot(r) \/ NoCard(r)
             \/ WriteCard(r) \/ ReplyFailed(r) \/ ReplyCurated(r) \/ Abort(r)
             \/ ReplyEmpty(r) \/ ReplyMalformed(r)
      PROVE  MarkedInv'
  <2>1. \E how \in {"answered", "refused"} : Leave(r, how)
    BY <1>2 DEF Ineligible, Outrun, NothingToAsk, NoSlot, NoCard, WriteCard, ReplyFailed,
       ReplyCurated, Abort, ReplyEmpty, ReplyMalformed, EmptyHanded, Answer, Refuse, Fail
  <2>2. batches' \in {batches, Committed(r)} /\ UNCHANGED <<now, media>>
    BY <1>2 DEF Ineligible, Outrun, NothingToAsk, NoSlot, NoCard, WriteCard, ReplyFailed,
       ReplyCurated, Abort, ReplyEmpty, ReplyMalformed, EmptyHanded, Fail, Rollback
  <2> QED
    BY <2>1, <2>2, EndMarks
<1>3. ASSUME NEW r \in Requests, Refresh(r) \/ LockStale(r) \/ Regenerate(r) PROVE MarkedInv'
  <2>1. UNCHANGED <<now, batches, media>>
    BY <1>3 DEF Refresh, LockStale, Regenerate
  <2>2. CASE \E how \in {"answered", "refused"} : Leave(r, how)
    BY <2>1, <2>2, EndMarks
  <2>3. CASE ~\E how \in {"answered", "refused"} : Leave(r, how)
    <3>1. \/ pc' = [pc EXCEPT ![r] = "stale"] /\ UNCHANGED <<holder, marked>>
          \/ pc' = [pc EXCEPT ![r] = "asking"] /\ holder' = r /\ UNCHANGED marked /\ pc[r] = "stale"
          \/ /\ pc' = [pc EXCEPT ![r] = "asking"] /\ holder' = r
             /\ marked' = [marked EXCEPT ![r] = Shown(media[r])] /\ r \in Regenerations
      BY <1>3, <2>3 DEF Refresh, LockStale, Regenerate, Answer, Refuse
    <3>2. pc'[r] # "acting" /\ \A q \in Requests \ {r} : marked'[q] = marked[q] /\ pc'[q] = pc[q]
      BY <3>1 DEF SuggestionsInv, TypeOK
    <3>3. \A q \in Requests \ {r} : holder' = q => holder = q
      BY <3>1
    <3>4. pc[r] = "stale" => r \in Gets
      BY DEF SuggestionsInv, Roles
    <3>5. \/ marked'[r] = marked[r] /\ (holder' = r => holder = r \/ r \in Gets)
          \/ marked'[r] = Shown(media[r]) /\ r \in Regenerations
      BY <3>1, <3>4 DEF SuggestionsInv, TypeOK
    <3> QED
      BY <2>1, <3>2, <3>3, <3>5, GoOnMarks
  <2> QED
    BY <2>2, <2>3
<1>4. ASSUME NEW r \in Requests, Curate(r) \/ Call(r) PROVE MarkedInv'
  <2>1. /\ UNCHANGED <<now, batches, media, holder, marked>>
        /\ pc'[r] # "acting" /\ \A q \in Requests \ {r} : pc'[q] = pc[q]
    BY <1>4 DEF Curate, Call, SuggestionsInv, TypeOK
  <2> QED
    BY <2>1, GoOnMarks
<1>5. ASSUME NEW r \in Requests, OpenCard(r) PROVE MarkedInv'
  <2>1. PICK i \in Visible : batches[i].media = media[r] /\ marked' = [marked EXCEPT ![r] = {i}]
    BY <1>5 DEF OpenCard
  <2>2. /\ UNCHANGED <<now, batches, media, holder>> /\ r \in CardActions
        /\ pc' = [pc EXCEPT ![r] = "acting"]
    BY <1>5 DEF OpenCard
  <2>3. marked'[r] = {i} /\ \A q \in Requests \ {r} : marked'[q] = marked[q] /\ pc'[q] = pc[q]
    BY <2>1, <2>2 DEF SuggestionsInv, TypeOK
  <2>4. holder' # r /\ i \in DOMAIN batches
    BY <2>2, RequestsAssumption DEF SuggestionsInv, OneGenerates, Visible
  <2> QED
    BY <2>1, <2>2, <2>3, <2>4, GoOnMarks
<1>6. ASSUME NEW r \in Requests, Handle(r) PROVE MarkedInv'
  BY <1>6, <1>2, <1>3, <1>4, <1>5 DEF Handle
<1>7. ASSUME NEW r \in Requests, Reply(r) PROVE MarkedInv'
  BY <1>7, <1>2, PicksMarks DEF Reply
<1> QED
  BY <1>1, <1>2, <1>6, <1>7 DEF Next

\* At its commit the request with the lock is due, or under the cap.
LEMMA GeneratesIsLedger ==
    ASSUME SuggestionsInv, MarkedInv, NEW r \in Requests,
           NothingToAsk(r) \/ ReplyPicks(r) \/ ReplyEmpty(r) \/ ReplyMalformed(r)
    PROVE  Refreshes(media[r]) \/ Regenerates(media[r]) \/ UNCHANGED ledgerVars
<1>1. holder = r /\ r \in Gets \cup Regenerations
  BY DEF NothingToAsk, ReplyPicks, ReplyEmpty, ReplyMalformed,
         SuggestionsInv, OneGenerates, Roles, Generating, Requests
<1>2. /\ UNCHANGED now
      /\ \/ batches' = Append(Dismissed(marked[r]), NewBatch(r)) /\ UNCHANGED cooling
         \/ batches' = Dismissed(marked[r]) /\ (UNCHANGED cooling \/ OpenWindow(media[r]))
         \/ UNCHANGED batches /\ OpenWindow(media[r])
  BY DEF NothingToAsk, ReplyPicks, ReplyEmpty, ReplyMalformed, EmptyHanded, Fail, Rollback, Committed
<1>3. CASE r \in Gets
  <2>1. Due(media[r])
    BY <1>1, <1>3 DEF SuggestionsInv
  <2>2. Dismissed(marked[r]) = batches
    BY <1>3, DismissedHides DEF SuggestionsInv, MarkedInv
  <2>3. NewBatch(r) = Generated(media[r], TRUE)
    <3>1. (r \in Gets) = TRUE
      BY <1>3
    <3> QED
      BY <3>1 DEF NewBatch
  <2> QED
    BY <1>2, <2>1, <2>2, <2>3 DEF Refreshes, ledgerVars
<1>4. CASE r \in Regenerations
  <2>1. Cardinality(Recent) < MaxRegens
    BY <1>1, <1>4 DEF SuggestionsInv
  <2>2. /\ marked[r] \in SUBSET { i \in DOMAIN batches : batches[i].media = media[r] }
        /\ Shown(media[r]) \subseteq marked[r]
    BY <1>1, <1>4 DEF MarkedInv
  <2>3. NewBatch(r) = Generated(media[r], FALSE)
    <3>1. (r \in Gets) = FALSE
      BY <1>4, RequestsAssumption
    <3> QED
      BY <3>1 DEF NewBatch
  <2> QED
    BY <1>2, <2>1, <2>2, <2>3 DEF Regenerates
<1> QED
  BY <1>1, <1>3, <1>4

LEMMA StepIsLedger ==
    ASSUME SuggestionsInv, MarkedInv, [Next]_vars
    PROVE  [LedgerNext]_ledgerVars
<1>1. CASE UNCHANGED vars
  BY <1>1 DEF vars, ledgerVars
<1>2. CASE Tick
  BY <1>2 DEF LedgerNext
<1>3. ASSUME NEW r \in Requests,
             \/ Ineligible(r) \/ Refresh(r) \/ Outrun(r) \/ LockStale(r) \/ Regenerate(r)
             \/ Curate(r) \/ NoSlot(r) \/ Call(r) \/ OpenCard(r) \/ NoCard(r)
             \/ ReplyFailed(r) \/ ReplyCurated(r) \/ Abort(r)
      PROVE  UNCHANGED ledgerVars
  BY <1>3 DEF Ineligible, Refresh, Outrun, LockStale, Regenerate, Curate, NoSlot, Call, OpenCard,
     NoCard, ReplyFailed, ReplyCurated, Abort, Fail, Rollback, ledgerVars
<1>4. ASSUME NEW r \in Requests,
             NothingToAsk(r) \/ ReplyPicks(r) \/ ReplyEmpty(r) \/ ReplyMalformed(r)
      PROVE  [LedgerNext]_ledgerVars
  <2>1. media[r] \in Media
    BY DEF SuggestionsInv, TypeOK
  <2> QED
    BY <1>4, <2>1, GeneratesIsLedger DEF LedgerNext
<1>5. ASSUME NEW r \in Requests, WriteCard(r) PROVE [LedgerNext]_ledgerVars
  <2>1. PICK i \in DOMAIN batches : marked[r] = {i}
    BY <1>5 DEF WriteCard, MarkedInv
  <2>2. UNCHANGED <<now, cooling>> /\ batches' \in {batches, Dismissed({i})}
    BY <1>5, <2>1 DEF WriteCard, Committed
  <2> QED
    BY <2>2 DEF LedgerNext, Dismiss, ledgerVars
<1>6. ASSUME NEW r \in Requests, Handle(r) PROVE [LedgerNext]_ledgerVars
  BY <1>6, <1>3, <1>4, <1>5 DEF Handle
<1>7. ASSUME NEW r \in Requests, Reply(r) PROVE [LedgerNext]_ledgerVars
  BY <1>7, <1>3, <1>4 DEF Reply
<1> QED
  BY <1>1, <1>2, <1>3, <1>6, <1>7 DEF Next

\* The handlers, which look, wait for the LLM and commit, implement the ledger,
\* in which a generation is due and takes effect at one and the same moment.
THEOREM GenerationIsAtomic == Spec => GenerationsAreAtomic
<1>1. Init => LedgerInit /\ MarkedInv
  <2> SUFFICES ASSUME Init PROVE MarkedInv
    BY DEF Init
  <2> QED
    BY RequestsAssumption DEF Init, MarkedInv, Requests
<1>2. SuggestionsInv /\ MarkedInv /\ [Next]_vars => MarkedInv'
  BY MarkedStep
<1>3. SuggestionsInv /\ MarkedInv /\ [Next]_vars => [LedgerNext]_ledgerVars
  BY StepIsLedger
<1> QED
  BY <1>1, <1>2, <1>3, GenerationsHold, PTL DEF Spec, GenerationsAreAtomic, LedgerSpec
=============================================================================
