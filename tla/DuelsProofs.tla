----------------------------- MODULE DuelsProofs -----------------------------
(***************************************************************************)
(* Proofs about Duels, for any number of films, tokens and requests.       *)
(* The inductive invariant is built in layers, each proved from the ones   *)
(* before it: types, who holds which row lock, what a request has read,    *)
(* which requests are recorded, then the rating chain.                     *)
(***************************************************************************)
EXTENDS Duels, FiniteSetTheorems, TLAPS

\* The row locks request r holds at its present step.
Holds(r, f) ==
    \/ pc[r] = "lockSecond" /\ f = First(body[r])
    \/ pc[r] \in {"locked", "flushed"} /\ f \in Pair(body[r])

LockInv == \A r \in Requests, f \in Films : lock[f] = r <=> Holds(r, f)

\* A row that was read under a lock is a row.
ReadTyped ==
    \A r \in Requests :
        /\ pc[r] = "lockSecond" => read[r][First(body[r])] \in Row
        /\ pc[r] \in {"locked", "flushed", "recorded"} =>
              \A f \in Pair(body[r]) : read[r][f] \in Row

\* What was read under a lock is still what the row says.
ReadInv == \A r \in Requests, f \in Films : Holds(r, f) => read[r][f] = row[f]

RecordedInv == \A r \in Requests : r \in Recorded <=> pc[r] = "recorded"

LEMMA PairTypes ==
    ASSUME NEW s \in Submissions
    PROVE  /\ s.a \in Films /\ s.b \in Films /\ s.a # s.b
           /\ s.outcome \in Outcomes
           /\ s.token \in Tokens \cup {NoToken}
           /\ First(s) \in Films /\ Second(s) \in Films
           /\ Pair(s) = {First(s), Second(s)} /\ First(s) # Second(s)
    BY DEF Submissions, First, Second, Pair

LEMMA AfterType ==
    ASSUME NEW rw \in Row, NEW f, NEW s \in Submissions, NEW r \in Requests
    PROVE  After(rw, f, s, r) \in Row
    BY DEF After, Rated, Unseen, Kept, Row, SeenValues

LEMMA UnlockedType ==
    ASSUME TypeOK, NEW r \in Requests
    PROVE  /\ Unlocked(r) \in [Films -> Requests \cup {NoRequest}]
           /\ Nothing \in [Films -> Row \cup {NotRead}]
    BY DEF TypeOK, Unlocked, Nothing

LEMMA TypeStep == TypeOK /\ ReadTyped /\ [Next]_vars => TypeOK'
<1> SUFFICES ASSUME TypeOK, ReadTyped, [Next]_vars PROVE TypeOK'
  OBVIOUS
<1> USE DEF TypeOK
<1>1. ASSUME NEW t \in Tokens, IssueToken(t) PROVE TypeOK'
  BY <1>1 DEF IssueToken
<1>2. ASSUME NEW f \in Films, MarkSeen(f) PROVE TypeOK'
  BY <1>2 DEF MarkSeen, Row, SeenValues
<1>3. ASSUME NEW r \in Requests, Arrive(r) PROVE TypeOK'
  BY <1>3 DEF Arrive, Running
<1>4. ASSUME NEW r \in Requests, Decode(r) PROVE TypeOK'
  BY <1>4 DEF Decode, Running, Ended
<1>5. ASSUME NEW r \in Requests, LockFirst(r) PROVE TypeOK'
  BY <1>5, PairTypes DEF LockFirst, LockRow, Running
<1>6. ASSUME NEW r \in Requests, LockSecond(r) PROVE TypeOK'
  BY <1>6, PairTypes DEF LockSecond, LockRow, Running
<1>7. ASSUME NEW r \in Requests, Flush(r) PROVE TypeOK'
  <2>1. CASE DigestTaken(body[r])
    BY <1>7, <2>1, UnlockedType DEF Flush, Ended
  <2>2. CASE ~DigestTaken(body[r])
    BY <1>7, <2>2 DEF Flush, Running
  <2> QED
    BY <2>1, <2>2
<1>8. ASSUME NEW r \in Requests, Commit(r) PROVE TypeOK'
  <2>1. \A f \in Pair(body[r]) : After(read[r][f], f, body[r], r) \in Row
    BY <1>8, AfterType DEF Commit, ReadTyped
  <2>2. row' \in [Films -> Row]
    BY <1>8, <2>1 DEF Commit
  <2> QED
    BY <1>8, <2>2, UnlockedType DEF Commit, Ended
<1>9. ASSUME NEW r \in Requests, Abort(r) PROVE TypeOK'
  BY <1>9, UnlockedType DEF Abort, Ended
<1>10. CASE PurgeOldDuels
  BY <1>10 DEF PurgeOldDuels, Expired
<1>11. CASE Tick
  BY <1>11 DEF Tick
<1>12. CASE UNCHANGED vars
  BY <1>12 DEF vars
<1> QED
  BY <1>1, <1>2, <1>3, <1>4, <1>5, <1>6, <1>7, <1>8, <1>9, <1>10, <1>11, <1>12 DEF Next

LEMMA ReadTypedStep == TypeOK /\ ReadTyped /\ [Next]_vars => ReadTyped'
<1> SUFFICES ASSUME TypeOK, ReadTyped, [Next]_vars PROVE ReadTyped'
  OBVIOUS
<1> USE DEF TypeOK, ReadTyped
<1>1. ASSUME NEW t \in Tokens, IssueToken(t) PROVE ReadTyped'
  BY <1>1 DEF IssueToken
<1>2. ASSUME NEW f \in Films, MarkSeen(f) PROVE ReadTyped'
  BY <1>2 DEF MarkSeen
<1>3. ASSUME NEW r \in Requests, Arrive(r) PROVE ReadTyped'
  BY <1>3 DEF Arrive
<1>4. ASSUME NEW r \in Requests, Decode(r) PROVE ReadTyped'
  BY <1>4 DEF Decode
<1>5. ASSUME NEW r \in Requests, LockFirst(r) PROVE ReadTyped'
  BY <1>5, PairTypes DEF LockFirst, LockRow
<1>6. ASSUME NEW r \in Requests, LockSecond(r) PROVE ReadTyped'
  BY <1>6, PairTypes DEF LockSecond, LockRow
<1>7. ASSUME NEW r \in Requests, Flush(r) PROVE ReadTyped'
  BY <1>7 DEF Flush
<1>8. ASSUME NEW r \in Requests, Commit(r) PROVE ReadTyped'
  BY <1>8 DEF Commit
<1>9. ASSUME NEW r \in Requests, Abort(r) PROVE ReadTyped'
  BY <1>9 DEF Abort
<1>10. CASE PurgeOldDuels
  BY <1>10 DEF PurgeOldDuels
<1>11. CASE Tick
  BY <1>11 DEF Tick
<1>12. CASE UNCHANGED vars
  BY <1>12 DEF vars
<1> QED
  BY <1>1, <1>2, <1>3, <1>4, <1>5, <1>6, <1>7, <1>8, <1>9, <1>10, <1>11, <1>12 DEF Next

LEMMA InitTyped == Init => TypeOK /\ ReadTyped
<1> SUFFICES ASSUME Init PROVE TypeOK /\ ReadTyped
  OBVIOUS
<1>1. row \in [Films -> Row]
  BY DEF Init, NewRow, Row, SeenValues
<1>2. body \in [Requests -> Submissions]
  BY BodiesAssumption DEF Init
<1> QED
  BY <1>1, <1>2 DEF Init, TypeOK, Nothing, Running, Ended, ReadTyped

LEMMA ReadsTyped == Spec => [](TypeOK /\ ReadTyped)
  BY InitTyped, TypeStep, ReadTypedStep, PTL DEF Spec

\* Type correctness of the transaction-level specification: among the rest,
\* that a commit writes rows computed from rows that were really read.
THEOREM TypeCorrect == Spec => []TypeOK
  BY ReadsTyped, PTL
-----------------------------------------------------------------------------
(* Who holds which lock, and who is recorded *)

LEMMA LockStep == TypeOK /\ LockInv /\ [Next]_vars => LockInv'
<1> SUFFICES ASSUME TypeOK, LockInv, [Next]_vars PROVE LockInv'
  OBVIOUS
<1> USE DEF TypeOK, LockInv, Holds
<1>1. ASSUME NEW t \in Tokens, IssueToken(t) PROVE LockInv'
  BY <1>1 DEF IssueToken
<1>2. ASSUME NEW f \in Films, MarkSeen(f) PROVE LockInv'
  BY <1>2 DEF MarkSeen
<1>3. ASSUME NEW r \in Requests, Arrive(r) PROVE LockInv'
  BY <1>3 DEF Arrive
<1>4. ASSUME NEW r \in Requests, Decode(r) PROVE LockInv'
  BY <1>4 DEF Decode
<1>5. ASSUME NEW r \in Requests, LockFirst(r) PROVE LockInv'
  BY <1>5, PairTypes, MarkersAssumption DEF LockFirst, LockRow
<1>6. ASSUME NEW r \in Requests, LockSecond(r) PROVE LockInv'
  BY <1>6, PairTypes, MarkersAssumption DEF LockSecond, LockRow
<1>7. ASSUME NEW r \in Requests, Flush(r) PROVE LockInv'
  BY <1>7, MarkersAssumption DEF Flush, Unlocked
<1>8. ASSUME NEW r \in Requests, Commit(r) PROVE LockInv'
  BY <1>8, MarkersAssumption DEF Commit, Unlocked
<1>9. ASSUME NEW r \in Requests, Abort(r) PROVE LockInv'
  BY <1>9, MarkersAssumption DEF Abort, Unlocked
<1>10. CASE PurgeOldDuels
  BY <1>10 DEF PurgeOldDuels
<1>11. CASE Tick
  BY <1>11 DEF Tick
<1>12. CASE UNCHANGED vars
  BY <1>12 DEF vars
<1> QED
  BY <1>1, <1>2, <1>3, <1>4, <1>5, <1>6, <1>7, <1>8, <1>9, <1>10, <1>11, <1>12 DEF Next

LEMMA RecordedStep == TypeOK /\ RecordedInv /\ [Next]_vars => RecordedInv'
<1> SUFFICES ASSUME TypeOK, RecordedInv, [Next]_vars PROVE RecordedInv'
  OBVIOUS
<1> USE DEF TypeOK, RecordedInv, Recorded, Running, Ended
<1>1. ASSUME NEW r \in Requests, Commit(r) PROVE RecordedInv'
  BY <1>1 DEF Commit
<1>2. CASE PurgeOldDuels
  BY <1>2 DEF PurgeOldDuels, Expired
<1>3. ASSUME NEW r \in Requests,
             Arrive(r) \/ Decode(r) \/ LockFirst(r) \/ LockSecond(r) \/ Flush(r) \/ Abort(r)
      PROVE  RecordedInv'
  BY <1>3 DEF Arrive, Decode, LockFirst, LockSecond, LockRow, Flush, Abort
<1>4. CASE UNCHANGED <<pc, duels, history>>
  BY <1>4
<1> QED
  BY <1>1, <1>2, <1>3, <1>4 DEF Next, IssueToken, MarkSeen, Tick, vars

\* How a step can touch what the ratings are stated over: a commit, a seen
\* flag, or nothing.
LEMMA StepCases ==
    ASSUME TypeOK, RecordedInv, [Next]_vars
    PROVE  \/ \E r \in Requests : Commit(r)
           \/ \E f \in Films : MarkSeen(f)
           \/ /\ row' = row /\ Recorded' = Recorded /\ body' = body
              /\ \A d \in Recorded : read'[d] = read[d]
<1> USE DEF TypeOK, RecordedInv, Recorded, Running
<1>1. CASE PurgeOldDuels
  BY <1>1 DEF PurgeOldDuels, Expired
<1>2. ASSUME NEW r \in Requests,
             Arrive(r) \/ Decode(r) \/ LockFirst(r) \/ LockSecond(r) \/ Flush(r) \/ Abort(r)
      PROVE  /\ row' = row /\ Recorded' = Recorded /\ body' = body
             /\ \A d \in Recorded : read'[d] = read[d]
  BY <1>2 DEF Arrive, Decode, LockFirst, LockSecond, LockRow, Flush, Abort
<1>3. ASSUME UNCHANGED <<row, duels, history, body, read>>
      PROVE  /\ row' = row /\ Recorded' = Recorded /\ body' = body
             /\ \A d \in Recorded : read'[d] = read[d]
  BY <1>3
<1> QED
  BY <1>1, <1>2, <1>3 DEF Next, IssueToken, Tick, vars

LEMMA ReadStep ==
    TypeOK /\ LockInv /\ LockInv' /\ ReadInv /\ [Next]_vars => ReadInv'
<1> SUFFICES ASSUME TypeOK, LockInv, LockInv', ReadInv, [Next]_vars PROVE ReadInv'
  OBVIOUS
<1> USE DEF TypeOK, ReadInv, LockInv
<1>1. ASSUME NEW t \in Tokens, IssueToken(t) PROVE ReadInv'
  BY <1>1 DEF IssueToken, Holds
<1>2. ASSUME NEW f \in Films, MarkSeen(f) PROVE ReadInv'
  BY <1>2, MarkersAssumption DEF MarkSeen, Holds
<1>3. ASSUME NEW r \in Requests, Arrive(r) PROVE ReadInv'
  BY <1>3 DEF Arrive, Holds
<1>4. ASSUME NEW r \in Requests, Decode(r) PROVE ReadInv'
  BY <1>4 DEF Decode, Holds
<1>5. ASSUME NEW r \in Requests, LockFirst(r) PROVE ReadInv'
  BY <1>5, PairTypes DEF LockFirst, LockRow, Holds
<1>6. ASSUME NEW r \in Requests, LockSecond(r) PROVE ReadInv'
  BY <1>6, PairTypes DEF LockSecond, LockRow, Holds
<1>7. ASSUME NEW r \in Requests, Flush(r) PROVE ReadInv'
  BY <1>7 DEF Flush, Holds
<1>8. ASSUME NEW r \in Requests, Commit(r) PROVE ReadInv'
  <2>1. ASSUME NEW q \in Requests, NEW f \in Films, Holds(q, f)'
        PROVE  q # r /\ Holds(q, f) /\ f \notin Pair(body[r])
    BY <1>8, <2>1 DEF Commit, Holds
  <2> QED
    BY <1>8, <2>1 DEF Commit
<1>9. ASSUME NEW r \in Requests, Abort(r) PROVE ReadInv'
  BY <1>9 DEF Abort, Holds
<1>10. CASE PurgeOldDuels
  BY <1>10 DEF PurgeOldDuels, Holds
<1>11. CASE Tick
  BY <1>11 DEF Tick, Holds
<1>12. CASE UNCHANGED vars
  BY <1>12 DEF vars, Holds
<1> QED
  BY <1>1, <1>2, <1>3, <1>4, <1>5, <1>6, <1>7, <1>8, <1>9, <1>10, <1>11, <1>12 DEF Next

\* The layers every later argument rests on.
Base == TypeOK /\ ReadTyped /\ LockInv /\ RecordedInv /\ ReadInv

LEMMA InitBase == Init => Base
<1> SUFFICES ASSUME Init PROVE Base
  OBVIOUS
<1>1. TypeOK /\ ReadTyped
  BY InitTyped
<1> QED
  BY <1>1, MarkersAssumption
  DEF Init, Base, LockInv, Holds, RecordedInv, Recorded, ReadInv

LEMMA BaseHolds == Spec => []Base
<1>1. Base /\ [Next]_vars => Base'
  BY TypeStep, ReadTypedStep, LockStep, RecordedStep, ReadStep DEF Base
<1> QED
  BY InitBase, <1>1, PTL DEF Spec
-----------------------------------------------------------------------------
(* The rating chain: no update is lost *)

RatingsRecorded ==
    /\ \A f \in Films : row[f].rating \in Recorded \cup {Unrated}
    /\ \A d \in Recorded : \A f \in Pair(body[d]) :
          read[d][f].rating \in Recorded \cup {Unrated}

ChainInv == RatingsRecorded /\ RatingChain

\* What a commit does to the rating of one film.
LEMMA CommitRating ==
    ASSUME Base, NEW r \in Requests, Commit(r)
    PROVE  /\ r \notin Recorded /\ Recorded' = Recorded \cup {r}
           /\ body' = body /\ read' = read
           /\ \A f \in Pair(body[r]) : f \in Films /\ read[r][f] = row[f]
           /\ \A f \in Films : row'[f] = IF f \in Pair(body[r])
                                       THEN After(row[f], f, body[r], r) ELSE row[f]
<1>1. r \notin Recorded /\ Recorded' = Recorded \cup {r} /\ body' = body /\ read' = read
  BY DEF Commit, Base, RecordedInv, Recorded
<1>2. \A f \in Pair(body[r]) : f \in Films /\ read[r][f] = row[f]
  <2>1. Pair(body[r]) \subseteq Films
    BY PairTypes DEF Base, TypeOK
  <2> QED
    BY <2>1 DEF Commit, Base, ReadInv, Holds
<1> QED
  BY <1>1, <1>2 DEF Commit

LEMMA AfterRating ==
    ASSUME NEW rw \in Row, NEW f, NEW s \in Submissions, NEW r \in Requests
    PROVE  After(rw, f, s, r).rating = IF Decided(s) THEN r ELSE rw.rating
    BY DEF After, Rated, Unseen, Kept, Row

LEMMA ChainStep == Base /\ ChainInv /\ [Next]_vars => ChainInv'
<1> SUFFICES ASSUME Base, ChainInv, [Next]_vars PROVE ChainInv'
  OBVIOUS
<1> USE DEF ChainInv, RatingsRecorded, RatingChain
<1>1. TypeOK /\ RecordedInv
  BY DEF Base
<1>2. Recorded \subseteq Requests /\ \A d \in Recorded : Pair(body[d]) \subseteq Films
  <2>1. Recorded \subseteq Requests
    BY <1>1 DEF TypeOK, Recorded
  <2>2. \A d \in Requests : body[d] \in Submissions
    BY <1>1 DEF TypeOK
  <2>3. \A s \in Submissions : Pair(s) \subseteq Films
    BY PairTypes DEF Pair
  <2> QED
    BY <2>1, <2>2, <2>3
<1>3. ASSUME NEW r \in Requests, Commit(r) PROVE ChainInv'
  <2>1. \A f \in Films : row'[f].rating =
            IF f \in Pair(body[r]) /\ Decided(body[r]) THEN r ELSE row[f].rating
    BY <1>1, <1>3, CommitRating, AfterRating DEF TypeOK
  <2>2. \A f \in Films : Moved(f)' =
            IF f \in Pair(body[r]) /\ Decided(body[r]) THEN Moved(f) \cup {r} ELSE Moved(f)
    BY <1>3, CommitRating DEF Moved
  <2>3. RatingsRecorded'
    BY <1>3, <2>1, CommitRating
  <2>4. RatingChain'
    <3> SUFFICES ASSUME NEW f \in Films
                 PROVE  /\ \A d, e \in Moved(f)' :
                              read[d][f].rating = read[e][f].rating => d = e
                        /\ \A d \in Moved(f)' : read[d][f].rating # row'[f].rating
      BY <1>3, CommitRating
    <3>1. CASE f \in Pair(body[r]) /\ Decided(body[r])
      <4>1. \A d \in Moved(f) : read[d][f].rating # read[r][f].rating
        BY <1>3, <3>1, CommitRating
      <4>2. \A d \in Moved(f) : read[d][f].rating # r
        BY <1>3, CommitRating, RequestsAssumption DEF Moved
      <4>3. read[r][f].rating # r
        BY <1>3, <3>1, CommitRating, RequestsAssumption
      <4> QED
        BY <2>1, <2>2, <3>1, <4>1, <4>2, <4>3
    <3>2. CASE ~(f \in Pair(body[r]) /\ Decided(body[r]))
      BY <2>1, <2>2, <3>2
    <3> QED
      BY <3>1, <3>2
  <2> QED
    BY <2>3, <2>4
<1>4. ASSUME NEW f \in Films, MarkSeen(f) PROVE ChainInv'
  <2>0. /\ Recorded' = Recorded /\ body' = body /\ read' = read
        /\ \A g \in Films : row'[g].rating = row[g].rating
    BY <1>1, <1>4 DEF MarkSeen, TypeOK, Row, Recorded
  <2>1. \A g \in Films : Moved(g)' = Moved(g)
    BY <2>0 DEF Moved
  <2> QED
    BY <2>0, <2>1
<1>5. CASE /\ row' = row /\ Recorded' = Recorded /\ body' = body
           /\ \A d \in Recorded : read'[d] = read[d]
  BY <1>5 DEF Moved
<1> QED
  BY <1>1, <1>3, <1>4, <1>5, StepCases

LEMMA InitChain == Init => ChainInv
  BY DEF Init, ChainInv, RatingsRecorded, RatingChain, Recorded, Moved, NewRow

\* No update of a rating is ever lost: two duels of one film never start from
\* the same rating, for any number of concurrent duels and tournament matches.
THEOREM NoLostRating == Spec => []RatingChain
<1>1. Base /\ ChainInv /\ [Next]_vars => ChainInv'
  BY ChainStep
<1>2. ChainInv => RatingChain
  BY DEF ChainInv
<1> QED
  BY InitChain, BaseHolds, <1>1, <1>2, PTL DEF Spec
-----------------------------------------------------------------------------
(* battles counts the duels *)

LEMMA AfterBattles ==
    ASSUME NEW rw \in Row, NEW f, NEW s \in Submissions, NEW r \in Requests
    PROVE  After(rw, f, s, r).battles = IF Decided(s) THEN rw.battles + 1 ELSE rw.battles
    BY DEF After, Rated, Unseen, Kept, Row

LEMMA MovedFinite ==
    ASSUME TypeOK, NEW f \in Films
    PROVE  IsFiniteSet(Moved(f)) /\ Cardinality(Moved(f)) \in Nat
<1>1. Moved(f) \subseteq Requests
  BY DEF Moved, Recorded, TypeOK
<1> QED
  BY <1>1, RequestsAssumption, FS_Subset, FS_CardinalityType

LEMMA BattlesStep == Base /\ BattlesCountDuels /\ [Next]_vars => BattlesCountDuels'
<1> SUFFICES ASSUME Base, BattlesCountDuels, [Next]_vars PROVE BattlesCountDuels'
  OBVIOUS
<1> USE DEF BattlesCountDuels
<1>1. TypeOK /\ RecordedInv
  BY DEF Base
<1>2. ASSUME NEW r \in Requests, Commit(r), NEW f \in Films
      PROVE  row'[f].battles = Cardinality(Moved(f)')
  <2>1. CASE f \in Pair(body[r]) /\ Decided(body[r])
    <3>1. Moved(f)' = Moved(f) \cup {r} /\ r \notin Moved(f)
      BY <1>2, <2>1, CommitRating DEF Moved
    <3>2. Cardinality(Moved(f)') = Cardinality(Moved(f)) + 1
      BY <1>1, <3>1, MovedFinite, FS_AddElement
    <3>3. row'[f].battles = row[f].battles + 1
      BY <1>1, <1>2, <2>1, CommitRating, AfterBattles DEF TypeOK
    <3> QED
      BY <3>2, <3>3
  <2>2. CASE ~(f \in Pair(body[r]) /\ Decided(body[r]))
    <3>1. Moved(f)' = Moved(f)
      BY <1>2, <2>2, CommitRating DEF Moved
    <3>2. row'[f].battles = row[f].battles
      BY <1>1, <1>2, <2>2, CommitRating, AfterBattles DEF TypeOK
    <3> QED
      BY <3>1, <3>2
  <2> QED
    BY <2>1, <2>2
<1>3. ASSUME NEW f \in Films, MarkSeen(f) PROVE BattlesCountDuels'
  <2>0. /\ Recorded' = Recorded /\ body' = body /\ read' = read
        /\ \A g \in Films : row'[g].battles = row[g].battles
    BY <1>1, <1>3 DEF MarkSeen, TypeOK, Row, Recorded
  <2>1. \A g \in Films : Moved(g)' = Moved(g)
    BY <2>0 DEF Moved
  <2> QED
    BY <2>0, <2>1
<1>4. CASE /\ row' = row /\ Recorded' = Recorded /\ body' = body
           /\ \A d \in Recorded : read'[d] = read[d]
  BY <1>4 DEF Moved
<1> QED
  BY <1>1, <1>2, <1>3, <1>4, StepCases

\* battles is exactly the number of decided duels of the film, whichever
\* requests failed, conflicted or were purged.
THEOREM BattlesAreDuels == Spec => []BattlesCountDuels
<1>1. Init => BattlesCountDuels
  <2>1. ASSUME Init, NEW f \in Films PROVE Moved(f) = {} /\ row[f].battles = 0
    BY <2>1 DEF Init, Moved, Recorded, NewRow
  <2> QED
    BY <2>1, FS_EmptySet DEF BattlesCountDuels
<1> QED
  BY <1>1, BattlesStep, BaseHolds, PTL DEF Spec
-----------------------------------------------------------------------------
(* A ranked film is a seen film *)

\* The films of a tournament match are ranked, and a rating is never taken away.
MatchRanked ==
    \A r \in Requests :
        (IsMatch(body[r]) /\ pc[r] # "idle") =>
            \A f \in Pair(body[r]) : row[f].rating # Unrated

LEMMA RatingStays ==
    ASSUME Base, [Next]_vars
    PROVE  \A f \in Films : row[f].rating # Unrated => row'[f].rating # Unrated
<1>1. TypeOK /\ RecordedInv
  BY DEF Base
<1>2. ASSUME NEW r \in Requests, Commit(r), NEW f \in Films, row[f].rating # Unrated
      PROVE  row'[f].rating # Unrated
  <2>1. After(row[f], f, body[r], r).rating # Unrated
    BY <1>1, <1>2, AfterRating, RequestsAssumption DEF TypeOK
  <2> QED
    BY <1>2, <2>1, CommitRating
<1>3. ASSUME NEW g \in Films, MarkSeen(g), NEW f \in Films, row[f].rating # Unrated
      PROVE  row'[f].rating # Unrated
  BY <1>1, <1>3 DEF MarkSeen, TypeOK, Row
<1> QED
  BY <1>1, <1>2, <1>3, StepCases

LEMMA MatchStep == Base /\ MatchRanked /\ [Next]_vars => MatchRanked'
<1> SUFFICES ASSUME Base, MatchRanked, [Next]_vars,
                    NEW r \in Requests, IsMatch(body'[r]), pc'[r] # "idle",
                    NEW f \in Pair(body'[r])
             PROVE  row'[f].rating # Unrated
  BY DEF MatchRanked
<1>1. TypeOK
  BY DEF Base
<1>2. body' = body
  BY DEF Next, IssueToken, MarkSeen, Arrive, Decode, LockFirst, LockSecond, LockRow,
         Flush, Commit, Abort, PurgeOldDuels, Tick, vars
<1>3. f \in Films
  BY <1>1, <1>2, PairTypes DEF TypeOK
<1>4. CASE pc[r] # "idle"
  BY <1>2, <1>3, <1>4, RatingStays DEF MatchRanked
<1>5. CASE pc[r] = "idle"
  <2>1. Arrive(r)
    BY <1>1, <1>5 DEF TypeOK, Next, IssueToken, MarkSeen, Arrive, Decode, LockFirst,
         LockSecond, LockRow, Flush, Commit, Abort, PurgeOldDuels, Tick, vars, Running
  <2> QED
    BY <1>2, <1>3, <2>1, RatingStays DEF Arrive
<1> QED
  BY <1>4, <1>5

LEMMA RankedStep ==
    Base /\ MatchRanked /\ RankedIsSeen /\ [Next]_vars => RankedIsSeen'
<1> SUFFICES ASSUME Base, MatchRanked, RankedIsSeen, [Next]_vars PROVE RankedIsSeen'
  OBVIOUS
<1> USE DEF RankedIsSeen
<1>1. TypeOK /\ RecordedInv
  BY DEF Base
<1>2. ASSUME NEW r \in Requests, Commit(r) PROVE RankedIsSeen'
  <2>1. \A f \in Films : row[f] \in Row
    BY <1>1 DEF TypeOK
  <2>2. ASSUME NEW f \in Films, f \in Pair(body[r])
        PROVE  /\ After(row[f], f, body[r], r).battles > 0 =>
                      After(row[f], f, body[r], r).seen = "yes"
               /\ After(row[f], f, body[r], r).battles > 0 <=>
                      After(row[f], f, body[r], r).rating # Unrated
    <3>1. row[f].battles > 0 => row[f].seen = "yes"
      OBVIOUS
    <3>2. row[f].battles > 0 <=> row[f].rating # Unrated
      OBVIOUS
    <3>3. IsMatch(body[r]) => row[f].rating # Unrated
      BY <1>2, <2>2 DEF MatchRanked, Commit
    <3>4. r # Unrated
      BY RequestsAssumption
    <3> QED
      BY <2>1, <3>1, <3>2, <3>3, <3>4 DEF After, Rated, Unseen, Kept, Row, IsMatch
  <2> QED
    BY <1>2, <2>2, CommitRating
<1>3. ASSUME NEW f \in Films, MarkSeen(f) PROVE RankedIsSeen'
  BY <1>1, <1>3 DEF MarkSeen, TypeOK, Row
<1>4. CASE row' = row
  BY <1>4
<1> QED
  BY <1>1, <1>2, <1>3, <1>4, StepCases

\* No interleaving of skips and decided duels leaves a film ranked but unseen,
\* or with battles and no rating.
THEOREM RankedStaysSeen == Spec => []RankedIsSeen
<1>1. Init => MatchRanked /\ RankedIsSeen
  BY DEF Init, MatchRanked, RankedIsSeen, NewRow
<1> QED
  BY <1>1, MatchStep, RankedStep, BaseHolds, PTL DEF Spec
-----------------------------------------------------------------------------
(* A pair token is applied at most once *)

\* When a request may still present its token, and when a duel is purged.
TimeInv ==
    /\ \A r \in Requests :
          /\ pc[r] \in Running => since[r] <= now /\ now <= since[r] + RequestLifetime
          /\ (pc[r] # "idle" /\ ~IsMatch(body[r])) =>
                /\ issued[body[r].token] \in Nat
                /\ issued[body[r].token] <= since[r]
          /\ (pc[r] \in {"lockFirst", "lockSecond", "locked", "flushed", "recorded"}
                /\ ~IsMatch(body[r])) =>
                /\ since[r] <= issued[body[r].token] + TTL
                /\ PairOf[body[r].token] = Pair(body[r])
          /\ pc[r] \in {"flushed", "recorded"} => since[r] <= created[r]
    /\ \A r \in history : created[r] + Retention < now
    /\ \A t \in Tokens : issued[t] # Never => issued[t] <= now

\* A request about to commit is the only one with its token.
FreshInv ==
    \A r \in Requests : (pc[r] = "flushed" /\ ~IsMatch(body[r])) =>
        \A d \in Recorded : body[d].token # body[r].token

LEMMA TimeStep == Base /\ TimeInv /\ [Next]_vars => TimeInv'
<1> SUFFICES ASSUME Base, TimeInv, [Next]_vars PROVE TimeInv'
  OBVIOUS
<1>0. TypeOK
  BY DEF Base
<1> USE TimesAssumption DEF TimeInv, Running
<1>t. ASSUME NEW r \in Requests, ~IsMatch(body[r]) PROVE body[r].token \in Tokens
  BY <1>0, <1>t, PairTypes DEF TypeOK, IsMatch
<1>1. ASSUME NEW t \in Tokens, IssueToken(t) PROVE TimeInv'
  BY <1>0, <1>1, <1>t DEF IssueToken, TypeOK
<1>2. ASSUME NEW f \in Films, MarkSeen(f) PROVE TimeInv'
  BY <1>0, <1>2 DEF MarkSeen
<1>3. ASSUME NEW r \in Requests, Arrive(r) PROVE TimeInv'
  <2>1. ~IsMatch(body[r]) =>
            issued[body[r].token] \in Nat /\ issued[body[r].token] <= now
    BY <1>0, <1>3, <1>t DEF Arrive, TypeOK
  <2>2. /\ pc[r] = "idle" /\ pc' = [pc EXCEPT ![r] = "arrived"]
        /\ since' = [since EXCEPT ![r] = now]
        /\ UNCHANGED <<now, issued, body, created, history>>
    BY <1>3 DEF Arrive
  <2>3. now \in Nat /\ now <= now + RequestLifetime
    BY <1>0 DEF TypeOK
  <2>4. r \notin history
    BY <2>2 DEF Base, RecordedInv, Recorded
  <2>5. \A q \in Requests :
            /\ pc'[q] = IF q = r THEN "arrived" ELSE pc[q]
            /\ since'[q] = IF q = r THEN now ELSE since[q]
    BY <1>0, <2>2 DEF TypeOK
  <2>6. history \subseteq Requests
    BY <1>0 DEF TypeOK
  <2> QED
    BY <2>1, <2>2, <2>3, <2>4, <2>5, <2>6
<1>4. ASSUME NEW r \in Requests, Decode(r) PROVE TimeInv'
  BY <1>0, <1>4, <1>t DEF Decode, TokenAccepted, TypeOK
<1>5. ASSUME NEW r \in Requests, LockFirst(r) \/ LockSecond(r) PROVE TimeInv'
  BY <1>0, <1>5 DEF LockFirst, LockSecond, LockRow, TypeOK
<1>6. ASSUME NEW r \in Requests, Flush(r) PROVE TimeInv'
  <2>1. CASE DigestTaken(body[r])
    BY <1>0, <1>6, <2>1 DEF Flush, TypeOK
  <2>2. CASE ~DigestTaken(body[r])
    <3>1. /\ pc[r] = "locked" /\ pc' = [pc EXCEPT ![r] = "flushed"]
          /\ created' = [created EXCEPT ![r] = now]
          /\ UNCHANGED <<now, issued, body, since, history>>
      BY <1>6, <2>2 DEF Flush
    <3>2. since[r] <= now /\ r \notin history
      BY <3>1 DEF Base, RecordedInv, Recorded
    <3>3. \A q \in Requests :
              /\ pc'[q] = IF q = r THEN "flushed" ELSE pc[q]
              /\ created'[q] = IF q = r THEN now ELSE created[q]
      BY <1>0, <3>1 DEF TypeOK
    <3>4. history \subseteq Requests
      BY <1>0 DEF TypeOK
    <3> QED
      BY <3>1, <3>2, <3>3, <3>4
  <2> QED
    BY <2>1, <2>2
<1>7. ASSUME NEW r \in Requests, Commit(r) \/ Abort(r) PROVE TimeInv'
  BY <1>0, <1>7 DEF Commit, Abort, TypeOK
<1>8. CASE PurgeOldDuels
  BY <1>0, <1>8 DEF PurgeOldDuels, Expired, TypeOK
<1>9. CASE Tick
  BY <1>0, <1>9 DEF Tick, TypeOK
<1>10. CASE UNCHANGED vars
  BY <1>10 DEF vars
<1> QED
  BY <1>1, <1>2, <1>3, <1>4, <1>5, <1>6, <1>7, <1>8, <1>9, <1>10 DEF Next

LEMMA CommitUnlocks ==
    ASSUME Base, NEW r \in Requests, NEW q \in Requests, q # r,
           pc[r] = "flushed", pc[q] = "flushed"
    PROVE  Pair(body[q]) # Pair(body[r])
<1>1. body[r].a \in Films /\ body[r].a \in Pair(body[r])
  BY PairTypes DEF Base, TypeOK, Pair
<1>2. lock[body[r].a] = r
  BY <1>1 DEF Base, LockInv, Holds
<1>3. ~Holds(q, body[r].a)
  BY <1>1, <1>2 DEF Base, LockInv
<1> QED
  BY <1>1, <1>3 DEF Holds

\* The purge frees a digest only when every request that could still present
\* the token has ended.
LEMMA FlushIsFresh ==
    ASSUME Base, TimeInv, NEW r \in Requests, pc[r] = "locked", ~IsMatch(body[r]),
           ~DigestTaken(body[r]), NEW d \in Recorded
    PROVE  body[d].token # body[r].token
<1>1. CASE d \in duels
  BY <1>1 DEF DigestTaken
<1>2. CASE d \in history
  <2> SUFFICES ASSUME body[d].token = body[r].token PROVE FALSE
    OBVIOUS
  <2> DEFINE t == body[r].token
  <2>1. d \in Requests /\ pc[d] = "recorded" /\ ~IsMatch(body[d])
    BY <1>2 DEF Base, TypeOK, RecordedInv, Recorded, IsMatch
  <2>2. /\ created[d] + Retention < now /\ since[d] <= created[d]
        /\ issued[t] \in Nat /\ issued[t] <= since[d]
    BY <1>2, <2>1 DEF TimeInv
  <2>3. now <= since[r] + RequestLifetime /\ since[r] <= issued[t] + TTL
    BY DEF TimeInv, Running
  <2>4. now \in Nat /\ since[r] \in Nat /\ since[d] \in Nat /\ created[d] \in Nat
    BY <2>1 DEF Base, TypeOK
  <2> HIDE DEF t
  <2> QED
    BY <2>2, <2>3, <2>4, TimesAssumption, RetentionAssumption
<1> QED
  BY <1>1, <1>2 DEF Recorded

OnceInv == FreshInv /\ AtMostOncePerToken

LEMMA OnceStep == Base /\ TimeInv /\ OnceInv /\ [Next]_vars => OnceInv'
<1> SUFFICES ASSUME Base, TimeInv, OnceInv, [Next]_vars PROVE OnceInv'
  OBVIOUS
<1>0. TypeOK /\ RecordedInv /\ Recorded \subseteq Requests
  BY DEF Base, TypeOK, Recorded
<1> USE DEF OnceInv, FreshInv, AtMostOncePerToken
<1>1. ASSUME NEW r \in Requests, Commit(r) PROVE OnceInv'
  <2>1. ASSUME ~IsMatch(body[r]), NEW d \in Recorded PROVE body[d].token # body[r].token
    BY <1>1, <2>1 DEF Commit
  <2>2. AtMostOncePerToken'
    BY <1>1, <2>1, CommitRating DEF IsMatch
  <2>3. ASSUME NEW q \in Requests, pc'[q] = "flushed", ~IsMatch(body[q]),
               body[q].token = body[r].token
        PROVE  FALSE
    <3>1. q # r /\ pc[q] = "flushed" /\ pc[r] = "flushed"
      BY <1>0, <1>1, <2>3 DEF Commit, TypeOK
    <3>2. Pair(body[q]) = Pair(body[r])
      BY <2>3, <3>1 DEF TimeInv, IsMatch
    <3> QED
      BY <3>1, <3>2, CommitUnlocks
  <2>4. ASSUME NEW q \in Requests, pc'[q] = "flushed", ~IsMatch(body[q]), NEW d \in Recorded'
        PROVE  body[d].token # body[q].token
    <3>1. pc[q] = "flushed"
      BY <1>0, <1>1, <2>4 DEF Commit, TypeOK
    <3>2. d \in Recorded \/ d = r
      BY <1>1, <2>4, CommitRating
    <3> QED
      BY <2>3, <2>4, <3>1, <3>2
  <2>5. FreshInv'
    BY <1>1, <2>4, CommitRating
  <2> QED
    BY <2>2, <2>5
<1>2. ASSUME NEW r \in Requests, Flush(r) PROVE OnceInv'
  <2>1. Recorded' = Recorded /\ body' = body
    BY <1>2 DEF Flush, Recorded
  <2>2. ASSUME NEW q \in Requests, pc'[q] = "flushed", ~IsMatch(body[q]), NEW d \in Recorded
        PROVE  body[d].token # body[q].token
    <3>1. CASE q = r
      BY <1>0, <1>2, <2>2, <3>1, FlushIsFresh DEF Flush, TypeOK
    <3>2. CASE q # r
      BY <1>0, <1>2, <2>2, <3>2 DEF Flush, TypeOK
    <3> QED
      BY <3>1, <3>2
  <2> QED
    BY <2>1, <2>2
<1>3. ASSUME NEW r \in Requests,
             Arrive(r) \/ Decode(r) \/ LockFirst(r) \/ LockSecond(r) \/ Abort(r)
      PROVE  OnceInv'
  <2>1. Recorded' = Recorded /\ body' = body
    BY <1>3 DEF Arrive, Decode, LockFirst, LockSecond, LockRow, Abort, Recorded
  <2>2. \A q \in Requests : pc'[q] = "flushed" => pc[q] = "flushed"
    BY <1>0, <1>3 DEF Arrive, Decode, LockFirst, LockSecond, LockRow, Abort, TypeOK
  <2> QED
    BY <2>1, <2>2
<1>4. CASE PurgeOldDuels
  <2>1. Recorded' = Recorded /\ body' = body /\ pc' = pc
    BY <1>4 DEF PurgeOldDuels, Expired, Recorded
  <2> QED
    BY <2>1
<1>5. CASE UNCHANGED <<pc, body, duels, history>>
  <2>1. Recorded' = Recorded
    BY <1>5 DEF Recorded
  <2> QED
    BY <1>5, <2>1
<1> QED
  BY <1>1, <1>2, <1>3, <1>4, <1>5 DEF Next, IssueToken, MarkSeen, Tick, vars

\* However often a pair token is re-sent, and however the retries, the row
\* locks and the retention purge interleave, its duel is recorded once, as long
\* as a duel is kept for at least the token's TTL and a request's lifetime.
THEOREM DuelsApplyOnce == Spec => []AtMostOncePerToken
<1>1. Init => TimeInv /\ OnceInv
  BY DEF Init, TimeInv, OnceInv, FreshInv, AtMostOncePerToken, Recorded, Running
<1>2. OnceInv => AtMostOncePerToken
  BY DEF OnceInv
<1> QED
  BY <1>1, <1>2, TimeStep, OnceStep, BaseHolds, PTL DEF Spec
-----------------------------------------------------------------------------
(* A conflict tells the truth *)

LEMMA ConflictStep == Base /\ ConflictIsRecorded /\ [Next]_vars => ConflictIsRecorded'
<1> SUFFICES ASSUME Base, ConflictIsRecorded, [Next]_vars PROVE ConflictIsRecorded'
  OBVIOUS
<1>1. body' = body
  BY DEF Next, vars, IssueToken, MarkSeen, Arrive, Decode, LockFirst, LockSecond, LockRow, Flush,
         Commit, Abort, PurgeOldDuels, Tick
<1>2. Recorded \subseteq Recorded'
  BY DEF Recorded, Next, vars, IssueToken, MarkSeen, Arrive, Decode, LockFirst, LockSecond,
         LockRow, Flush, Commit, Abort, PurgeOldDuels, Tick
<1>3. ASSUME NEW r \in Requests, pc'[r] = "conflict", pc[r] # "conflict"
      PROVE  \E d \in Recorded : body[d].token = body[r].token
  <2>1. Flush(r) /\ DigestTaken(body[r])
    BY <1>3 DEF Base, TypeOK, Next, vars, IssueToken, MarkSeen, Arrive, Decode, LockFirst,
       LockSecond, LockRow, Flush, Commit, Abort, PurgeOldDuels, Tick
  <2> QED
    BY <2>1 DEF DigestTaken, Recorded
<1> QED
  BY <1>1, <1>2, <1>3 DEF ConflictIsRecorded

\* A 409 is never about a duel that was not recorded: the client that takes it
\* for success loses nothing, also when the duel it lost to is purged later.
THEOREM ConflictsAreTrue == Spec => []ConflictIsRecorded
<1>1. Init => ConflictIsRecorded
  BY DEF Init, ConflictIsRecorded
<1> QED
  BY <1>1, ConflictStep, BaseHolds, PTL DEF Spec
-----------------------------------------------------------------------------
(* The transactions implement the atomic ledger *)

LEMMA SameRules ==
    /\ \A s : Ledger!Pair(s) = Pair(s) /\ Ledger!IsMatch(s) = IsMatch(s)
    /\ \A rw, f, s, r : Ledger!After(rw, f, s, r) = After(rw, f, s, r)
    /\ \A w : Ledger!NewRow(w) = NewRow(w)
    /\ Ledger!Submissions = Submissions
BY DEF Ledger!Pair, Pair, Ledger!IsMatch, IsMatch, Ledger!NewRow, NewRow,
       Ledger!After, After, Ledger!Rated, Rated, Ledger!Unseen, Unseen, Ledger!Kept, Kept,
       Ledger!Decided, Decided, Ledger!Disowned, Disowned,
       Ledger!Submissions, Submissions, Ledger!Outcomes, Outcomes

\* The refinement mapping of DuelLedger's entry.
Entries == [r \in Requests |-> EntryOfRequest(r)]

LEMMA EntryIsNot ==
    ASSUME Base, NEW r \in Recorded
    PROVE  /\ EntryOfRequest(r) # NoEntry
           /\ EntryOfRequest(r).body = body[r]
<1>1. r \in Requests /\ body[r] \in Submissions /\ pc[r] = "recorded"
  BY DEF Base, TypeOK, RecordedInv, Recorded
<1>2. read[r][body[r].a] \in Row /\ read[r][body[r].b] \in Row
  BY <1>1 DEF Base, ReadTyped, Pair
<1> QED
  BY <1>1, <1>2, MarkersAssumption DEF EntryOfRequest

LEMMA EntriesKept ==
    ASSUME Recorded' = Recorded, body' = body, \A d \in Recorded : read'[d] = read[d]
    PROVE  Entries' = Entries
    BY DEF Entries, EntryOfRequest

LEMMA CommitRecords ==
    ASSUME Base, OnceInv, NEW r \in Requests, Commit(r)
    PROVE  Ledger!Record(r, body[r])
<1> DEFINE s == body[r]
<1>1. s \in Submissions /\ s.a \in Pair(s) /\ s.b \in Pair(s)
  BY DEF Base, TypeOK, Pair
<1>2. Entries[r] = NoEntry
  BY CommitRating DEF Entries, EntryOfRequest
<1>3. ASSUME ~IsMatch(s), NEW q \in Requests, Entries[q] # NoEntry, Entries[q].body.token = s.token
      PROVE  FALSE
  <2>1. q \in Recorded
    BY <1>3 DEF Entries, EntryOfRequest
  <2>2. Entries[q].body = body[q]
    BY <2>1, EntryIsNot DEF Entries
  <2> QED
    BY <1>3, <2>1, <2>2 DEF OnceInv, FreshInv, Commit
<1>4. Entries' = [Entries EXCEPT ![r] =
                    [body |-> s, beforeA |-> row[s.a], beforeB |-> row[s.b]]]
  <2>1. read[r][s.a] = row[s.a] /\ read[r][s.b] = row[s.b]
    BY <1>1, CommitRating
  <2> QED
    BY <2>1, CommitRating DEF Entries, EntryOfRequest
<1>5. row' = [f \in Films |-> IF f \in Pair(s) THEN After(row[f], f, s, r) ELSE row[f]]
  BY CommitRating DEF Commit
<1> HIDE DEF s
<1> QED
  BY <1>2, <1>3, <1>4, <1>5, SameRules
  DEF Ledger!Record, Ledger!TokenSpent, Ledger!EntryOf, Entries, s

LEMMA LedgerStep ==
    Base /\ OnceInv /\ [Next]_vars => [Ledger!LedgerNext]_(Ledger!ledgerVars)
<1> SUFFICES ASSUME Base, OnceInv, [Next]_vars
             PROVE  [Ledger!LedgerNext]_(Ledger!ledgerVars)
  OBVIOUS
<1>1. TypeOK /\ RecordedInv
  BY DEF Base
<1>2. ASSUME NEW r \in Requests, Commit(r) PROVE Ledger!LedgerNext
  <2>1. body[r] \in Ledger!Submissions
    BY <1>1, SameRules DEF TypeOK
  <2> QED
    BY <1>2, <2>1, CommitRecords DEF Ledger!LedgerNext
<1>3. ASSUME NEW f \in Films, MarkSeen(f) PROVE Ledger!LedgerNext
  <2>1. Entries' = Entries
    BY <1>3, EntriesKept DEF MarkSeen, Recorded
  <2> QED
    BY <1>3, <2>1 DEF MarkSeen, Ledger!MarkSeen, Ledger!LedgerNext, Entries
<1>4. ASSUME row' = row, Recorded' = Recorded, body' = body,
             \A d \in Recorded : read'[d] = read[d]
      PROVE  UNCHANGED Ledger!ledgerVars
  <2>1. Entries' = Entries
    BY <1>4, EntriesKept
  <2> QED
    BY <1>4, <2>1 DEF Ledger!ledgerVars, Entries
<1> QED
  BY <1>1, <1>2, <1>3, <1>4, StepCases

\* Every behaviour of the locking, retrying, purging implementation is a
\* behaviour of the atomic ledger: a duel takes effect at its commit, at once,
\* from the ratings both films have at that instant.
THEOREM DuelsImplementLedger == Spec => LedgerImplemented
<1>1. Init => Ledger!LedgerInit
  BY SameRules DEF Init, Ledger!LedgerInit, EntryOfRequest, Recorded
<1>2. Init => TimeInv /\ OnceInv
  BY DEF Init, TimeInv, OnceInv, FreshInv, AtMostOncePerToken, Recorded, Running
<1> QED
  BY <1>1, <1>2, TimeStep, OnceStep, BaseHolds, LedgerStep, PTL
  DEF Spec, LedgerImplemented, Ledger!LedgerSpec
=============================================================================
