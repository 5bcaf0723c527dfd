---------------------------- MODULE ExpansionProofs ----------------------------
(***************************************************************************)
(* Proofs about Expansion, for any titles, runs, targets and cooldown and  *)
(* any clock.                                                              *)
(***************************************************************************)
EXTENDS Expansion, FiniteSetTheorems, TLAPS

-----------------------------------------------------------------------------
(* The plan of a run names no source and key twice, shared ids apart *)

Steps == [source : DOMAIN NoGain, key : Nat]

\* No element stands in s twice, those of E excepted.
Unrepeated(s, E) == \A i, j \in DOMAIN s : s[i] = s[j] => i = j \/ s[i] \in E

LEMMA Kinds ==
    /\ DOMAIN NoGain = {"trakt_recommendations", "tmdb_similar", "anticipated", "popular"}
    /\ DOMAIN NoGain = {Sources[i] : i \in DOMAIN Sources}
<1>1. DOMAIN Sources = 1 .. 4
  BY DEF Sources
<1>2. DOMAIN NoGain = {Sources[i] : i \in DOMAIN Sources}
  BY DEF NoGain
<1>3. 1 .. 4 = {1, 2, 3, 4}
  OBVIOUS
<1>4. {Sources[i] : i \in {1, 2, 3, 4}} = {Sources[1], Sources[2], Sources[3], Sources[4]}
  OBVIOUS
<1>5. /\ Sources[1] = "trakt_recommendations" /\ Sources[2] = "tmdb_similar"
      /\ Sources[3] = "anticipated" /\ Sources[4] = "popular"
  BY DEF Sources
<1> QED
  BY <1>1, <1>2, <1>3, <1>4, <1>5

LEMMA Joined ==
    ASSUME NEW S, NEW s \in Seq(S), NEW t \in Seq(S), NEW E, Unrepeated(s, E), Unrepeated(t, E),
           \A i \in DOMAIN s, j \in DOMAIN t : s[i] # t[j]
    PROVE  s \o t \in Seq(S) /\ Unrepeated(s \o t, E)
<1>1. s \o t \in Seq(S) /\ DOMAIN (s \o t) = 1 .. Len(s) + Len(t)
  OBVIOUS
<1>2. \A i \in 1 .. Len(s) + Len(t) :
         \/ i \in DOMAIN s /\ (s \o t)[i] = s[i]
         \/ i - Len(s) \in DOMAIN t /\ (s \o t)[i] = t[i - Len(s)]
  OBVIOUS
<1>3. \A i \in DOMAIN t : i \in Nat
  OBVIOUS
<1> QED
  BY <1>1, <1>2 DEF Unrepeated

LEMMA StepOf ==
    ASSUME NEW source \in DOMAIN NoGain, NEW key \in Nat
    PROVE  /\ Step(source, key) \in Steps
           /\ Step(source, key).source = source
           /\ Step(source, key).key = key
    BY DEF Step, Steps

LEMMA Similars ==
    ASSUME NEW r, best[r] \in Seq(Nat)
    PROVE  /\ Similar(r) \in Seq(Steps) /\ Unrepeated(Similar(r), Shared(r))
           /\ \A i \in DOMAIN Similar(r) : Similar(r)[i].source = "tmdb_similar"
<1>1. Similar(r) = [i \in 1 .. Len(best[r]) |-> Step("tmdb_similar", best[r][i])]
  BY DEF Similar
<1>2. Len(best[r]) \in Nat /\ DOMAIN best[r] = 1 .. Len(best[r])
      /\ \A i \in 1 .. Len(best[r]) : best[r][i] \in Nat
  OBVIOUS
<1>3. "tmdb_similar" \in DOMAIN NoGain
  BY Kinds
<1>4. \A i \in 1 .. Len(best[r]) :
         /\ Similar(r)[i] \in Steps /\ Similar(r)[i].source = "tmdb_similar"
         /\ Similar(r)[i].key = best[r][i]
  BY <1>1, <1>2, <1>3, StepOf
<1>5. DOMAIN Similar(r) = 1 .. Len(best[r])
  BY <1>1
<1>6. Similar(r) \in Seq(Steps)
  <2> DEFINE n == Len(best[r])
             s == Similar(r)
  <2>1. n \in Nat /\ s = [i \in 1 .. n |-> s[i]] /\ \A i \in 1 .. n : s[i] \in Steps
    BY <1>1, <1>2, <1>4
  <2> HIDE DEF n, s
  <2>2. s \in Seq(Steps)
    BY <2>1
  <2> QED
    BY <2>2 DEF s
<1>7. ASSUME NEW i \in 1 .. Len(best[r]), NEW j \in 1 .. Len(best[r]),
             Similar(r)[i] = Similar(r)[j], i # j
      PROVE  Similar(r)[i] \in Shared(r)
  <2>1. best[r][i] = best[r][j]
    BY <1>4, <1>7
  <2>2. Similar(r)[i] = Step("tmdb_similar", best[r][i])
    BY <1>1
  <2> QED
    BY <1>2, <1>7, <2>1, <2>2 DEF Shared
<1> QED
  BY <1>4, <1>5, <1>6, <1>7 DEF Unrepeated

LEMMA Populars ==
    ASSUME NEW E
    PROVE  /\ PopularPages \in Seq(Steps) /\ Unrepeated(PopularPages, E)
           /\ \A i \in DOMAIN PopularPages : PopularPages[i].source = "popular"
<1> DEFINE n == IF LastPage = 0 THEN 0 ELSE LastPage - 1
<1>1. PopularPages = [i \in 1 .. n |-> Step("popular", i + 1)]
  <2>1. 1 .. (LastPage - 1) = 1 .. n
    BY BoundsAssumption
  <2> QED
    BY <2>1 DEF PopularPages
<1>2. n \in Nat
  BY BoundsAssumption
<1> HIDE DEF n
<1>3. "popular" \in DOMAIN NoGain
  BY Kinds
<1>4. \A i \in 1 .. n :
         /\ PopularPages[i] \in Steps /\ PopularPages[i].source = "popular"
         /\ PopularPages[i].key = i + 1
  BY <1>1, <1>2, <1>3, StepOf
<1>5. DOMAIN PopularPages = 1 .. n
  BY <1>1
<1>6. PopularPages \in Seq(Steps)
  BY <1>1, <1>2, <1>4
<1>7. Unrepeated(PopularPages, E)
  BY <1>2, <1>4, <1>5 DEF Unrepeated
<1> QED
  BY <1>4, <1>5, <1>6, <1>7

LEMMA OneStep ==
    ASSUME NEW source \in DOMAIN NoGain, NEW E
    PROVE  /\ << Step(source, 1) >> \in Seq(Steps) /\ Unrepeated(<< Step(source, 1) >>, E)
           /\ DOMAIN << Step(source, 1) >> = {1}
           /\ << Step(source, 1) >>[1].source = source
    BY StepOf DEF Unrepeated

\* The sources of a step of a concatenation are those of its parts.
LEMMA JoinedSources ==
    ASSUME NEW s \in Seq(Steps), NEW t \in Seq(Steps), NEW A, NEW B,
           \A i \in DOMAIN s : s[i].source \in A,
           \A i \in DOMAIN t : t[i].source \in B
    PROVE  \A i \in DOMAIN (s \o t) : (s \o t)[i].source \in A \cup B
<1>1. DOMAIN (s \o t) = 1 .. Len(s) + Len(t)
  OBVIOUS
<1>2. \A i \in 1 .. Len(s) + Len(t) :
         \/ i \in DOMAIN s /\ (s \o t)[i] = s[i]
         \/ i - Len(s) \in DOMAIN t /\ (s \o t)[i] = t[i - Len(s)]
  OBVIOUS
<1> QED
  BY <1>1, <1>2

LEMMA PlanIsOnce ==
    ASSUME TypeOK, NEW r \in Runs
    PROVE  Plan(r) \in Seq(Steps) /\ Unrepeated(Plan(r), Shared(r))
<1> DEFINE a == << Step("trakt_recommendations", 1) >>
           b == Similar(r)
           c == << Step("anticipated", 1) >>
<1>1. /\ a \in Seq(Steps) /\ Unrepeated(a, Shared(r))
      /\ \A i \in DOMAIN a : a[i].source \in {"trakt_recommendations"}
  BY OneStep, Kinds
<1>2. /\ b \in Seq(Steps) /\ Unrepeated(b, Shared(r))
      /\ \A i \in DOMAIN b : b[i].source \in {"tmdb_similar"}
  <2>1. best[r] \in Seq(Nat)
    <3>1. best[r] \in Rankings \/ best[r] = << >>
      BY DEF TypeOK
    <3>2. << >> \in Seq(Nat)
      OBVIOUS
    <3> QED
      BY <3>1, <3>2, RankingsAssumption
  <2> QED
    BY <2>1, Similars
<1>3. /\ c \in Seq(Steps) /\ Unrepeated(c, Shared(r))
      /\ \A i \in DOMAIN c : c[i].source \in {"anticipated"}
  BY OneStep, Kinds
<1>4. /\ PopularPages \in Seq(Steps) /\ Unrepeated(PopularPages, Shared(r))
      /\ \A i \in DOMAIN PopularPages : PopularPages[i].source \in {"popular"}
  BY Populars
<1>5. Plan(r) = ((a \o b) \o c) \o PopularPages
  BY DEF Plan
<1> HIDE DEF a, b, c
<1>6. /\ a \o b \in Seq(Steps) /\ Unrepeated(a \o b, Shared(r))
      /\ \A i \in DOMAIN (a \o b) : (a \o b)[i].source \in {"trakt_recommendations", "tmdb_similar"}
  <2>1. \A i \in DOMAIN a, j \in DOMAIN b : a[i] # b[j]
    BY <1>1, <1>2
  <2>2. \A i \in DOMAIN (a \o b) :
          (a \o b)[i].source \in {"trakt_recommendations"} \cup {"tmdb_similar"}
    BY <1>1, <1>2, JoinedSources
  <2> QED
    BY <1>1, <1>2, <2>1, <2>2, Joined
<1> DEFINE d == a \o b
<1> HIDE DEF d
<1>7. /\ d \o c \in Seq(Steps) /\ Unrepeated(d \o c, Shared(r))
      /\ \A i \in DOMAIN (d \o c) :
            (d \o c)[i].source \in {"trakt_recommendations", "tmdb_similar"} \cup {"anticipated"}
  <2>1. /\ d \in Seq(Steps) /\ Unrepeated(d, Shared(r))
        /\ \A i \in DOMAIN d : d[i].source \in {"trakt_recommendations", "tmdb_similar"}
    BY <1>6 DEF d
  <2>2. \A i \in DOMAIN d, j \in DOMAIN c : d[i] # c[j]
    BY <2>1, <1>3
  <2>3. \A i \in DOMAIN (d \o c) :
          (d \o c)[i].source \in {"trakt_recommendations", "tmdb_similar"} \cup {"anticipated"}
    BY <2>1, <1>3, JoinedSources
  <2> QED
    BY <2>1, <1>3, <2>2, <2>3, Joined
<1> DEFINE e == d \o c
<1> HIDE DEF e
<1>8. e \o PopularPages \in Seq(Steps) /\ Unrepeated(e \o PopularPages, Shared(r))
  <2>1. /\ e \in Seq(Steps) /\ Unrepeated(e, Shared(r))
        /\ \A i \in DOMAIN e :
              e[i].source \in {"trakt_recommendations", "tmdb_similar"} \cup {"anticipated"}
    BY <1>7 DEF e
  <2>2. \A i \in DOMAIN e, j \in DOMAIN PopularPages : e[i] # PopularPages[j]
    BY <2>1, <1>4
  <2> QED
    BY <2>1, <1>4, <2>2, Joined
<1> QED
  BY <1>5, <1>8 DEF d, e
-----------------------------------------------------------------------------
(* Types *)

LEMMA TypeInit == Init => TypeOK
<1> SUFFICES ASSUME Init PROVE TypeOK
  OBVIOUS
<1>1. "movie" \in Media
  BY DEF Media
<1>2. NoGain \in [DOMAIN NoGain -> Nat]
  BY DEF NoGain
<1> QED
  BY <1>1, <1>2 DEF Init, TypeOK

LEMMA EndTypes ==
    ASSUME TypeOK, NEW r \in Runs, End(r)
    PROVE  /\ holder' \in [Media -> Runs \cup {NoRun}]
           /\ pc' \in [Runs -> {"idle", "triggered", "running", "ended"}]
           /\ recent' \in [Runs -> SUBSET Steps]
           /\ pos' \in [Runs -> Nat]
           /\ gain' \in [Runs -> [DOMAIN NoGain -> Nat]]
           /\ adding' \in [Runs -> SUBSET Titles]
           /\ noting' \in [Runs -> SUBSET Record]
<1>1. NoGain \in [DOMAIN NoGain -> Nat]
  BY DEF NoGain
<1> QED
  BY <1>1 DEF TypeOK, End, Steps

LEMMA CurrentType ==
    ASSUME TypeOK, NEW r \in Runs, AtStep(r)
    PROVE  Current(r) \in Steps
    BY PlanIsOnce DEF TypeOK, AtStep, Current

LEMMA NewRecordType ==
    ASSUME TypeOK, NEW r \in Runs, AtStep(r)
    PROVE  NewRecord(r) \in Record
<1>1. Current(r).source \in DOMAIN NoGain /\ Current(r).key \in Nat
  BY CurrentType DEF Steps
<1>2. DOMAIN NoGain = {Sources[i] : i \in DOMAIN Sources}
  BY Kinds
<1> QED
  BY <1>1, <1>2 DEF TypeOK, NewRecord, Record

LEMMA TypeStep == TypeOK /\ [Next]_vars => TypeOK'
<1> SUFFICES ASSUME TypeOK, [Next]_vars PROVE TypeOK'
  OBVIOUS
<1> USE DEF TypeOK, runVars
<1>1. CASE Tick
  BY <1>1 DEF Tick
<1>2. ASSUME NEW t \in Titles, NEW answer \in {"yes", "no"}, Classify(t, answer) PROVE TypeOK'
  BY <1>2 DEF Classify
<1>3. ASSUME NEW r \in Runs, NEW m \in Media, Trigger(r, m) PROVE TypeOK'
  BY <1>3 DEF Trigger
<1>4. ASSUME NEW r \in Runs, Lose(r) \/ Abort(r) PROVE TypeOK'
  <2>1. End(r) /\ UNCHANGED <<now, library, records, media, start, best>>
    BY <1>4 DEF Lose, Abort
  <2> QED
    BY <2>1, EndTypes DEF Steps
<1>5. ASSUME NEW r \in Runs, Begin(r) PROVE TypeOK'
  <2>1. Recent(media[r]) \subseteq Steps
    <3>1. ASSUME NEW rec \in records PROVE Step(rec.source, rec.key) \in Steps
      <4>1. rec.source \in DOMAIN NoGain /\ rec.key \in Nat
        BY <3>1, Kinds DEF Record
      <4> QED
        BY <4>1, StepOf
    <3> QED
      BY <3>1 DEF Recent
  <2>2. best' \in [Runs -> Rankings \cup {<< >>}]
    BY <1>5 DEF Begin, RankingsFor
  <2> QED
    BY <1>5, <2>1, <2>2 DEF Begin, Steps
<1>6. ASSUME NEW r \in Runs, Skip(r) \/ FetchFails(r) PROVE TypeOK'
  <2>1. /\ pos' = [pos EXCEPT ![r] = @ + 1]
        /\ UNCHANGED <<now, library, records, holder, pc, media, start, best, recent, gain, adding, noting>>
    BY <1>6 DEF Skip, FetchFails
  <2> QED
    BY <2>1
<1>7. ASSUME NEW r \in Runs, Fetch(r) PROVE TypeOK'
  <2>1. PICK titles \in SUBSET Offered(r) :
          LET added == New(titles) \ adding[r]
          IN  /\ adding' = [adding EXCEPT ![r] = @ \cup added]
              /\ gain' = [gain EXCEPT ![r][Current(r).source] = @ + Cardinality(added)]
    BY <1>7 DEF Fetch
  <2> DEFINE added == New(titles) \ adding[r]
  <2>2. added \subseteq Titles
    BY DEF Offered, New
  <2>3. Cardinality(added) \in Nat
    BY <2>2, TitlesAssumption, FS_Subset, FS_CardinalityType
  <2>4. adding' = [adding EXCEPT ![r] = @ \cup added]
        /\ gain' = [gain EXCEPT ![r][Current(r).source] = @ + Cardinality(added)]
    BY <2>1
  <2> HIDE DEF added
  <2>5. Current(r).source \in DOMAIN NoGain /\ NewRecord(r) \in Record
    BY <1>7, CurrentType, NewRecordType DEF Fetch, Steps
  <2>6. gain' \in [Runs -> [DOMAIN NoGain -> Nat]]
    BY <2>3, <2>4, <2>5
  <2>7. adding' \in [Runs -> SUBSET Titles]
    BY <2>2, <2>4
  <2> QED
    BY <1>7, <2>5, <2>6, <2>7 DEF Fetch
<1>8. ASSUME NEW r \in Runs, Commit(r) PROVE TypeOK'
  <2>1. End(r) /\ UNCHANGED <<now, media, start, best>> /\ records' = records \cup noting[r]
        /\ library' = [t \in Titles |-> IF t \in adding[r] THEN "unknown" ELSE library[t]]
    BY <1>8 DEF Commit
  <2> QED
    BY <2>1, EndTypes DEF Steps
<1>9. CASE UNCHANGED vars
  BY <1>9 DEF vars
<1> QED
  BY <1>1, <1>2, <1>3, <1>4, <1>5, <1>6, <1>7, <1>8, <1>9 DEF Next

\* Every component of the state has its type.
THEOREM TypeCorrect == Spec => []TypeOK
    BY TypeInit, TypeStep, PTL DEF Spec
-----------------------------------------------------------------------------
(* The lock and the cooldown *)

\* A run under way has the lock of its media type.
HasLock(r) == pc[r] = "running" => holder[media[r]] = r

\* Only a run under way has written anything.
Uncommitted(r) == pc[r] # "running" => noting[r] = {} /\ adding[r] = {}

\* What a run has noted are steps of its plan it did not find recent.
IsNote(r, e) ==
    /\ e.media = media[r] /\ e.at = start[r] /\ e.by = r
    /\ e.nth \in DOMAIN Plan(r)
    /\ Plan(r)[e.nth] = Step(e.source, e.key)
    /\ Step(e.source, e.key) \notin recent[r]

Notes(r) == \A e \in noting[r] : IsNote(r, e)

\* A run under way still sees every cooldown of its media type.
SeesCooldowns(r) ==
    pc[r] = "running" =>
        \A e \in records : e.media = media[r] /\ e.at + Cooldown >= start[r] =>
            Step(e.source, e.key) \in recent[r]

\* What is committed was noted by a run that has ended.
IsWritten(e) == pc[e.by] = "ended"

Allowed(a, b) == Apart(a, b) \/ SharedId(a, b)

CooldownInv ==
    /\ \A r \in Runs : HasLock(r) /\ Uncommitted(r) /\ Notes(r) /\ SeesCooldowns(r)
    /\ \A e \in records : IsWritten(e)
    /\ \A a, b \in records : Allowed(a, b)

LEMMA CooldownInit == Init => CooldownInv
    BY DEF Init, CooldownInv, HasLock, Uncommitted, Notes, SeesCooldowns

\* The plan of a run hangs on the ranking it found, and on nothing that changes.
LEMMA SamePlan ==
    ASSUME NEW r, best'[r] = best[r]
    PROVE  Plan(r)' = Plan(r) /\ Shared(r)' = Shared(r)
    BY DEF Plan, Similar, Shared

\* A run that has ended keeps its ranking, and with it the ids its records share.
LEMMA RecordsKeep ==
    ASSUME TypeOK, CooldownInv, UNCHANGED records,
           \A q \in Runs : pc[q] = "ended" => pc'[q] = "ended" /\ best'[q] = best[q]
    PROVE  /\ \A e \in records' : IsWritten(e)'
           /\ \A a, b \in records' : Allowed(a, b)'
<1>1. ASSUME NEW e \in records PROVE IsWritten(e)' /\ best'[e.by] = best[e.by]
  <2>1. e.by \in Runs
    BY <1>1 DEF TypeOK, Record
  <2> QED
    BY <1>1, <2>1 DEF CooldownInv, IsWritten
<1>2. ASSUME NEW a \in records, NEW b \in records PROVE Allowed(a, b)'
  <2>1. Allowed(a, b)
    BY <1>2 DEF CooldownInv
  <2>2. Shared(a.by)' = Shared(a.by)
    BY <1>1, <1>2, SamePlan
  <2> QED
    BY <2>1, <2>2 DEF Allowed, Apart, SharedId
<1> QED
  BY <1>1, <1>2

LEMMA SameStep ==
    ASSUME NEW e, NEW f, Step(e.source, e.key) = Step(f.source, f.key)
    PROVE  e.source = f.source /\ e.key = f.key
    BY DEF Step

\* Notes are apart from what is committed, and from each other but for shared ids.
LEMMA NotesApart ==
    ASSUME TypeOK, CooldownInv, NEW r \in Runs, NEW a \in noting[r]
    PROVE  /\ \A q \in Runs : \A b \in noting[q] : Allowed(a, b)
           /\ \A b \in records : Apart(a, b) /\ Apart(b, a)
<1>1. a \in Record /\ pc[r] = "running" /\ IsNote(r, a)
  BY DEF TypeOK, CooldownInv, Uncommitted, Notes
<1>2. ASSUME NEW q \in Runs, NEW b \in noting[q] PROVE Allowed(a, b)
  <2>1. b \in Record /\ pc[q] = "running" /\ IsNote(q, b)
    BY <1>2 DEF TypeOK, CooldownInv, Uncommitted, Notes
  <2>2. CASE q = r
    <3>1. CASE a.source = b.source /\ a.key = b.key
      <4>1. /\ a.nth \in DOMAIN Plan(r) /\ b.nth \in DOMAIN Plan(r)
            /\ Plan(r)[a.nth] = Plan(r)[b.nth] /\ Plan(r)[a.nth] = Step(a.source, a.key)
        BY <1>1, <2>1, <2>2, <3>1 DEF IsNote
      <4>2. a.nth = b.nth \/ Step(a.source, a.key) \in Shared(r)
        BY <4>1, PlanIsOnce DEF Unrepeated
      <4>3. a.media = b.media /\ a.at = b.at /\ a.by = r /\ b.by = r
        BY <1>1, <2>1, <2>2 DEF IsNote
      <4>4. CASE a.nth = b.nth
        BY <1>1, <2>1, <3>1, <4>3, <4>4 DEF Allowed, Apart, Record
      <4>5. CASE Step(a.source, a.key) \in Shared(r)
        BY <4>3, <4>5 DEF Allowed, SharedId
      <4> QED
        BY <4>2, <4>4, <4>5
    <3>2. CASE ~(a.source = b.source /\ a.key = b.key)
      BY <3>2 DEF Allowed, Apart
    <3> QED
      BY <3>1, <3>2
  <2>3. CASE q # r
    <3>1. a.media = media[r] /\ b.media = media[q] /\ holder[media[r]] = r /\ holder[media[q]] = q
      BY <1>1, <2>1 DEF CooldownInv, HasLock, IsNote
    <3> QED
      BY <2>3, <3>1 DEF Allowed, Apart
  <2> QED
    BY <2>2, <2>3
<1>3. ASSUME NEW b \in records PROVE Apart(a, b) /\ Apart(b, a)
  <2>1. b \in Record /\ start[r] \in Nat /\ Cooldown \in Nat
    BY BoundsAssumption DEF TypeOK
  <2>2. CASE a.source = b.source /\ a.key = b.key /\ a.media = b.media
    <3>1. ~(b.at + Cooldown >= start[r])
      BY <1>1, <2>2 DEF CooldownInv, SeesCooldowns, IsNote
    <3>2. b.at + Cooldown < a.at
      BY <1>1, <2>1, <3>1 DEF IsNote, Record
    <3> QED
      BY <3>2 DEF Apart
  <2>3. CASE ~(a.source = b.source /\ a.key = b.key /\ a.media = b.media)
    BY <2>3 DEF Apart
  <2> QED
    BY <2>2, <2>3
<1> QED
  BY <1>2, <1>3

\* Ending a run leaves the others as they are.
LEMMA EndKeeps ==
    ASSUME TypeOK, CooldownInv, NEW r \in Runs, End(r), UNCHANGED <<media, start, best>>,
           \/ UNCHANGED records
           \/ pc[r] = "running" /\ records' = records \cup noting[r]
    PROVE  \A q \in Runs : (HasLock(q) /\ Uncommitted(q) /\ Notes(q) /\ SeesCooldowns(q))'
<1> SUFFICES ASSUME NEW q \in Runs
             PROVE  (HasLock(q) /\ Uncommitted(q) /\ Notes(q) /\ SeesCooldowns(q))'
  OBVIOUS
<1>1. CASE q = r
  BY <1>1 DEF TypeOK, End, HasLock, Uncommitted, Notes, SeesCooldowns
<1>2. CASE q # r
  <2>1. /\ pc'[q] = pc[q] /\ noting'[q] = noting[q] /\ adding'[q] = adding[q]
        /\ recent'[q] = recent[q] /\ media'[q] = media[q] /\ start'[q] = start[q]
    BY <1>2 DEF TypeOK, End
  <2>2. HasLock(q)'
    BY <1>2, <2>1 DEF TypeOK, CooldownInv, End, HasLock
  <2>3. Uncommitted(q)' /\ Notes(q)'
    <3>1. Plan(q)' = Plan(q)
      BY SamePlan
    <3> QED
      BY <2>1, <3>1 DEF CooldownInv, Uncommitted, Notes, IsNote
  <2>4. SeesCooldowns(q)'
    <3>1. CASE UNCHANGED records
      BY <2>1, <3>1 DEF CooldownInv, SeesCooldowns
    <3>2. CASE pc[r] = "running" /\ records' = records \cup noting[r]
      <4>1. pc[q] = "running" => media[q] # media[r]
        BY <1>2, <3>2 DEF CooldownInv, HasLock
      <4>2. \A e \in noting[r] : e.media = media[r]
        BY DEF CooldownInv, Notes, IsNote
      <4> QED
        BY <2>1, <3>2, <4>1, <4>2 DEF CooldownInv, SeesCooldowns
    <3> QED
      BY <3>1, <3>2
  <2> QED
    BY <2>2, <2>3, <2>4
<1> QED
  BY <1>1, <1>2

LEMMA CooldownStep == TypeOK /\ CooldownInv /\ [Next]_vars => CooldownInv'
<1> SUFFICES ASSUME TypeOK, CooldownInv, [Next]_vars PROVE CooldownInv'
  OBVIOUS
<1>1. CASE Tick \/ (\E t \in Titles, answer \in {"yes", "no"} : Classify(t, answer)) \/ UNCHANGED vars
  <2>1. UNCHANGED <<records, holder, pc, media, start, runVars>>
    BY <1>1 DEF Tick, Classify, vars, runVars
  <2>2. \A q \in Runs : Plan(q)' = Plan(q)
    BY <2>1, SamePlan DEF runVars
  <2>3. \A q \in Runs : (HasLock(q) /\ Uncommitted(q) /\ Notes(q) /\ SeesCooldowns(q))'
    BY <2>1, <2>2 DEF runVars, CooldownInv, HasLock, Uncommitted, Notes, IsNote, SeesCooldowns
  <2> QED
    BY <2>1, <2>3, RecordsKeep DEF runVars, CooldownInv
<1>2. ASSUME NEW r \in Runs, NEW m \in Media, Trigger(r, m) PROVE CooldownInv'
  <2>1. ASSUME NEW q \in Runs
        PROVE  (HasLock(q) /\ Uncommitted(q) /\ Notes(q) /\ SeesCooldowns(q))'
    <3>1. CASE q = r
      BY <1>2, <3>1 DEF TypeOK, Trigger, runVars, CooldownInv, HasLock, Uncommitted, Notes, SeesCooldowns
    <3>2. CASE q # r
      <4>1. pc'[q] = pc[q] /\ media'[q] = media[q] /\ UNCHANGED <<records, holder, start, runVars>>
        BY <1>2, <3>2 DEF TypeOK, Trigger
      <4>2. Plan(q)' = Plan(q)
        BY <4>1, SamePlan DEF runVars
      <4> QED
        BY <4>1, <4>2 DEF runVars, CooldownInv, HasLock, Uncommitted, Notes, IsNote, SeesCooldowns
    <3> QED
      BY <3>1, <3>2
  <2>2. /\ UNCHANGED <<records, best>>
        /\ \A q \in Runs : pc[q] = "ended" => pc'[q] = "ended"
    BY <1>2 DEF TypeOK, Trigger, runVars
  <2> QED
    BY <2>1, <2>2, RecordsKeep DEF CooldownInv
<1>3. ASSUME NEW r \in Runs, Lose(r) \/ Abort(r) PROVE CooldownInv'
  <2>1. End(r) /\ UNCHANGED <<records, media, start, best>>
    BY <1>3 DEF Lose, Abort
  <2>2. \A q \in Runs : (HasLock(q) /\ Uncommitted(q) /\ Notes(q) /\ SeesCooldowns(q))'
    BY <2>1, EndKeeps
  <2>3. \A q \in Runs : pc[q] = "ended" => pc'[q] = "ended"
    BY <2>1 DEF TypeOK, End
  <2> QED
    BY <2>1, <2>2, <2>3, RecordsKeep DEF CooldownInv
<1>4. ASSUME NEW r \in Runs, Begin(r) PROVE CooldownInv'
  <2>1. \A q \in Runs \ {r} : best'[q] = best[q] /\ pc'[q] = pc[q]
    BY <1>4 DEF TypeOK, Begin
  <2>2. ASSUME NEW q \in Runs
        PROVE  (HasLock(q) /\ Uncommitted(q) /\ Notes(q) /\ SeesCooldowns(q))'
    <3>1. CASE q = r
      <4>1. /\ noting'[r] = {} /\ adding'[r] = {} /\ holder'[media[r]] = r /\ media'[r] = media[r]
            /\ start'[r] = now /\ recent'[r] = Recent(media[r]) /\ records' = records
            /\ pc'[r] = "running"
        BY <1>4 DEF TypeOK, Begin, CooldownInv, Uncommitted
      <4>2. SeesCooldowns(r)'
        BY <4>1 DEF SeesCooldowns, Recent
      <4> QED
        BY <3>1, <4>1, <4>2 DEF HasLock, Uncommitted, Notes
    <3>2. CASE q # r
      <4>1. /\ pc'[q] = pc[q] /\ start'[q] = start[q] /\ recent'[q] = recent[q]
            /\ UNCHANGED <<media, noting, adding, records>>
        BY <1>4, <3>2 DEF TypeOK, Begin
      <4>2. HasLock(q)'
        BY <1>4, <3>2, <4>1, RunsAssumption DEF TypeOK, Begin, LockFree, CooldownInv, HasLock
      <4>3. Plan(q)' = Plan(q)
        BY <2>1, <3>2, SamePlan
      <4> QED
        BY <4>1, <4>2, <4>3 DEF CooldownInv, Uncommitted, Notes, IsNote, SeesCooldowns
    <3> QED
      BY <3>1, <3>2
  <2>3. UNCHANGED records /\ pc[r] # "ended"
    BY <1>4 DEF Begin
  <2> QED
    BY <2>1, <2>2, <2>3, RecordsKeep DEF CooldownInv
<1>5. ASSUME NEW r \in Runs, Skip(r) \/ FetchFails(r) PROVE CooldownInv'
  <2>1. UNCHANGED <<records, holder, pc, media, start, best, recent, adding, noting>>
    BY <1>5 DEF Skip, FetchFails
  <2>2. \A q \in Runs : Plan(q)' = Plan(q)
    BY <2>1, SamePlan
  <2>3. \A q \in Runs : (HasLock(q) /\ Uncommitted(q) /\ Notes(q) /\ SeesCooldowns(q))'
    BY <2>1, <2>2 DEF CooldownInv, HasLock, Uncommitted, Notes, IsNote, SeesCooldowns
  <2> QED
    BY <2>1, <2>3, RecordsKeep DEF CooldownInv
<1>6. ASSUME NEW r \in Runs, Fetch(r) PROVE CooldownInv'
  <2>1. /\ pc[r] = "running" /\ AtStep(r) /\ Current(r) \notin recent[r]
        /\ noting' = [noting EXCEPT ![r] = @ \cup {NewRecord(r)}]
        /\ \A q \in Runs : q # r => adding'[q] = adding[q]
        /\ UNCHANGED <<records, holder, pc, media, start, best, recent>>
    BY <1>6 DEF TypeOK, Fetch, AtStep
  <2>2. IsNote(r, NewRecord(r))
    <3>1. Current(r) = Step(Current(r).source, Current(r).key)
      BY <2>1, CurrentType DEF Steps, Step
    <3> QED
      BY <2>1, <3>1 DEF IsNote, NewRecord, Current, AtStep
  <2>3. ASSUME NEW q \in Runs PROVE Notes(q)'
    <3>1. Plan(q)' = Plan(q)
      BY <2>1, SamePlan
    <3>2. \A e : IsNote(q, e)' <=> IsNote(q, e)
      BY <2>1, <3>1 DEF IsNote
    <3>3. \A e \in noting'[q] : IsNote(q, e)
      BY <2>1, <2>2 DEF TypeOK, CooldownInv, Notes
    <3> QED
      BY <3>2, <3>3 DEF Notes
  <2>4. ASSUME NEW q \in Runs PROVE (HasLock(q) /\ Uncommitted(q) /\ SeesCooldowns(q))'
    BY <2>1 DEF TypeOK, CooldownInv, HasLock, Uncommitted, SeesCooldowns
  <2> QED
    BY <2>1, <2>3, <2>4, RecordsKeep DEF CooldownInv
<1>7. ASSUME NEW r \in Runs, Commit(r) PROVE CooldownInv'
  <2>1. /\ End(r) /\ UNCHANGED <<media, start, best>> /\ pc[r] = "running"
        /\ records' = records \cup noting[r]
    BY <1>7 DEF Commit
  <2>2. \A q \in Runs : (HasLock(q) /\ Uncommitted(q) /\ Notes(q) /\ SeesCooldowns(q))'
    BY <2>1, EndKeeps
  <2>3. ASSUME NEW e \in records' PROVE IsWritten(e)'
    <3>1. e.by \in Runs /\ (e.by = r \/ pc[e.by] = "ended")
      BY <2>1, <2>3 DEF TypeOK, Record, CooldownInv, Notes, IsNote, IsWritten
    <3> QED
      BY <2>1, <3>1 DEF TypeOK, End, IsWritten
  <2>4. ASSUME NEW a \in records', NEW b \in records' PROVE Allowed(a, b)'
    <3>1. Allowed(a, b)
      BY <2>1, <2>4, NotesApart DEF CooldownInv, Allowed
    <3>2. Shared(a.by)' = Shared(a.by)
      BY <2>1, SamePlan
    <3> QED
      BY <3>1, <3>2 DEF Allowed, Apart, SharedId
  <2> QED
    BY <2>2, <2>3, <2>4 DEF CooldownInv
<1> QED
  BY <1>1, <1>2, <1>3, <1>4, <1>5, <1>6, <1>7 DEF Next

\* No source is used twice for a key within the cooldown, whatever is committed,
\* aborted or still running, but for a TMDB id that the run found twice among
\* the best.
THEOREM SourcesRest == Spec => []OncePerCooldown
<1>1. TypeOK /\ CooldownInv => OncePerCooldown
  <2> SUFFICES ASSUME TypeOK, CooldownInv,
                      NEW a \in Used, NEW b \in Used
               PROVE  Allowed(a, b)
    BY DEF OncePerCooldown, Allowed
  <2>1. a \in records \/ \E r \in Runs : a \in noting[r]
    BY DEF Used
  <2>2. b \in records \/ \E r \in Runs : b \in noting[r]
    BY DEF Used
  <2>3. CASE a \in records /\ b \in records
    BY <2>3 DEF CooldownInv
  <2>4. CASE \E r \in Runs : a \in noting[r]
    BY <2>2, <2>4, NotesApart DEF Allowed
  <2>5. CASE \E r \in Runs : b \in noting[r] /\ a \in records
    BY <2>5, NotesApart DEF Allowed
  <2> QED
    BY <2>1, <2>2, <2>3, <2>4, <2>5
<1> QED
  BY <1>1, TypeInit, TypeStep, CooldownInit, CooldownStep, PTL DEF Spec
-----------------------------------------------------------------------------
(* The library *)

\* What runs are about to insert has no row, and no two insert the same title.
AddsAbsent ==
    \A r \in Runs :
        /\ \A t \in adding[r] : library[t] = "absent"
        /\ \A q \in Runs : q # r => adding[r] \cap adding[q] = {}

LEMMA AddsInit == Init => AddsAbsent
    BY DEF Init, AddsAbsent

LEMMA AddsStep == TypeOK /\ AddsAbsent /\ [Next]_vars => AddsAbsent'
<1> SUFFICES ASSUME TypeOK, AddsAbsent, [Next]_vars PROVE AddsAbsent'
  OBVIOUS
<1> USE DEF TypeOK, AddsAbsent
<1>1. CASE Tick \/ UNCHANGED vars
  BY <1>1 DEF Tick, runVars, vars
<1>2. ASSUME NEW t \in Titles, NEW answer \in {"yes", "no"}, Classify(t, answer) PROVE AddsAbsent'
  <2>1. \A r \in Runs : t \notin adding[r]
    BY <1>2 DEF Classify
  <2>2. library' = [library EXCEPT ![t] = answer] /\ UNCHANGED adding
    BY <1>2 DEF Classify, runVars
  <2> QED
    BY <2>1, <2>2
<1>3. ASSUME NEW r \in Runs, Lose(r) \/ Abort(r) PROVE AddsAbsent'
  <2>1. adding' = [adding EXCEPT ![r] = {}] /\ UNCHANGED library
    BY <1>3 DEF Lose, Abort, End
  <2> QED
    BY <2>1
<1>4. ASSUME NEW r \in Runs, Begin(r) \/ Skip(r) \/ FetchFails(r) \/ \E m \in Media : Trigger(r, m)
      PROVE  AddsAbsent'
  BY <1>4 DEF Begin, Skip, FetchFails, Trigger, runVars
<1>5. ASSUME NEW r \in Runs, Fetch(r) PROVE AddsAbsent'
  <2>1. PICK titles \in SUBSET Offered(r) :
          /\ \A q \in Runs \ {r} : titles \cap adding[q] = {}
          /\ adding' = [adding EXCEPT ![r] = @ \cup (New(titles) \ adding[r])]
    BY <1>5 DEF Fetch
  <2>2. UNCHANGED library /\ titles \subseteq Titles
    BY <1>5 DEF Fetch, Offered
  <2>3. \A t \in New(titles) \ adding[r] : library[t] = "absent" /\ t \in titles
    BY DEF New
  <2> QED
    BY <2>1, <2>2, <2>3
<1>6. ASSUME NEW r \in Runs, Commit(r) PROVE AddsAbsent'
  <2>1. /\ adding' = [adding EXCEPT ![r] = {}]
        /\ library' = [t \in Titles |-> IF t \in adding[r] THEN "unknown" ELSE library[t]]
    BY <1>6 DEF Commit, End
  <2> QED
    BY <2>1
<1> QED
  BY <1>1, <1>2, <1>3, <1>4, <1>5, <1>6 DEF Next

\* An expansion changes no title that is in the library.
THEOREM LibraryIsKept == Spec => LibraryKept
<1> DEFINE Kept == \A t \in Titles : library[t] # "absent" => library'[t] \in {library[t], "yes", "no"}
<1>1. TypeOK /\ AddsAbsent /\ [Next]_vars => [Kept]_library
  <2> SUFFICES ASSUME TypeOK, AddsAbsent, [Next]_vars PROVE Kept \/ UNCHANGED library
    OBVIOUS
  <2>1. ASSUME NEW u \in Titles, NEW answer \in {"yes", "no"}, Classify(u, answer) PROVE Kept
    BY <2>1 DEF Classify, TypeOK
  <2>2. ASSUME NEW r \in Runs, Commit(r) PROVE Kept
    BY <2>2 DEF Commit, TypeOK, AddsAbsent
  <2>3. CASE Tick \/ UNCHANGED vars
    BY <2>3 DEF Tick, vars
  <2>4. ASSUME NEW r \in Runs,
               \/ \E m \in Media : Trigger(r, m)
               \/ Lose(r) \/ Begin(r) \/ Skip(r) \/ Fetch(r) \/ FetchFails(r) \/ Abort(r)
        PROVE  UNCHANGED library
    BY <2>4 DEF Trigger, Lose, Begin, Skip, Fetch, FetchFails, Abort
  <2> QED
    BY <2>1, <2>2, <2>3, <2>4 DEF Next
<1> QED
  BY <1>1, TypeInit, TypeStep, AddsInit, AddsStep, PTL DEF Spec, LibraryKept
=============================================================================
