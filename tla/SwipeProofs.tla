----------------------------- MODULE SwipeProofs -----------------------------
(***************************************************************************)
(* Proofs about Swipe, for any number of films and requests, any bodies,   *)
(* cap and times.  The argument is the advisory lock: the request that     *)
(* holds it is alone in its transaction, so what it counted and what it    *)
(* found unclassified by swiping is so until it ends.                      *)
(***************************************************************************)
EXTENDS Swipe, FiniteSetTheorems, SequenceTheorems, TLAPS

-----------------------------------------------------------------------------
(* The answers of a body *)

LEMMA HasLeast ==
    ASSUME NEW S \in SUBSET Nat, S # {}
    PROVE  \E x \in S : \A y \in S : x <= y
<1>1. \E x \in S : \A y \in S : ~(<<y, x>> \in OpToRel(<, Nat))
  BY NatLessThanWellFounded, WFMin
<1>2. \A x \in Nat, y \in Nat : <<y, x>> \in OpToRel(<, Nat) <=> y < x
  BY DEF OpToRel
<1>3. \A x \in Nat, y \in Nat : ~(y < x) => x <= y
  OBVIOUS
<1> QED
  BY <1>1, <1>2, <1>3

LEMMA HasGreatest ==
    ASSUME NEW n \in Nat, NEW S \in SUBSET (1..n), S # {}
    PROVE  \E x \in S : \A y \in S : y <= x
<1> DEFINE T == { k \in Nat : \A i \in S : i <= k }
<1>1. n \in T
  OBVIOUS
<1>2. PICK k \in T : \A l \in T : k <= l
  BY <1>1, HasLeast
<1>3. k \in Nat /\ \A i \in S : i <= k
  BY <1>2
<1>4. k \in S
  <2> SUFFICES ASSUME k \notin S PROVE FALSE
    OBVIOUS
  <2>1. \A i \in S : i \in Nat /\ i >= 1 /\ i <= k - 1
    BY <1>3
  <2>2. PICK i \in S : TRUE
    OBVIOUS
  <2>3. k - 1 \in Nat
    BY <1>3, <2>1, <2>2
  <2>4. k - 1 \in T
    BY <2>1, <2>3
  <2> QED
    BY <1>2, <1>3, <2>4
<1> QED
  BY <1>3, <1>4

LEMMA BodyTypes ==
    ASSUME NEW b \in Batches
    PROVE  /\ Len(b) \in Nat /\ Len(b) <= BatchMax /\ DOMAIN b = 1..Len(b)
           /\ \A i \in 1..Len(b) : b[i].film \in Films /\ b[i].seen \in Answers
           /\ FilmsOf(b) \subseteq 1..Len(b) /\ Len(b) \in 0..BatchMax
<1>1. b \in Seq([film : Films, seen : Answers]) /\ Len(b) <= BatchMax
  BY BatchesAssumption
<1>2. Len(b) \in Nat /\ DOMAIN b = 1..Len(b) /\ Len(b) <= BatchMax
  BY <1>1
<1>3. \A i \in 1..Len(b) : b[i] \in [film : Films, seen : Answers]
  BY <1>1, ElementOfSeq
<1>4. BatchMax \in Nat
  BY BoundsAssumption
<1> QED
  BY <1>2, <1>3, <1>4 DEF FilmsOf

LEMMA AnswerType ==
    ASSUME NEW b \in Batches, NEW k \in 1..Len(b), NEW f, f = b[k].film
    PROVE  AnswerFor(b, f) \in Answers
<1> DEFINE S == { i \in 1..Len(b) : b[i].film = f }
           last(i) == b[i].film = f /\ \A j \in DOMAIN b : b[j].film = f => j <= i
<1>1. S \in SUBSET (1..Len(b)) /\ S # {} /\ Len(b) \in Nat
  BY BodyTypes
<1>2. PICK x \in S : \A y \in S : y <= x
  BY <1>1, HasGreatest
<1>3. x \in DOMAIN b /\ last(x)
  BY <1>2, BodyTypes
<1>4. (CHOOSE i \in DOMAIN b : last(i)) \in DOMAIN b
  BY <1>3
<1> QED
  BY <1>4, BodyTypes DEF AnswerFor
-----------------------------------------------------------------------------
(* The invariant *)

Alone == \A r \in Requests : pc[r] \in InTransaction <=> holder = r

\* Outside its transaction a request has nothing to look at and nothing written.
NothingOpen == \A r \in Requests : holder # r => written[r] = {} /\ todo[r] = {}

\* It looks at items of its body, each film once, and writes of no other.
InBody ==
    \A r \in Requests :
        /\ todo[r] \subseteq FilmsOf(batch[r])
        /\ \A x \in written[r] : \E i \in 1..Len(batch[r]) : batch[r][i].film = x.film

TimesPast == \A r \in Requests : start[r] <= now

\* A film with a result has an answer, and no writer takes it back.
SwipedIsAnswered == \A x \in results : seen[x.film] \in Answers

\* What the transaction of r has written is about films of its body, each once,
\* that no result was about; the films still to look at are others.
RowsAreNew(r) ==
    /\ \A x \in written[r], y \in results : x.film # y.film
    /\ \A x, y \in written[r] : x.film = y.film => x = y
    /\ \A x \in written[r], i \in todo[r] : batch[r][i].film # x.film

\* What its last SELECT found unclassified has no result.
FoundNew(r) ==
    pc[r] = "updating" =>
        \A i \in todo[r] : IsNext(r, i) => \A x \in results : x.film # batch[r][i].film

RowsFit(r) ==
    /\ IsFiniteSet(written[r])
    /\ Cardinality(written[r]) + Cardinality(todo[r]) <= BatchMax

\* The cap it checked leaves room, and goes on to.
RoomLeft(r) == pc[r] # "counting" => Cardinality(Latest(now)) < Cap

Underway(r) ==
    /\ pc[r] = "counting" => written[r] = {} /\ todo[r] = {}
    /\ RowsAreNew(r)
    /\ FoundNew(r)
    /\ RowsFit(r)
    /\ RoomLeft(r)

SwipeInv ==
    /\ TypeOK
    /\ Alone
    /\ NothingOpen
    /\ InBody
    /\ TimesPast
    /\ IsFiniteSet(results)
    /\ SwipedIsAnswered
    /\ OneResultPerFilm
    /\ CapAndOneBatch
    /\ \A r \in Requests : holder = r => Underway(r)
-----------------------------------------------------------------------------
(* Types *)

LEMMA InitType == Init => TypeOK
<1> SUFFICES ASSUME Init PROVE TypeOK
  OBVIOUS
<1> QED
  BY MarkersAssumption DEF Init, LedgerInit, TypeOK, InTransaction

LEMMA EndType ==
    ASSUME TypeOK, NEW r \in Requests, End(r)
    PROVE  /\ lock' \in [Films -> Requests \cup {NoRequest}]
           /\ holder' \in Requests \cup {NoRequest}
           /\ pc' \in [Requests -> {"idle", "waiting", "ended"} \cup InTransaction]
           /\ todo' \in [Requests -> SUBSET (1..BatchMax)]
           /\ written' \in [Requests -> SUBSET Results]
    BY DEF TypeOK, End

LEMMA TypeStep == TypeOK /\ InBody /\ [Next]_vars => TypeOK'
<1> SUFFICES ASSUME TypeOK, InBody, [Next]_vars PROVE TypeOK'
  OBVIOUS
<1>1. CASE UNCHANGED vars
  BY <1>1 DEF vars, TypeOK
<1>2. ASSUME NEW f \in Films, AddToLibrary(f), UNCHANGED requestVars PROVE TypeOK'
  BY <1>2 DEF AddToLibrary, requestVars, TypeOK
<1>3. ASSUME NEW f \in Films, NEW answer \in Answers, Classify(f, answer), UNCHANGED requestVars
      PROVE  TypeOK'
  BY <1>3 DEF Classify, requestVars, TypeOK
<1>4. ASSUME NEW r \in Requests, Arrive(r) PROVE TypeOK'
  BY <1>4 DEF Arrive, TypeOK
<1>5. ASSUME NEW r \in Requests, Acquire(r) PROVE TypeOK'
  BY <1>5 DEF Acquire, TypeOK, InTransaction
<1>6. ASSUME NEW r \in Requests, Refuse(r) \/ Abort(r) PROVE TypeOK'
  <2>1. End(r) /\ UNCHANGED <<now, seen, batch, start, results>>
    BY <1>6 DEF Refuse, Abort
  <2> QED
    BY <2>1, EndType DEF TypeOK
<1>7. ASSUME NEW r \in Requests, Accept(r) PROVE TypeOK'
  <2>1. FilmsOf(batch[r]) \subseteq 1..BatchMax
    <3>1. batch[r] \in Batches
      BY DEF TypeOK
    <3>2. FilmsOf(batch[r]) \subseteq 1..Len(batch[r]) /\ Len(batch[r]) \in 0..BatchMax
      BY <3>1, BodyTypes
    <3> QED
      BY <3>2, BoundsAssumption
  <2>2. todo' \in [Requests -> SUBSET (1..BatchMax)]
    BY <1>7, <2>1 DEF Accept, TypeOK
  <2> QED
    BY <1>7, <2>2 DEF Accept, TypeOK, InTransaction
<1>8. ASSUME NEW r \in Requests, Select(r) PROVE TypeOK'
  <2>1. PICK i \in todo[r] :
          IF seen[batch[r][i].film] = "unknown"
          THEN pc' = [pc EXCEPT ![r] = "updating"] /\ UNCHANGED todo
          ELSE todo' = [todo EXCEPT ![r] = todo[r] \ {i}] /\ UNCHANGED pc
    BY <1>8 DEF Select
  <2>2. pc' \in [Requests -> {"idle", "waiting", "ended"} \cup InTransaction]
    BY <2>1 DEF TypeOK, InTransaction
  <2>3. todo[r] \ {i} \in SUBSET (1..BatchMax)
    BY DEF TypeOK
  <2>4. todo' \in [Requests -> SUBSET (1..BatchMax)]
    BY <2>1, <2>3 DEF TypeOK
  <2> QED
    BY <1>8, <2>2, <2>4 DEF Select, TypeOK
<1>9. ASSUME NEW r \in Requests, Update(r) PROVE TypeOK'
  <2> DEFINE f(i) == batch[r][i].film
             row(i) == [film |-> f(i), at |-> now, by |-> r]
  <2>1. PICK i \in todo[r] :
          /\ lock' = [lock EXCEPT ![f(i)] = r]
          /\ written' = [written EXCEPT ![r] = written[r] \cup {row(i)}]
          /\ todo' = [todo EXCEPT ![r] = todo[r] \ {i}]
    BY <1>9 DEF Update
  <2>2. todo[r] \ {i} \in SUBSET (1..BatchMax)
    BY DEF TypeOK
  <2>3. todo' \in [Requests -> SUBSET (1..BatchMax)]
    BY <2>1, <2>2 DEF TypeOK
  <2>4. lock' \in [Films -> Requests \cup {NoRequest}]
    BY <2>1 DEF TypeOK
  <2>5. row(i) \in Results
    <3>1. batch[r] \in Batches /\ i \in FilmsOf(batch[r]) /\ now \in Nat
      BY DEF TypeOK, InBody
    <3>2. f(i) \in Films
      BY <3>1, BodyTypes
    <3> QED
      BY <3>1, <3>2 DEF Results
  <2>6. written' \in [Requests -> SUBSET Results]
    BY <2>1, <2>5 DEF TypeOK
  <2> QED
    BY <1>9, <2>3, <2>4, <2>6 DEF Update, TypeOK, InTransaction
<1>10. ASSUME NEW r \in Requests, Commit(r) PROVE TypeOK'
  <2>1. End(r) /\ UNCHANGED <<now, batch, start>> /\ results' = results \cup written[r]
    BY <1>10 DEF Commit
  <2>2. seen' \in [Films -> Answers \cup {"absent", "unknown"}]
    <3>1. ASSUME NEW f \in Films, NEW x \in written[r], x.film = f
          PROVE  AnswerFor(batch[r], f) \in Answers
      BY <3>1, AnswerType DEF TypeOK, InBody
    <3> QED
      BY <1>10, <3>1 DEF Commit, TypeOK
  <2>3. results' \subseteq Results
    BY <2>1 DEF TypeOK
  <2> QED
    BY <2>1, <2>2, <2>3, EndType DEF TypeOK
<1>11. ASSUME Tick, UNCHANGED requestVars PROVE TypeOK'
  BY <1>11 DEF Tick, requestVars, TypeOK
<1> QED
  BY <1>1, <1>2, <1>3, <1>4, <1>5, <1>6, <1>7, <1>8, <1>9, <1>10, <1>11 DEF Next

-----------------------------------------------------------------------------
(* What the steps keep *)

\* Time only takes results out of the window.
LEMMA WindowShrinks ==
    ASSUME SwipeInv, TypeOK', UNCHANGED results, now <= now'
    PROVE  /\ Cardinality(Latest(now)) \in Nat /\ Cardinality(Latest(now))' \in Nat
           /\ Cardinality(Latest(now))' <= Cardinality(Latest(now))
<1>1. Latest(now)' \subseteq Latest(now)
  BY BoundsAssumption DEF SwipeInv, TypeOK, Latest, Results
<1>2. IsFiniteSet(Latest(now))
  BY FS_Subset DEF SwipeInv, Latest
<1>3. Cardinality(Latest(now)') <= Cardinality(Latest(now)) /\ IsFiniteSet(Latest(now)')
  BY <1>1, <1>2, FS_Subset
<1>4. Cardinality(Latest(now)) \in Nat /\ Cardinality(Latest(now)') \in Nat
  BY <1>2, <1>3, FS_CardinalityType
<1> QED
  BY <1>3, <1>4

LEMMA WindowKept ==
    ASSUME SwipeInv, TypeOK', UNCHANGED results, now <= now'
    PROVE  CapAndOneBatch' /\ OneResultPerFilm' /\ IsFiniteSet(results)'
<1>1. Cap \in Nat /\ BatchMax \in Nat
  BY BoundsAssumption
<1>2. CapAndOneBatch'
  BY <1>1, WindowShrinks DEF SwipeInv, CapAndOneBatch
<1> QED
  BY <1>2 DEF SwipeInv, OneResultPerFilm

\* A transaction is not disturbed by a step that leaves its own state and the
\* results alone.
LEMMA UnderwayKept ==
    ASSUME SwipeInv, TypeOK', NEW r \in Requests, Underway(r),
           UNCHANGED <<pc[r], todo[r], batch[r], written[r], results>>, now <= now'
    PROVE  Underway(r)'
<1>1. RowsAreNew(r)'
  BY DEF Underway, RowsAreNew
<1>2. FoundNew(r)'
  BY DEF Underway, FoundNew, IsNext
<1>3. RowsFit(r)'
  BY DEF Underway, RowsFit
<1>4. RoomLeft(r)'
  <2>1. Cap \in Nat
    BY BoundsAssumption
  <2> QED
    BY <2>1, WindowShrinks DEF Underway, RoomLeft
<1> QED
  BY <1>1, <1>2, <1>3, <1>4 DEF Underway

\* The end of a transaction leaves none open.
LEMMA EndCloses ==
    ASSUME SwipeInv, NEW r \in Requests, pc[r] \in InTransaction, End(r),
           UNCHANGED <<now, batch, start>>
    PROVE  /\ Alone' /\ NothingOpen' /\ InBody' /\ TimesPast'
           /\ \A q \in Requests : holder' # q
<1>1. holder = r /\ holder' = NoRequest
  BY DEF SwipeInv, Alone, End
<1>2. \A q \in Requests : holder' # q
  BY <1>1, MarkersAssumption
<1>3. Alone'
  BY <1>1, <1>2 DEF SwipeInv, Alone, TypeOK, End, InTransaction
<1>4. \A q \in Requests : todo'[q] = {} /\ written'[q] = {}
  BY <1>1 DEF SwipeInv, TypeOK, End, NothingOpen
<1>5. NothingOpen' /\ InBody'
  BY <1>4 DEF NothingOpen, InBody
<1>6. TimesPast'
  BY DEF SwipeInv, TimesPast
<1> QED
  BY <1>2, <1>3, <1>5, <1>6

\* A step outside of all transactions.
LEMMA OutsideStep ==
    ASSUME SwipeInv, TypeOK',
           UNCHANGED <<holder, batch, todo, written, results>>,
           now <= now',
           \A q \in Requests : pc'[q] \in InTransaction <=> pc[q] \in InTransaction,
           \A q \in Requests : holder = q => pc'[q] = pc[q],
           TimesPast', SwipedIsAnswered'
    PROVE  SwipeInv'
<1>1. Alone' /\ NothingOpen' /\ InBody'
  BY DEF SwipeInv, Alone, NothingOpen, InBody
<1>2. CapAndOneBatch' /\ OneResultPerFilm' /\ IsFiniteSet(results)'
  BY WindowKept
<1>3. ASSUME NEW q \in Requests, holder' = q PROVE Underway(q)'
  BY <1>3, UnderwayKept DEF SwipeInv
<1> QED
  BY <1>1, <1>2, <1>3 DEF SwipeInv

-----------------------------------------------------------------------------
(* The steps of a transaction *)

LEMMA EndStep ==
    ASSUME SwipeInv, TypeOK', NEW r \in Requests, Refuse(r) \/ Abort(r)
    PROVE  SwipeInv'
<1>1. pc[r] \in InTransaction /\ End(r) /\ UNCHANGED <<now, seen, batch, start, results>>
  BY DEF Refuse, Abort, InTransaction
<1>2. now <= now'
  BY <1>1 DEF SwipeInv, TypeOK
<1>3. SwipedIsAnswered'
  BY <1>1 DEF SwipeInv, SwipedIsAnswered
<1> QED
  BY <1>1, <1>2, <1>3, EndCloses, WindowKept DEF SwipeInv

LEMMA AcquireStep ==
    ASSUME SwipeInv, TypeOK', NEW r \in Requests, Acquire(r)
    PROVE  SwipeInv'
<1>1. holder = NoRequest /\ holder' = r /\ pc'[r] = "counting"
  BY DEF SwipeInv, TypeOK, Acquire, LockFree
<1>2. \A q \in Requests \ {r} : pc'[q] = pc[q]
  BY DEF SwipeInv, TypeOK, Acquire
<1>3. \A q \in Requests : todo'[q] = {} /\ written'[q] = {}
  BY <1>1, MarkersAssumption DEF SwipeInv, NothingOpen, Acquire
<1>4. Alone'
  BY <1>1, <1>2, MarkersAssumption DEF SwipeInv, Alone, InTransaction
<1>5. NothingOpen' /\ InBody' /\ TimesPast' /\ SwipedIsAnswered'
  BY <1>3 DEF SwipeInv, NothingOpen, InBody, TimesPast, SwipedIsAnswered, Acquire
<1>6. now <= now' /\ UNCHANGED results
  BY DEF SwipeInv, TypeOK, Acquire
<1>7. Underway(r)'
  <2>1. RowsAreNew(r)' /\ FoundNew(r)' /\ RoomLeft(r)'
    BY <1>1, <1>3 DEF RowsAreNew, FoundNew, RoomLeft
  <2>2. RowsFit(r)'
    BY <1>3, FS_EmptySet, BoundsAssumption DEF RowsFit
  <2> QED
    BY <1>3, <2>1, <2>2 DEF Underway
<1> QED
  BY <1>1, <1>4, <1>5, <1>6, <1>7, WindowKept DEF SwipeInv

LEMMA BodyFits ==
    ASSUME NEW b \in Batches
    PROVE  IsFiniteSet(FilmsOf(b)) /\ Cardinality(FilmsOf(b)) \in 0..BatchMax
<1>1. Len(b) \in Nat /\ Len(b) <= BatchMax /\ FilmsOf(b) \subseteq 1..Len(b)
  BY BodyTypes
<1>2. IsFiniteSet(1..Len(b)) /\ Cardinality(1..Len(b)) = Len(b)
  <2> DEFINE n == Len(b)
  <2>1. n \in Nat /\ n \in Int /\ 1 \in Int
    BY <1>1
  <2> HIDE DEF n
  <2>2. IsFiniteSet(1..n) /\ Cardinality(1..n) = IF 1 > n THEN 0 ELSE n - 1 + 1
    BY <2>1, FS_Interval
  <2>3. IsFiniteSet(1..n) /\ Cardinality(1..n) = n
    BY <2>1, <2>2
  <2> QED
    BY <2>3 DEF n
<1>3. IsFiniteSet(FilmsOf(b)) /\ Cardinality(FilmsOf(b)) <= Len(b)
  BY <1>1, <1>2, FS_Subset
<1>4. Cardinality(FilmsOf(b)) \in Nat
  BY <1>3, FS_CardinalityType
<1> QED
  BY <1>1, <1>3, <1>4, BoundsAssumption

\* The cap holds for every window that ends at or after the start: what the
\* purge has deleted is older than that.
LEMMA AcceptStep ==
    ASSUME SwipeInv, TypeOK', NEW r \in Requests, Accept(r)
    PROVE  SwipeInv'
<1>1. holder = r /\ pc[r] = "counting" /\ written[r] = {}
  BY DEF SwipeInv, Alone, InTransaction, Accept, Underway
<1>2. pc'[r] = "selecting" /\ todo'[r] = FilmsOf(batch[r])
  BY DEF SwipeInv, TypeOK, Accept
<1>3. \A q \in Requests \ {r} : pc'[q] = pc[q] /\ todo'[q] = todo[q]
  BY DEF SwipeInv, TypeOK, Accept
<1>4. UNCHANGED <<now, seen, lock, holder, batch, start, written, results>>
  BY DEF Accept
<1>5. Alone' /\ NothingOpen'
  BY <1>1, <1>2, <1>3, <1>4 DEF SwipeInv, Alone, NothingOpen, InTransaction
<1>6. InBody' /\ TimesPast' /\ SwipedIsAnswered'
  BY <1>2, <1>3, <1>4 DEF SwipeInv, InBody, TimesPast, SwipedIsAnswered, FilmsOf
<1>7. now <= now'
  BY <1>4 DEF SwipeInv, TypeOK
<1>8. RoomLeft(r)'
  <2>1. Latest(now) \subseteq Counted(r)
    BY RetentionAssumption, BoundsAssumption
    DEF SwipeInv, TypeOK, TimesPast, Latest, Counted, Purged, Results
  <2>2. IsFiniteSet(Counted(r))
    BY FS_Subset DEF SwipeInv, Counted
  <2>3. Cardinality(Latest(now)) <= Cardinality(Counted(r)) /\ IsFiniteSet(Latest(now))
    BY <2>1, <2>2, FS_Subset
  <2>4. Cardinality(Latest(now)) \in Nat /\ Cardinality(Counted(r)) \in Nat
    BY <2>2, <2>3, FS_CardinalityType
  <2>5. Cardinality(Latest(now)) < Cap
    BY <2>3, <2>4, BoundsAssumption DEF Accept, OverCap
  <2> QED
    BY <1>4, <2>5 DEF RoomLeft, Latest
<1>9. Underway(r)'
  <2>1. RowsAreNew(r)' /\ FoundNew(r)'
    BY <1>1, <1>2, <1>4 DEF RowsAreNew, FoundNew
  <2>2. RowsFit(r)'
    <3>1. batch[r] \in Batches
      BY DEF SwipeInv, TypeOK
    <3>2. Cardinality({}) = 0 /\ IsFiniteSet({})
      BY FS_EmptySet
    <3> QED
      BY <1>1, <1>2, <1>4, <3>1, <3>2, BodyFits, BoundsAssumption DEF RowsFit
  <2> QED
    BY <1>2, <1>8, <2>1, <2>2 DEF Underway
<1> QED
  BY <1>1, <1>4, <1>5, <1>6, <1>7, <1>9, WindowKept DEF SwipeInv

LEMMA OneLess ==
    ASSUME NEW S, IsFiniteSet(S), NEW x \in S
    PROVE  /\ IsFiniteSet(S \ {x})
           /\ Cardinality(S) \in Nat /\ Cardinality(S \ {x}) = Cardinality(S) - 1
<1>1. IsFiniteSet(S \ {x}) /\ Cardinality(S \ {x}) = Cardinality(S) - 1
  BY FS_RemoveElement
<1> QED
  BY <1>1, FS_CardinalityType

LEMMA AtMostOneMore ==
    ASSUME NEW S, IsFiniteSet(S), NEW x
    PROVE  /\ IsFiniteSet(S \cup {x}) /\ Cardinality(S) \in Nat
           /\ Cardinality(S \cup {x}) \in {Cardinality(S), Cardinality(S) + 1}
<1>1. IsFiniteSet(S \cup {x})
  BY FS_AddElement
<1>2. CASE x \in S
  <2>1. S \cup {x} = S
    BY <1>2
  <2> QED
    BY <1>1, <2>1, FS_CardinalityType
<1>3. CASE x \notin S
  <2>1. Cardinality(S \cup {x}) = Cardinality(S) + 1
    BY <1>3, FS_AddElement
  <2> QED
    BY <1>1, <2>1, FS_CardinalityType
<1> QED
  BY <1>2, <1>3

LEMMA TodoFinite ==
    ASSUME SwipeInv, NEW r \in Requests
    PROVE  IsFiniteSet(todo[r])
<1>1. batch[r] \in Batches /\ todo[r] \subseteq FilmsOf(batch[r])
  BY DEF SwipeInv, TypeOK, InBody
<1> QED
  BY <1>1, BodyFits, FS_Subset

\* Positions a body is looked at by have different films.
LEMMA FilmsDiffer ==
    ASSUME NEW b \in Batches, NEW i \in FilmsOf(b), NEW j \in FilmsOf(b), i # j
    PROVE  b[i].film # b[j].film
<1>1. i \in Nat /\ j \in Nat /\ i >= 1 /\ j >= 1
  BY BodyTypes
<1>2. CASE i < j
  BY <1>1, <1>2 DEF FilmsOf
<1>3. CASE j < i
  BY <1>1, <1>3 DEF FilmsOf
<1> QED
  BY <1>1, <1>2, <1>3

LEMMA SelectStep ==
    ASSUME SwipeInv, TypeOK', NEW r \in Requests, Select(r)
    PROVE  SwipeInv'
<1>1. PICK i \in todo[r] :
        /\ IsNext(r, i)
        /\ IF seen[batch[r][i].film] = "unknown"
           THEN pc' = [pc EXCEPT ![r] = "updating"] /\ UNCHANGED todo
           ELSE todo' = [todo EXCEPT ![r] = todo[r] \ {i}] /\ UNCHANGED pc
  BY DEF Select
<1>2. holder = r /\ pc[r] = "selecting" /\ Underway(r)
  BY DEF SwipeInv, Alone, InTransaction, Select
<1>3. UNCHANGED <<now, seen, lock, holder, batch, start, written, results>>
  BY DEF Select
<1>4. \A q \in Requests \ {r} : pc'[q] = pc[q] /\ todo'[q] = todo[q]
  BY <1>1 DEF SwipeInv, TypeOK
<1>5. pc'[r] \in {"selecting", "updating"} /\ todo'[r] \subseteq todo[r]
  BY <1>1, <1>2 DEF SwipeInv, TypeOK
<1>6. Alone' /\ NothingOpen'
  BY <1>2, <1>3, <1>4, <1>5 DEF SwipeInv, Alone, NothingOpen, InTransaction
<1>7. InBody' /\ TimesPast' /\ SwipedIsAnswered'
  BY <1>3, <1>4, <1>5 DEF SwipeInv, InBody, TimesPast, SwipedIsAnswered, FilmsOf
<1>8. now <= now'
  BY <1>3 DEF SwipeInv, TypeOK
<1>9. FoundNew(r)'
  <2>1. CASE seen[batch[r][i].film] = "unknown"
    <3>1. \A x \in results : x.film # batch[r][i].film
      BY <2>1 DEF SwipeInv, SwipedIsAnswered, Answers
    <3>2. \A j \in todo[r] : IsNext(r, j) => j = i
      BY <1>1 DEF IsNext, SwipeInv, TypeOK
    <3> QED
      BY <1>1, <1>3, <2>1, <3>1, <3>2 DEF FoundNew, IsNext
  <2>2. CASE seen[batch[r][i].film] # "unknown"
    BY <1>1, <1>2, <2>2 DEF FoundNew
  <2> QED
    BY <2>1, <2>2
<1>10. RowsAreNew(r)'
  BY <1>2, <1>3, <1>5 DEF Underway, RowsAreNew
<1>11. RowsFit(r)'
  <2>1. IsFiniteSet(todo[r])
    BY TodoFinite
  <2>2. Cardinality(todo'[r]) <= Cardinality(todo[r]) /\ IsFiniteSet(todo'[r])
    BY <1>5, <2>1, FS_Subset
  <2>3. Cardinality(todo[r]) \in Nat /\ Cardinality(todo'[r]) \in Nat
    BY <2>1, <2>2, FS_CardinalityType
  <2>4. Cardinality(written[r]) \in Nat
    BY <1>2, FS_CardinalityType DEF Underway, RowsFit
  <2> QED
    BY <1>2, <1>3, <2>2, <2>3, <2>4, BoundsAssumption DEF Underway, RowsFit
<1>12. RoomLeft(r)'
  BY <1>2, <1>3 DEF Underway, RoomLeft, Latest
<1>13. Underway(r)'
  BY <1>5, <1>9, <1>10, <1>11, <1>12 DEF Underway
<1> QED
  BY <1>2, <1>3, <1>6, <1>7, <1>8, <1>13, WindowKept DEF SwipeInv

LEMMA UpdateStep ==
    ASSUME SwipeInv, TypeOK', NEW r \in Requests, Update(r)
    PROVE  SwipeInv'
<1> DEFINE row(i) == [film |-> batch[r][i].film, at |-> now, by |-> r]
<1>1. PICK i \in todo[r] :
        /\ IsNext(r, i)
        /\ written' = [written EXCEPT ![r] = written[r] \cup {row(i)}]
        /\ todo' = [todo EXCEPT ![r] = todo[r] \ {i}]
  BY DEF Update
<1>2. holder = r /\ pc[r] = "updating" /\ Underway(r)
  BY DEF SwipeInv, Alone, InTransaction, Update
<1>3. UNCHANGED <<now, seen, holder, batch, start, results>> /\ pc' = [pc EXCEPT ![r] = "selecting"]
  BY DEF Update
<1>4. \A q \in Requests \ {r} : pc'[q] = pc[q] /\ todo'[q] = todo[q] /\ written'[q] = written[q]
  BY <1>1, <1>3 DEF SwipeInv, TypeOK
<1>5. /\ pc'[r] = "selecting" /\ todo'[r] = todo[r] \ {i}
      /\ written'[r] = written[r] \cup {row(i)}
  BY <1>1, <1>3 DEF SwipeInv, TypeOK
<1>6. Alone' /\ NothingOpen'
  BY <1>2, <1>3, <1>4, <1>5 DEF SwipeInv, Alone, NothingOpen, InTransaction
<1>7. batch[r] \in Batches /\ todo[r] \subseteq FilmsOf(batch[r]) /\ i \in 1..Len(batch[r])
  BY BodyTypes DEF SwipeInv, TypeOK, InBody
<1>8. InBody'
  BY <1>3, <1>4, <1>5, <1>7 DEF SwipeInv, InBody, FilmsOf
<1>9. TimesPast' /\ SwipedIsAnswered'
  BY <1>3 DEF SwipeInv, TimesPast, SwipedIsAnswered
<1>10. now <= now'
  BY <1>3 DEF SwipeInv, TypeOK
<1>11. RowsAreNew(r)'
  <2>1. \A y \in results : y.film # batch[r][i].film
    BY <1>1, <1>2 DEF Underway, FoundNew
  <2>2. \A x \in written[r] : x.film # batch[r][i].film
    BY <1>2 DEF Underway, RowsAreNew
  <2>3. \A j \in todo[r] \ {i} : batch[r][j].film # batch[r][i].film
    BY <1>7, FilmsDiffer
  <2>4. row(i).film = batch[r][i].film
    OBVIOUS
  <2> HIDE DEF row
  <2> QED
    BY <1>2, <1>3, <1>5, <2>1, <2>2, <2>3, <2>4 DEF Underway, RowsAreNew
<1>12. RowsFit(r)'
  <2>1. IsFiniteSet(todo[r]) /\ IsFiniteSet(written[r])
    BY <1>2, TodoFinite DEF Underway, RowsFit
  <2>2. Cardinality(todo[r]) \in Nat /\ Cardinality(todo'[r]) = Cardinality(todo[r]) - 1
    BY <1>5, <2>1, OneLess
  <2>3. /\ IsFiniteSet(written'[r]) /\ Cardinality(written[r]) \in Nat
        /\ Cardinality(written'[r]) \in {Cardinality(written[r]), Cardinality(written[r]) + 1}
    <3> DEFINE x == row(i)
    <3>1. written'[r] = written[r] \cup {x}
      BY <1>5
    <3> HIDE DEF x
    <3>2. /\ IsFiniteSet(written[r] \cup {x}) /\ Cardinality(written[r]) \in Nat
          /\ Cardinality(written[r] \cup {x}) \in {Cardinality(written[r]), Cardinality(written[r]) + 1}
      BY <2>1, AtMostOneMore
    <3> QED
      BY <3>1, <3>2
  <2> QED
    BY <1>2, <2>2, <2>3, BoundsAssumption DEF Underway, RowsFit
<1>13. RoomLeft(r)'
  BY <1>2, <1>3 DEF Underway, RoomLeft, Latest
<1>14. Underway(r)'
  BY <1>5, <1>11, <1>12, <1>13 DEF Underway, FoundNew
<1> QED
  BY <1>2, <1>3, <1>4, <1>6, <1>8, <1>9, <1>10, <1>14, WindowKept DEF SwipeInv

\* What is committed is new, and the window had room for all of it but one.
LEMMA CommitStep ==
    ASSUME SwipeInv, TypeOK', NEW r \in Requests, Commit(r)
    PROVE  SwipeInv'
<1>1. /\ pc[r] \in InTransaction /\ pc[r] = "selecting"
      /\ End(r) /\ UNCHANGED <<now, batch, start>>
      /\ results' = results \cup written[r]
  BY DEF Commit, InTransaction
<1>2. holder = r /\ Underway(r)
  BY <1>1 DEF SwipeInv, Alone
<1>3. IsFiniteSet(results')
  BY <1>1, <1>2, FS_Union DEF SwipeInv, Underway, RowsFit
<1>4. OneResultPerFilm'
  BY <1>1, <1>2 DEF SwipeInv, OneResultPerFilm, Underway, RowsAreNew
<1>5. SwipedIsAnswered'
  <2>1. ASSUME NEW x \in written[r] PROVE seen'[x.film] \in Answers
    <3>1. x.film \in Films
      BY DEF SwipeInv, TypeOK, Results
    <3>2. PICK k \in 1..Len(batch[r]) : batch[r][k].film = x.film
      BY DEF SwipeInv, InBody
    <3>3. AnswerFor(batch[r], x.film) \in Answers
      BY <3>2, AnswerType DEF SwipeInv, TypeOK
    <3> QED
      BY <3>1, <3>3 DEF Commit
  <2>2. ASSUME NEW x \in results PROVE seen'[x.film] \in Answers
    <3>1. x.film \in Films
      BY DEF SwipeInv, TypeOK, Results
    <3>2. \A y \in written[r] : y.film # x.film
      BY <1>2 DEF Underway, RowsAreNew
    <3>3. seen'[x.film] = seen[x.film]
      BY <3>1, <3>2 DEF Commit
    <3> QED
      BY <3>3 DEF SwipeInv, SwipedIsAnswered
  <2> QED
    BY <1>1, <2>1, <2>2 DEF SwipedIsAnswered
<1>6. CapAndOneBatch'
  <2>1. Latest(now)' \subseteq Latest(now) \cup written[r]
    BY <1>1 DEF Latest
  <2>2. IsFiniteSet(Latest(now)) /\ IsFiniteSet(written[r])
    BY <1>2, FS_Subset DEF SwipeInv, Latest, Underway, RowsFit
  <2>3. /\ IsFiniteSet(Latest(now) \cup written[r])
        /\ Cardinality(Latest(now) \cup written[r]) <= Cardinality(Latest(now)) + Cardinality(written[r])
    <3>1. /\ IsFiniteSet(Latest(now) \cup written[r])
          /\ Cardinality(Latest(now) \cup written[r]) =
               Cardinality(Latest(now)) + Cardinality(written[r]) - Cardinality(Latest(now) \cap written[r])
      BY <2>2, FS_Union
    <3>2. Cardinality(Latest(now) \cap written[r]) \in Nat
      BY <2>2, FS_Intersection, FS_CardinalityType
    <3>3. Cardinality(Latest(now)) \in Nat /\ Cardinality(written[r]) \in Nat
      BY <2>2, FS_CardinalityType
    <3> QED
      BY <3>1, <3>2, <3>3
  <2>4. /\ IsFiniteSet(Latest(now)')
        /\ Cardinality(Latest(now)') <= Cardinality(Latest(now) \cup written[r])
    BY <2>1, <2>3, FS_Subset
  <2>5. /\ Cardinality(Latest(now)) \in Nat /\ Cardinality(written[r]) \in Nat
        /\ Cardinality(Latest(now)') \in Nat /\ Cardinality(Latest(now) \cup written[r]) \in Nat
        /\ Cardinality(todo[r]) \in Nat
    BY <2>2, <2>3, <2>4, TodoFinite, FS_CardinalityType
  <2>6. Cardinality(Latest(now)) < Cap /\ Cardinality(written[r]) <= BatchMax
    BY <1>1, <1>2, <2>5, BoundsAssumption DEF Underway, RoomLeft, RowsFit
  <2>7. Cardinality(Latest(now)') <= Cap + BatchMax - 1
    BY <2>3, <2>4, <2>5, <2>6, BoundsAssumption
  <2> QED
    BY <2>7 DEF CapAndOneBatch
<1> QED
  BY <1>1, <1>3, <1>4, <1>5, <1>6, EndCloses DEF SwipeInv

\* A step of another writer, or of the clock.
Elsewhere ==
    /\ \/ \E f \in Films : AddToLibrary(f) \/ \E answer \in Answers : Classify(f, answer)
       \/ Tick
    /\ UNCHANGED requestVars

LEMMA OtherStep ==
    ASSUME SwipeInv, TypeOK',
           \/ UNCHANGED vars
           \/ Elsewhere
           \/ \E r \in Requests : Arrive(r)
    PROVE  SwipeInv'
<1>1. UNCHANGED <<holder, batch, todo, written, results>>
  BY DEF vars, Elsewhere, requestVars, Tick, AddToLibrary, Classify, Arrive
<1>2. now <= now'
  BY DEF SwipeInv, TypeOK, vars, Elsewhere, requestVars, Tick, AddToLibrary, Classify, Arrive
<1>3. /\ \A q \in Requests : pc'[q] \in InTransaction <=> pc[q] \in InTransaction
      /\ \A q \in Requests : holder = q => pc'[q] = pc[q]
  BY DEF SwipeInv, TypeOK, Alone, InTransaction, vars, Elsewhere, requestVars, Tick, AddToLibrary, Classify, Arrive
<1>4. TimesPast'
  BY <1>2 DEF SwipeInv, TypeOK, TimesPast, vars, Elsewhere, requestVars, Tick, AddToLibrary, Classify, Arrive
<1>5. SwipedIsAnswered'
  <2>1. \A x \in results : x.film \in Films
    BY DEF SwipeInv, TypeOK, Results
  <2>2. \A f \in Films : seen[f] \in Answers => seen'[f] \in Answers
    BY DEF SwipeInv, TypeOK, Answers, vars, Elsewhere, requestVars, Tick, AddToLibrary, Classify, Arrive
  <2> QED
    BY <1>1, <2>1, <2>2 DEF SwipeInv, SwipedIsAnswered
<1> QED
  BY <1>1, <1>2, <1>3, <1>4, <1>5, OutsideStep
-----------------------------------------------------------------------------
(* Theorems *)

LEMMA InvInit == Init => SwipeInv
<1> SUFFICES ASSUME Init PROVE SwipeInv
  OBVIOUS
<1>1. TypeOK
  BY InitType
<1>2. Alone /\ NothingOpen /\ InBody /\ TimesPast
  BY MarkersAssumption DEF Init, LedgerInit, Alone, NothingOpen, InBody, TimesPast, InTransaction
<1>3. results = {} /\ Latest(now) = {}
  BY DEF Init, LedgerInit, Latest
<1>4. IsFiniteSet(results) /\ Cardinality(Latest(now)) = 0
  BY <1>3, FS_EmptySet
<1>5. SwipedIsAnswered /\ OneResultPerFilm /\ CapAndOneBatch
  BY <1>3, <1>4, BoundsAssumption DEF SwipedIsAnswered, OneResultPerFilm, CapAndOneBatch
<1>6. \A r \in Requests : holder # r
  BY MarkersAssumption DEF Init
<1> QED
  BY <1>1, <1>2, <1>4, <1>5, <1>6 DEF SwipeInv

LEMMA InvStep == SwipeInv /\ [Next]_vars => SwipeInv'
<1> SUFFICES ASSUME SwipeInv, [Next]_vars PROVE SwipeInv'
  OBVIOUS
<1>1. TypeOK'
  BY TypeStep DEF SwipeInv
<1> QED
  BY <1>1, OtherStep, AcquireStep, EndStep, AcceptStep, SelectStep, UpdateStep, CommitStep
  DEF Next, Elsewhere

\* The invariant of a user's swipes holds of every behaviour: whoever holds the
\* advisory lock is alone in its transaction, and what it checked is still so.
THEOREM SwipesHold == Spec => []SwipeInv
<1> QED
  BY InvInit, InvStep, PTL DEF Spec

\* The state of the swipe handlers keeps its types.
THEOREM TypeCorrect == Spec => []TypeOK
<1>1. SwipeInv => TypeOK
  BY DEF SwipeInv
<1> QED
  BY <1>1, SwipesHold, PTL

\* Whatever is submitted in parallel, with whatever else writes the rows, a
\* film gets at most one swipe result.
THEOREM SwipedOnce == Spec => []OneResultPerFilm
<1>1. SwipeInv => OneResultPerFilm
  BY DEF SwipeInv
<1> QED
  BY <1>1, SwipesHold, PTL

\* No window of the cap ever holds more than the cap and one batch less a row,
\* though handlers take their time before they wait and old rows are purged.
THEOREM CapKept == Spec => []CapAndOneBatch
<1>1. SwipeInv => CapAndOneBatch
  BY DEF SwipeInv
<1> QED
  BY <1>1, SwipesHold, PTL
-----------------------------------------------------------------------------
(* Batches are atomic *)

\* What a transaction has written is of the library, and not from the future.
RowsAreOwn ==
    \A r \in Requests : \A x \in written[r] :
        x.by = r /\ x.at <= now /\ seen[x.film] # "absent"

\* What its last SELECT found is still in the library.
FoundThere ==
    \A r \in Requests : pc[r] = "updating" =>
        \A i \in todo[r] : IsNext(r, i) => seen[batch[r][i].film] # "absent"

LedgerInv == SwipeInv /\ RowsAreOwn /\ FoundThere

LEMMA LedgerInvInit == Init => LedgerInv
    BY InvInit DEF Init, LedgerInv, RowsAreOwn, FoundThere

\* No film leaves the library, and the clock does not go back.
LEMMA LibraryGrows ==
    ASSUME SwipeInv, [Next]_vars
    PROVE  /\ \A f \in Films : seen[f] # "absent" => seen'[f] # "absent"
           /\ now \in Nat /\ now' \in Nat /\ now <= now'
           /\ UNCHANGED batch
<1>1. TypeOK
  BY DEF SwipeInv
<1>2. CASE UNCHANGED vars
  BY <1>1, <1>2 DEF TypeOK, vars
<1>3. CASE Elsewhere
  BY <1>1, <1>3
  DEF TypeOK, Elsewhere, requestVars, AddToLibrary, Classify, Tick, Answers
<1>4. ASSUME NEW r \in Requests,
             \/ Arrive(r) \/ Acquire(r) \/ Refuse(r) \/ Accept(r)
             \/ Select(r) \/ Update(r) \/ Abort(r)
      PROVE  UNCHANGED <<seen, now, batch>>
  BY <1>4 DEF Arrive, Acquire, Refuse, Accept, Select, Update, Abort
<1>5. ASSUME NEW r \in Requests, Commit(r)
      PROVE  /\ \A f \in Films : seen[f] # "absent" => seen'[f] # "absent"
             /\ now' = now /\ batch' = batch
  <2>1. ASSUME NEW f \in Films, seen[f] # "absent" PROVE seen'[f] # "absent"
    <3>1. CASE \E x \in written[r] : x.film = f
      <4>1. PICK k \in 1..Len(batch[r]) : batch[r][k].film = f
        BY <3>1 DEF SwipeInv, InBody
      <4>2. AnswerFor(batch[r], f) \in Answers
        BY <1>1, <4>1, AnswerType DEF TypeOK
      <4> QED
        BY <1>5, <3>1, <4>2 DEF Commit, Answers
    <3>2. CASE ~\E x \in written[r] : x.film = f
      BY <1>5, <2>1, <3>2 DEF Commit
    <3> QED
      BY <3>1, <3>2
  <2> QED
    BY <1>5, <2>1 DEF Commit
<1> QED
  BY <1>1, <1>2, <1>3, <1>4, <1>5 DEF Next, Elsewhere, TypeOK

LEMMA ItemFilms ==
    ASSUME SwipeInv, NEW r \in Requests, NEW i \in todo[r]
    PROVE  /\ i \in 1..Len(batch[r]) /\ DOMAIN batch[r] = 1..Len(batch[r])
           /\ batch[r] \in Batches /\ batch[r][i].film \in Films
<1>1. batch[r] \in Batches /\ i \in FilmsOf(batch[r])
  BY DEF SwipeInv, TypeOK, InBody
<1> QED
  BY <1>1, BodyTypes

\* The rows and the item of a request that no step of its own touches.
LEMMA OwnKept ==
    ASSUME LedgerInv, [Next]_vars, NEW r \in Requests,
           written'[r] \subseteq written[r], pc'[r] = "updating" => pc[r] = "updating",
           pc'[r] = "updating" => todo'[r] = todo[r]
    PROVE  /\ \A x \in written'[r] : x.by = r /\ x.at <= now' /\ seen'[x.film] # "absent"
           /\ pc'[r] = "updating" =>
                 \A i \in todo'[r] : IsNext(r, i)' => seen'[batch'[r][i].film] # "absent"
<1>1. /\ \A f \in Films : seen[f] # "absent" => seen'[f] # "absent"
      /\ now \in Nat /\ now' \in Nat /\ now <= now' /\ batch' = batch
  BY LibraryGrows DEF LedgerInv
<1>2. ASSUME NEW x \in written[r] PROVE x.by = r /\ x.at <= now' /\ seen'[x.film] # "absent"
  <2>1. x.film \in Films /\ x.at \in Nat
    BY DEF LedgerInv, SwipeInv, TypeOK, Results
  <2>2. x.by = r /\ x.at <= now /\ seen[x.film] # "absent"
    BY DEF LedgerInv, RowsAreOwn
  <2> QED
    BY <1>1, <2>1, <2>2
<1>3. ASSUME pc'[r] = "updating", NEW i \in todo'[r], IsNext(r, i)'
      PROVE  seen'[batch'[r][i].film] # "absent"
  <2>1. i \in todo[r] /\ IsNext(r, i) /\ pc[r] = "updating"
    BY <1>3 DEF IsNext
  <2>2. batch[r][i].film \in Films
    BY <2>1, ItemFilms DEF LedgerInv
  <2>3. seen[batch[r][i].film] # "absent"
    BY <2>1 DEF LedgerInv, FoundThere
  <2> QED
    BY <1>1, <2>2, <2>3
<1> QED
  BY <1>2, <1>3

LEMMA LedgerInvStep == LedgerInv /\ [Next]_vars => LedgerInv'
<1> SUFFICES ASSUME LedgerInv, [Next]_vars PROVE LedgerInv'
  OBVIOUS
<1>1. SwipeInv'
  BY InvStep DEF LedgerInv
<1>2. TypeOK
  BY DEF LedgerInv, SwipeInv
<1> SUFFICES ASSUME NEW q \in Requests
             PROVE  /\ \A x \in written'[q] : x.by = q /\ x.at <= now' /\ seen'[x.film] # "absent"
                    /\ pc'[q] = "updating" =>
                          \A i \in todo'[q] : IsNext(q, i)' => seen'[batch'[q][i].film] # "absent"
  BY <1>1 DEF LedgerInv, RowsAreOwn, FoundThere
<1>3. CASE \/ UNCHANGED vars \/ Elsewhere
  <2>1. UNCHANGED <<written, pc, todo>>
    BY <1>3 DEF vars, Elsewhere, requestVars
  <2> QED
    BY <2>1, OwnKept
<1>4. ASSUME NEW r \in Requests,
             \/ Arrive(r) \/ Acquire(r) \/ Refuse(r) \/ Accept(r) \/ Commit(r) \/ Abort(r)
      PROVE  /\ written'[q] \subseteq written[q]
             /\ pc'[q] = "updating" => pc[q] = "updating" /\ todo'[q] = todo[q]
  <2>1. CASE q = r
    BY <1>2, <1>4, <2>1 DEF TypeOK, Arrive, Acquire, Refuse, Accept, Commit, Abort, End
  <2>2. CASE q # r
    BY <1>2, <1>4, <2>2 DEF TypeOK, Arrive, Acquire, Refuse, Accept, Commit, Abort, End
  <2> QED
    BY <2>1, <2>2
<1>5. ASSUME NEW r \in Requests, Select(r) \/ Update(r), q # r
      PROVE  written'[q] = written[q] /\ pc'[q] = pc[q] /\ todo'[q] = todo[q]
  BY <1>2, <1>5 DEF TypeOK, Select, Update
<1>6. CASE Select(q)
  <2>1. PICK i \in todo[q] :
          /\ IsNext(q, i)
          /\ IF seen[batch[q][i].film] = "unknown"
             THEN pc' = [pc EXCEPT ![q] = "updating"] /\ UNCHANGED todo
             ELSE todo' = [todo EXCEPT ![q] = todo[q] \ {i}] /\ UNCHANGED pc
    BY <1>6 DEF Select
  <2>2. UNCHANGED <<now, seen, batch, written>> /\ pc[q] = "selecting"
    BY <1>6 DEF Select
  <2>3. \A x \in written'[q] : x.by = q /\ x.at <= now' /\ seen'[x.film] # "absent"
    BY <2>2 DEF LedgerInv, RowsAreOwn
  <2>4. ASSUME pc'[q] = "updating", NEW j \in todo'[q], IsNext(q, j)'
        PROVE  seen'[batch'[q][j].film] # "absent"
    <3>1. seen[batch[q][i].film] = "unknown" /\ todo' = todo
      BY <2>1, <2>2, <2>4
    <3>2. \A k \in todo[q] : k \in Nat
      BY <1>2 DEF TypeOK
    <3>3. j = i
      BY <2>1, <2>4, <3>1, <3>2 DEF IsNext
    <3> QED
      BY <2>2, <3>1, <3>3
  <2> QED
    BY <2>3, <2>4
<1>7. CASE Update(q)
  <2> DEFINE row(i) == [film |-> batch[q][i].film, at |-> now, by |-> q]
  <2>1. PICK i \in todo[q] :
          IsNext(q, i) /\ written' = [written EXCEPT ![q] = written[q] \cup {row(i)}]
    BY <1>7 DEF Update
  <2>2. /\ UNCHANGED <<now, seen, batch>> /\ pc[q] = "updating"
        /\ pc' = [pc EXCEPT ![q] = "selecting"]
    BY <1>7 DEF Update
  <2>3. pc'[q] # "updating"
    BY <1>2, <2>2 DEF TypeOK
  <2>4. written'[q] = written[q] \cup {row(i)}
    BY <1>2, <2>1 DEF TypeOK
  <2>5. row(i).by = q /\ row(i).at <= now /\ seen[row(i).film] # "absent"
    BY <1>2, <2>1, <2>2 DEF TypeOK, LedgerInv, FoundThere
  <2> HIDE DEF row
  <2>6. \A x \in written'[q] : x.by = q /\ x.at <= now' /\ seen'[x.film] # "absent"
    BY <2>2, <2>4, <2>5 DEF LedgerInv, RowsAreOwn
  <2> QED
    BY <2>3, <2>6
<1> QED
  BY <1>3, <1>4, <1>5, <1>6, <1>7, OwnKept DEF Next, Elsewhere

\* A commit is a submission of the ledger: it chose the films it has written,
\* at the times it wrote them.
LEMMA CommitIsSubmit ==
    ASSUME LedgerInv, NEW r \in Requests, Commit(r)
    PROVE  Submit(r, batch[r])
<1> DEFINE rows == written[r]
           chosen == { x.film : x \in rows }
           at == [f \in chosen |-> (CHOOSE x \in rows : x.film = f).at]
<1>1. /\ pc[r] = "selecting" /\ Underway(r) /\ SwipeInv
      /\ \A x \in rows : x.by = r /\ x.at <= now /\ seen[x.film] # "absent"
  BY DEF Commit, LedgerInv, SwipeInv, Alone, InTransaction, RowsAreOwn
<1>2. Cardinality(Latest(now)) < Cap
  BY <1>1 DEF Underway, RoomLeft
<1>3. now \in Nat /\ \A x \in rows : x \in Results /\ x.at \in 0..now
  BY <1>1 DEF SwipeInv, TypeOK, Results
<1>4. chosen \subseteq Swipeable(batch[r])
  <2> SUFFICES ASSUME NEW x \in rows PROVE x.film \in Swipeable(batch[r])
    OBVIOUS
  <2>1. batch[r] \in Batches
    BY <1>1 DEF SwipeInv, TypeOK
  <2>2. PICK i \in 1..Len(batch[r]) : batch[r][i].film = x.film
    BY <1>1 DEF SwipeInv, InBody
  <2>3. i \in DOMAIN batch[r]
    BY <2>1, <2>2, BodyTypes
  <2>4. \A y \in results : y.film # x.film
    BY <1>1 DEF Underway, RowsAreNew
  <2> QED
    BY <1>1, <2>2, <2>3, <2>4 DEF Swipeable
<1>5. ASSUME NEW x \in rows PROVE x.film \in chosen /\ at[x.film] = x.at
  <2>1. \A y \in rows : y.film = x.film => y = x
    BY <1>1 DEF Underway, RowsAreNew
  <2>2. (CHOOSE y \in rows : y.film = x.film) = x
    BY <2>1
  <2> QED
    BY <2>2
<1>6. at \in [chosen -> 0..now]
  BY <1>3, <1>5
<1> HIDE DEF at
<1>7. rows = { [film |-> f, at |-> at[f], by |-> r] : f \in chosen }
  <2>1. \A x \in rows : x = [film |-> x.film, at |-> at[x.film], by |-> r]
    BY <1>1, <1>3, <1>5 DEF Results
  <2> QED
    BY <2>1
<1>8. seen' = [f \in Films |-> IF f \in chosen THEN AnswerFor(batch[r], f) ELSE seen[f]]
  <2>1. \A f \in Films : (\E x \in rows : x.film = f) <=> f \in chosen
    OBVIOUS
  <2> QED
    BY <2>1 DEF Commit
<1>9. results' = results \cup rows /\ UNCHANGED now
  BY DEF Commit
<1> HIDE DEF chosen, rows
<1> QED
  BY <1>2, <1>4, <1>6, <1>7, <1>8, <1>9 DEF Submit

LEMMA StepIsLedger == LedgerInv /\ [Next]_vars => [LedgerNext]_ledgerVars
<1> SUFFICES ASSUME LedgerInv, [Next]_vars PROVE [LedgerNext]_ledgerVars
  OBVIOUS
<1>1. CASE UNCHANGED vars
  BY <1>1 DEF vars, ledgerVars
<1>2. ASSUME NEW r \in Requests,
             \/ Arrive(r) \/ Acquire(r) \/ Refuse(r) \/ Accept(r)
             \/ Select(r) \/ Update(r) \/ Abort(r)
      PROVE  UNCHANGED ledgerVars
  BY <1>2 DEF Arrive, Acquire, Refuse, Accept, Select, Update, Abort, ledgerVars
<1>3. ASSUME NEW r \in Requests, Commit(r) PROVE LedgerNext
  <2>1. batch[r] \in Batches
    BY DEF LedgerInv, SwipeInv, TypeOK
  <2> QED
    BY <1>3, <2>1, CommitIsSubmit DEF LedgerNext
<1> QED
  BY <1>1, <1>2, <1>3 DEF Next, LedgerNext

\* BatchesAreAtomic: query by query, with other writers in between, the handler
\* implements the ledger, whose submissions are one step each.
THEOREM HandlerIsAtomic == Spec => BatchesAreAtomic
<1>1. Init => LedgerInit
  BY DEF Init
<1> QED
  BY <1>1, LedgerInvInit, LedgerInvStep, StepIsLedger, PTL DEF Spec, BatchesAreAtomic, LedgerSpec
=============================================================================
