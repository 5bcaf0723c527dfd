--------------------------- MODULE PoolImportProofs ---------------------------
(***************************************************************************)
(* Proofs about PoolImport, for any number of requests, sources, runs and  *)
(* deploys and any times; and, in the last section, about the row locks    *)
(* that imports take among duels, matches and swipes (RowLocks).           *)
(***************************************************************************)
EXTENDS PoolImport, RowLocks, FiniteSetTheorems, SequenceTheorems, WellFoundedInduction, TLAPS

LEMMA BagGrows ==
    ASSUME NEW B, NEW q, IsABag(B)
    PROVE  IsABag(B (+) SetToBag({q})) /\ BagToSet(B (+) SetToBag({q})) = BagToSet(B) \cup {q}
    BY DEF IsABag, SetToBag, BagToSet, (+)

LEMMA BagShrinks ==
    ASSUME NEW B, NEW q, IsABag(B)
    PROVE  IsABag(B (-) SetToBag({q})) /\ BagToSet(B (-) SetToBag({q})) \subseteq BagToSet(B)
    BY DEF IsABag, SetToBag, BagToSet, (-)

LEMMA FlushType ==
    ASSUME user \in Columns, NEW loaded \in Columns, NEW changed \in Columns
    PROVE  Flush(loaded, changed) \in Columns
    BY DEF Flush, Columns

LEMMA RowTypes ==
    /\ NoRow \in Columns
    /\ \A row \in Columns : Withdrawn(row) \in Columns /\ Accepted(row) \in Columns
    /\ \A row \in Columns, i \in Runs : StartPoolImport(row, i) \in Columns
<1>1. NoRow \in Columns
  BY BoundsAssumption DEF NoRow, Columns, Versions, Statuses
<1>2. ASSUME NEW row \in Columns PROVE Withdrawn(row) \in Columns /\ Accepted(row) \in Columns
  BY <1>2 DEF Withdrawn, Accepted, Columns, Versions
<1>3. ASSUME NEW row \in Columns, NEW i \in Runs PROVE StartPoolImport(row, i) \in Columns
  <2>1. i \in 0 .. MaxRuns
    BY BoundsAssumption DEF Runs
  <2> QED
    BY <1>3, <2>1 DEF StartPoolImport, Columns, Statuses
<1> QED
  BY <1>1, <1>2, <1>3

LEMMA LoadedType ==
    ASSUME user \in Columns, NEW does \in Handlers
    PROVE  Loaded(does) \in Columns
<1>1. NoRow \in Columns
  BY RowTypes
<1> QED
  BY <1>1 DEF Loaded, Columns

RunRecords ==
    [phase : Going \cup {"unused", "ended", "broken"}, recorded : BOOLEAN,
     next : 1 .. Sources + 1, pending : SUBSET (1 .. Sources),
     failed : BOOLEAN, age : 0 .. WorstCase]

\* A run waits for a source there is.
WaitsForSource == \A i \in Runs : run[i].phase = "waiting" => run[i].next <= Sources

TypeInv == TypeOK /\ WaitsForSource

LEMMA Zeros ==
    /\ 0 \in 0 .. StaleAfter + 1 /\ 0 \in 0 .. WorstCase /\ 0 \in 0 .. MaxRestarts
    /\ 1 \in 1 .. Sources + 1
    BY BoundsAssumption, WorstCaseAssumption

LEMMA OverType ==
    ASSUME TypeOK, NEW i \in Runs, NEW phase \in {"ended", "broken"}
    PROVE  /\ Over(i, phase) \in RunRecords
           /\ Over(i, phase).phase = phase
           /\ Over(i, phase).recorded = run[i].recorded
           /\ Over(i, phase).failed = (phase = "ended" /\ run[i].failed)
           /\ Over(i, phase).pending = {}
<1> USE Zeros DEF Over, NoRun, RunRecords, Going
<1>1. CASE run[i].recorded /\ phase = "ended" /\ run[i].failed
  BY <1>1 DEF TypeOK
<1>2. CASE run[i].recorded /\ ~(phase = "ended" /\ run[i].failed)
  BY <1>2 DEF TypeOK
<1>3. CASE ~run[i].recorded /\ phase = "ended" /\ run[i].failed
  BY <1>3 DEF TypeOK
<1>4. CASE ~run[i].recorded /\ ~(phase = "ended" /\ run[i].failed)
  BY <1>4 DEF TypeOK
<1> QED
  BY <1>1, <1>2, <1>3, <1>4

LEMMA QueueType ==
    ASSUME TypeInv, NEW i \in Runs, NEW recorded \in BOOLEAN, Queue(i, recorded)
    PROVE  run' \in [Runs -> RunRecords] /\ WaitsForSource'
  BY DEF TypeInv, TypeOK, Queue, RunRecords, Going, WaitsForSource

LEMMA EndType ==
    ASSUME TypeInv, NEW i \in Runs, NEW phase \in {"ended", "broken"}, End(i, phase)
    PROVE  run' \in [Runs -> RunRecords] /\ WaitsForSource'
  BY OverType DEF TypeInv, TypeOK, End, RunRecords, WaitsForSource

\* The types are kept by every step.
LEMMA TypeStep == TypeInv /\ [Next]_vars => TypeInv'
<1> SUFFICES ASSUME TypeInv, [Next]_vars PROVE TypeInv'
  OBVIOUS
<1> USE DEF TypeInv
<1>1. ASSUME NEW does \in Handlers, Load(does) PROVE TypeInv'
  <2>1. IsABag(requests)' /\ BagToSet(requests)' = BagToSet(requests) \cup {[does |-> does, loaded |-> Loaded(does)]}
    BY <1>1, BagGrows DEF Load, TypeOK
  <2>2. [does |-> does, loaded |-> Loaded(does)] \in [does : Handlers, loaded : Columns]
    BY LoadedType DEF TypeOK
  <2> QED
    BY <1>1, <2>1, <2>2 DEF Load, TypeOK, WaitsForSource
<1>2. ASSUME NEW q \in BagToSet(requests), Answer(q)
      PROVE  IsABag(requests)' /\ BagToSet(requests)' \subseteq [does : Handlers, loaded : Columns]
  BY <1>2, BagShrinks DEF Answer, TypeOK
<1>3. ASSUME NEW q \in BagToSet(requests) PROVE q.loaded \in Columns /\ q.does \in Handlers
  BY <1>3 DEF TypeOK
<1>4. ASSUME NEW q \in BagToSet(requests), WithdrawConsent(q) PROVE TypeInv'
  BY <1>2, <1>3, <1>4, FlushType, RowTypes DEF WithdrawConsent, TypeOK, WaitsForSource
<1>5. ASSUME NEW q \in BagToSet(requests), AcceptAgain(q) PROVE TypeInv'
  BY <1>2, <1>3, <1>5, FlushType, RowTypes DEF AcceptAgain, TypeOK, WaitsForSource
<1>6. ASSUME NEW q \in BagToSet(requests), AcceptFirst(q) PROVE TypeInv'
  <2>1. PICK i \in Runs : user' = Flush(q.loaded, StartPoolImport(Accepted(q.loaded), i)) /\ Queue(i, TRUE)
    BY <1>6 DEF AcceptFirst
  <2>2. user' \in Columns
    BY <1>3, <2>1, FlushType, RowTypes DEF TypeOK
  <2>3. IsABag(requests)' /\ BagToSet(requests)' \subseteq [does : Handlers, loaded : Columns]
    BY <1>2, <1>6 DEF AcceptFirst
  <2>4. run' \in [Runs -> RunRecords] /\ WaitsForSource'
    BY <2>1, QueueType
  <2>5. age' \in 0 .. StaleAfter + 1
    BY <1>6, Zeros DEF AcceptFirst
  <2> QED
    BY <1>6, <2>2, <2>3, <2>4, <2>5 DEF AcceptFirst, TypeOK, RunRecords
<1>7. ASSUME NEW q \in BagToSet(requests), RetryPoolImport(q) PROVE TypeInv'
  <2>1. PICK i \in Runs : user' = Flush(q.loaded, StartPoolImport(q.loaded, i)) /\ Queue(i, TRUE)
    BY <1>7 DEF RetryPoolImport
  <2>2. user' \in Columns
    BY <1>3, <2>1, FlushType, RowTypes DEF TypeOK
  <2>3. IsABag(requests)' /\ BagToSet(requests)' \subseteq [does : Handlers, loaded : Columns]
    BY <1>2, <1>7 DEF RetryPoolImport
  <2>4. run' \in [Runs -> RunRecords] /\ WaitsForSource'
    BY <2>1, QueueType
  <2>5. age' \in 0 .. StaleAfter + 1
    BY <1>7, Zeros DEF RetryPoolImport
  <2> QED
    BY <1>7, <2>2, <2>3, <2>4, <2>5 DEF RetryPoolImport, TypeOK, RunRecords
<1>8. ASSUME NEW q \in BagToSet(requests), Refused(q) PROVE TypeInv'
  BY <1>2, <1>8 DEF Refused, TypeOK, WaitsForSource
<1>9. CASE SyncProviders
  BY <1>9, QueueType DEF SyncProviders, TypeOK, RunRecords
<1>10. CASE SignIn
  BY <1>10, QueueType DEF SignIn, TypeOK, RunRecords
<1>11. ASSUME NEW i \in Runs, Fetch(i) PROVE TypeInv'
  BY <1>11 DEF Fetch, CommitUpserts, TypeOK, Going, WaitsForSource
<1>12. ASSUME NEW i \in Runs, Upsert(i) PROVE TypeInv'
  <2>1. PICK failed \in BOOLEAN, some \in BOOLEAN : run' = [run EXCEPT ![i] = Arrived(i, failed, some)]
    BY <1>12 DEF Upsert
  <2>2. Arrived(i, failed, some) \in RunRecords /\ Arrived(i, failed, some).phase # "waiting"
    <3>1. run[i] \in RunRecords
      BY DEF TypeOK, RunRecords
    <3>2. run[i].next \in 1 .. Sources /\ run[i].next + 1 \in 1 .. Sources + 1
      BY <1>12, <3>1, BoundsAssumption DEF Upsert, WaitsForSource, RunRecords
    <3>3. CASE some /\ exists /\ (run[i].failed \/ (failed /\ run[i].recorded))
      BY <3>1, <3>2, <3>3 DEF Arrived, RunRecords, Going
    <3>4. CASE some /\ exists /\ ~(run[i].failed \/ (failed /\ run[i].recorded))
      BY <3>1, <3>2, <3>4 DEF Arrived, RunRecords, Going
    <3>5. CASE ~(some /\ exists) /\ (run[i].failed \/ (failed /\ run[i].recorded))
      BY <3>1, <3>2, <3>5 DEF Arrived, RunRecords, Going
    <3>6. CASE ~(some /\ exists) /\ ~(run[i].failed \/ (failed /\ run[i].recorded))
      BY <3>1, <3>2, <3>6 DEF Arrived, RunRecords, Going
    <3> QED
      BY <3>3, <3>4, <3>5, <3>6
  <2> QED
    BY <1>12, <2>1, <2>2 DEF Upsert, TypeOK, RunRecords, WaitsForSource
<1>13. ASSUME NEW i \in Runs, Leave(i) PROVE TypeInv'
  BY <1>13 DEF Leave, CommitUpserts, TypeOK, Going, WaitsForSource
<1>14. ASSUME NEW i \in Runs, NEW outcome \in Statuses, RecordPoolImportOutcome(i, outcome)
       PROVE  user' \in Columns /\ age' \in 0 .. StaleAfter + 1
  BY <1>14, BoundsAssumption DEF RecordPoolImportOutcome, TypeOK, Columns
<1>15. ASSUME NEW i \in Runs, FinishRun(i) PROVE TypeInv'
  <2>1. CASE exists
    BY <1>14, <1>15, <2>1, EndType DEF FinishRun, Outcome, Statuses, TypeOK, RunRecords
  <2>2. CASE ~exists
    BY <1>15, <2>2 DEF FinishRun, TypeOK, Going, WaitsForSource
  <2> QED
    BY <2>1, <2>2
<1>16. ASSUME NEW i \in Runs, Raise(i) PROVE TypeInv'
  <2>1. CASE run[i].recorded
    BY <1>16, <2>1 DEF Raise, TypeOK, Going, WaitsForSource
  <2>2. CASE ~run[i].recorded
    BY <1>16, <2>2, EndType DEF Raise, TypeOK, RunRecords
  <2> QED
    BY <2>1, <2>2
<1>17. ASSUME NEW i \in Runs, RecordFailure(i) PROVE TypeInv'
  BY <1>14, <1>17, EndType DEF RecordFailure, Statuses, TypeOK, RunRecords
<1>18. CASE Tick
  BY <1>18, BoundsAssumption, WorstCaseAssumption DEF Tick, Stale, TypeOK, Going, WaitsForSource
<1>19. CASE Deploy
  <2>1. user' \in Columns
    BY <1>19 DEF Deploy, TypeOK, Columns, Versions
  <2>2. run' \in [Runs -> RunRecords] /\ WaitsForSource'
    BY <1>19, OverType DEF Deploy, TypeOK, RunRecords, WaitsForSource
  <2> QED
    BY <1>19, <2>1, <2>2, BoundsAssumption DEF Deploy, TypeOK, RunRecords, EmptyBag, SetToBag, IsABag, BagToSet
<1>20. CASE Delete
  <2>1. user' \in Columns
    BY <1>20, RowTypes DEF Delete
  <2>2. age' \in 0 .. StaleAfter + 1
    BY <1>20, Zeros DEF Delete
  <2>3. exists' \in BOOLEAN /\ library' \subseteq 1 .. Sources
    BY <1>20 DEF Delete
  <2> QED
    BY <1>20, <2>1, <2>2, <2>3 DEF Delete, TypeOK, WaitsForSource
<1>21. CASE UNCHANGED vars
  BY <1>21 DEF vars, TypeOK, WaitsForSource
<1> QED
  BY <1>1, <1>4, <1>5, <1>6, <1>7, <1>8, <1>9, <1>10, <1>11, <1>12, <1>13, <1>15, <1>16, <1>17,
     <1>18, <1>19, <1>20, <1>21
  DEF Next, DeleteAccount, PurgeUnconsentedAccount

LEMMA TypeInit == Init => TypeInv
<1> SUFFICES ASSUME Init PROVE TypeInv
  OBVIOUS
<1>1. user \in Columns /\ library \subseteq 1 .. Sources /\ consented \in BOOLEAN
  <2>1. NoRow \in Columns
    BY RowTypes
  <2>2. CASE user = NoRow /\ library = {}
    BY <2>1, <2>2 DEF Init, Columns
  <2>3. CASE user = [NoRow EXCEPT !.accepted = TRUE, !.version = "old"] /\ library = 1 .. Sources
    BY <2>1, <2>3 DEF Init, Columns, Versions
  <2> QED
    BY <2>2, <2>3 DEF Init
<1>2. NoRun \in RunRecords /\ NoRun.phase # "waiting"
  BY Zeros DEF NoRun, RunRecords, Going
<1>3. IsABag(requests) /\ BagToSet(requests) \subseteq [does : Handlers, loaded : Columns]
  BY DEF Init, EmptyBag, SetToBag, IsABag, BagToSet
<1> QED
  BY <1>1, <1>2, <1>3, Zeros DEF Init, TypeInv, TypeOK, RunRecords, WaitsForSource

\* The types of the row, the requests in flight and the runs always hold, and
\* a run waits only for a source there is.
THEOREM TypesHold == Spec => []TypeInv
<1> QED
  BY TypeInit, TypeStep, PTL DEF Spec

\* A run never asks for a source beyond the last, and every column keeps to its
\* values, whatever requests, runs and deploys interleave.
THEOREM TypeCorrect == Spec => []TypeOK
<1>1. TypeInv => TypeOK
  BY DEF TypeInv
<1> QED
  BY TypesHold, <1>1, PTL
-----------------------------------------------------------------------------
(* An outcome is recorded by the stamped run only *)

\* The value a flush leaves in the two columns the proofs are about.
LEMMA FlushFields ==
    ASSUME user \in Columns, NEW loaded \in Columns, NEW changed \in Columns
    PROVE  /\ Flush(loaded, changed).status =
                (IF changed.status = loaded.status THEN user.status ELSE changed.status)
           /\ changed.accepted = loaded.accepted => Flush(loaded, changed).accepted = user.accepted
           /\ changed.accepted # loaded.accepted => Flush(loaded, changed).accepted = changed.accepted
    BY DEF Flush, Columns

\* No request writes "complete" or "failed": what a handler sends is "importing".
LEMMA RequestsOnlyStart ==
    ASSUME TypeOK, NEW q \in BagToSet(requests),
           WithdrawConsent(q) \/ AcceptAgain(q) \/ AcceptFirst(q) \/ RetryPoolImport(q)
    PROVE  user'.status \in {user.status, "importing"}
<1>1. user \in Columns /\ q.loaded \in Columns
  BY DEF TypeOK
<1>2. CASE WithdrawConsent(q)
  <2>1. Withdrawn(q.loaded) \in Columns /\ Withdrawn(q.loaded).status = q.loaded.status
    BY <1>1, RowTypes DEF Withdrawn, Columns
  <2> QED
    BY <1>1, <1>2, <2>1, FlushFields DEF WithdrawConsent
<1>3. CASE AcceptAgain(q)
  <2>1. Accepted(q.loaded) \in Columns /\ Accepted(q.loaded).status = q.loaded.status
    BY <1>1, RowTypes DEF Accepted, Columns
  <2> QED
    BY <1>1, <1>3, <2>1, FlushFields DEF AcceptAgain
<1>4. ASSUME NEW row \in Columns, NEW i \in Runs
      PROVE  StartPoolImport(row, i) \in Columns /\ StartPoolImport(row, i).status = "importing"
  BY <1>4, RowTypes DEF StartPoolImport, Columns
<1>5. CASE AcceptFirst(q)
  <2>1. PICK i \in Runs : user' = Flush(q.loaded, StartPoolImport(Accepted(q.loaded), i))
    BY <1>5 DEF AcceptFirst
  <2>2. Accepted(q.loaded) \in Columns
    BY <1>1, RowTypes
  <2> QED
    BY <1>1, <1>4, <2>1, <2>2, FlushFields
<1>6. CASE RetryPoolImport(q)
  BY <1>1, <1>4, <1>6, FlushFields DEF RetryPoolImport
<1> QED
  BY <1>2, <1>3, <1>5, <1>6

\* An outcome is written by the run whose number is stamped on the row, and
\* that run is over with the same step.
LEMMA StampedStep == TypeInv /\ Next =>
    (exists' /\ user'.status # user.status /\ user'.status \in {"complete", "failed"}
       => \E i \in Runs : /\ i = user.startedAt /\ run[i].recorded
                          /\ run[i].phase \in Going /\ run'[i].phase \notin Going)
<1> SUFFICES ASSUME TypeInv, Next, exists', user'.status # user.status,
                    user'.status \in {"complete", "failed"}
             PROVE  \E i \in Runs : /\ i = user.startedAt /\ run[i].recorded
                                    /\ run[i].phase \in Going /\ run'[i].phase \notin Going
  OBVIOUS
<1> USE DEF TypeInv
<1>1. ASSUME NEW i \in Runs, NEW outcome, NEW phase \in {"ended", "broken"},
             RecordPoolImportOutcome(i, outcome), End(i, phase), run[i].phase \in Going
      PROVE  \E j \in Runs : /\ j = user.startedAt /\ run[j].recorded
                             /\ run[j].phase \in Going /\ run'[j].phase \notin Going
  <2>1. user.startedAt = i /\ run[i].recorded
    BY <1>1 DEF RecordPoolImportOutcome
  <2>2. run'[i].phase = phase
    BY <1>1, OverType DEF End, TypeOK
  <2> QED
    BY <1>1, <2>1, <2>2 DEF Going
<1>2. ASSUME NEW i \in Runs, FinishRun(i) PROVE run[i].phase \in Going /\ RecordPoolImportOutcome(i, Outcome(i)) /\ End(i, "ended")
  BY <1>2 DEF FinishRun, Going
<1>3. ASSUME NEW i \in Runs, RecordFailure(i)
      PROVE  run[i].phase \in Going /\ RecordPoolImportOutcome(i, "failed") /\ End(i, "broken")
  BY <1>3 DEF RecordFailure, Going
<1>4. ASSUME Deploy PROVE FALSE
  BY <1>4 DEF Deploy, TypeOK, Columns
<1>5. ASSUME Delete PROVE FALSE
  BY <1>5 DEF Delete
<1>6. ASSUME NEW q \in BagToSet(requests),
             WithdrawConsent(q) \/ AcceptAgain(q) \/ AcceptFirst(q) \/ RetryPoolImport(q)
      PROVE  FALSE
  BY <1>6, RequestsOnlyStart
<1>7. ASSUME user' = user PROVE FALSE
  BY <1>7
<1> QED
  BY <1>1, <1>2, <1>3, <1>4, <1>5, <1>6, <1>7
  DEF Next, Load, Refused, SyncProviders, SignIn, Fetch, Upsert, Leave, CommitUpserts, Raise, Tick,
      DeleteAccount, PurgeUnconsentedAccount

\* A superseded run never overwrites the status of the import that took its
\* place: "complete" and "failed" come only from the run stamped on the row.
THEOREM StampedOutcomes == Spec => OutcomeOfStampedRun
<1>1. TypeInv /\ [Next]_vars =>
        [exists' /\ user'.status # user.status /\ user'.status \in {"complete", "failed"}
          => \E i \in Runs : /\ i = user.startedAt /\ run[i].recorded
                             /\ run[i].phase \in Going /\ run'[i].phase \notin Going]_vars
  BY StampedStep DEF vars
<1> QED
  BY TypesHold, <1>1, PTL DEF Spec, OutcomeOfStampedRun
-----------------------------------------------------------------------------
(* Consent comes first, and stays remembered *)

\* What a request that was let in, or the row, says about a past consent, and
\* what tells an account that consented from one that never did.
AcceptedWasConsented == user.accepted => consented
RetryWasConsented == \A q \in BagToSet(requests) : q.does = "retry" => consented
ConsentLeavesTrace == exists /\ consented => user.status # "none" \/ library # {}
StatusIsKept ==
    exists => \A q \in BagToSet(requests) : q.loaded.status # "none" => user.status # "none"

ConsentInv ==
    /\ NoImportBeforeConsent /\ AcceptedWasConsented /\ RetryWasConsented
    /\ ConsentLeavesTrace /\ StatusIsKept

LEMMA ConsentInit == Init => ConsentInv
<1> SUFFICES ASSUME Init PROVE ConsentInv
  OBVIOUS
<1>1. BagToSet(requests) = {}
  BY DEF Init, EmptyBag, SetToBag, BagToSet
<1>2. \A i \in Runs : run[i].phase = "unused"
  BY DEF Init, NoRun
<1>3. CASE user = NoRow /\ library = {}
  BY <1>1, <1>2, <1>3 DEF Init, ConsentInv, NoImportBeforeConsent, AcceptedWasConsented,
     RetryWasConsented, ConsentLeavesTrace, StatusIsKept, NoRow
<1>4. CASE user = [NoRow EXCEPT !.accepted = TRUE, !.version = "old"] /\ library = 1 .. Sources
  <2>1. user.accepted
    BY <1>4 DEF NoRow
  <2>2. library # {}
    BY <1>4, BoundsAssumption
  <2> QED
    BY <1>1, <2>1, <2>2 DEF Init, ConsentInv, NoImportBeforeConsent, AcceptedWasConsented,
       RetryWasConsented, ConsentLeavesTrace, StatusIsKept
<1> QED
  BY <1>3, <1>4 DEF Init

\* A step that leaves the row and the requests alone needs to respect only
\* that imports and films come after consent, and that films stay.
LEMMA ConsentQuiet ==
    ASSUME ConsentInv, UNCHANGED <<exists, user, consented>>,
           BagToSet(requests)' \subseteq BagToSet(requests), library \subseteq library',
           consented \/ (library' = {} /\ \A i \in Runs : run'[i].phase = "unused")
    PROVE  ConsentInv'
  BY DEF ConsentInv, NoImportBeforeConsent, AcceptedWasConsented, RetryWasConsented,
         ConsentLeavesTrace, StatusIsKept

\* A request that is answered keeps the status set once it is set, and the row
\* accepted only by a consent.
LEMMA RowAnswers ==
    ASSUME TypeInv, ConsentInv, NEW q \in BagToSet(requests),
           WithdrawConsent(q) \/ AcceptAgain(q) \/ AcceptFirst(q) \/ RetryPoolImport(q)
    PROVE  /\ user.status # "none" => user'.status # "none"
           /\ user'.accepted => user.accepted \/ AcceptFirst(q)
           /\ AcceptFirst(q) \/ RetryPoolImport(q) => user'.status # "none"
<1>1. user \in Columns /\ q.loaded \in Columns
  BY DEF TypeInv, TypeOK
<1>2. user.status # "none" => user'.status # "none"
  BY RequestsOnlyStart DEF TypeInv
<1>3. CASE WithdrawConsent(q)
  <2>1. Withdrawn(q.loaded) \in Columns /\ ~Withdrawn(q.loaded).accepted
    BY <1>1, RowTypes DEF Withdrawn, Columns
  <2> QED
    BY <1>1, <1>2, <1>3, <2>1, FlushFields DEF WithdrawConsent, AcceptFirst, RetryPoolImport
<1>4. CASE AcceptAgain(q)
  <2>1. Accepted(q.loaded) \in Columns /\ Accepted(q.loaded).accepted = q.loaded.accepted
    BY <1>1, <1>4, RowTypes DEF Accepted, AcceptAgain, Columns
  <2> QED
    BY <1>1, <1>2, <1>4, <2>1, FlushFields DEF AcceptAgain, AcceptFirst, RetryPoolImport
<1>5. ASSUME NEW row \in Columns, NEW i \in Runs
      PROVE  /\ StartPoolImport(row, i) \in Columns /\ StartPoolImport(row, i).status = "importing"
             /\ StartPoolImport(row, i).accepted = row.accepted
  BY <1>5, RowTypes DEF StartPoolImport, Columns
<1>6. q.loaded.status # "none" => user.status # "none"
  BY DEF ConsentInv, StatusIsKept, AcceptFirst, RetryPoolImport, WithdrawConsent, AcceptAgain
<1>7. CASE AcceptFirst(q)
  <2>1. PICK i \in Runs : user' = Flush(q.loaded, StartPoolImport(Accepted(q.loaded), i))
    BY <1>7 DEF AcceptFirst
  <2>2. Accepted(q.loaded) \in Columns
    BY <1>1, RowTypes
  <2>3. user'.status = (IF q.loaded.status = "importing" THEN user.status ELSE "importing")
    BY <1>1, <1>5, <2>1, <2>2, FlushFields
  <2> QED
    BY <1>6, <1>7, <2>3
<1>8. CASE RetryPoolImport(q)
  <2>1. PICK i \in Runs : user' = Flush(q.loaded, StartPoolImport(q.loaded, i))
    BY <1>8 DEF RetryPoolImport
  <2>2. user'.status = (IF q.loaded.status = "importing" THEN user.status ELSE "importing")
    BY <1>1, <1>5, <2>1, FlushFields
  <2>3. user'.accepted = user.accepted
    BY <1>1, <1>5, <2>1, FlushFields
  <2> QED
    BY <1>6, <1>8, <2>2, <2>3
<1> QED
  BY <1>3, <1>4, <1>7, <1>8

LEMMA ConsentStep == TypeInv /\ ConsentInv /\ [Next]_vars => ConsentInv'
<1> SUFFICES ASSUME TypeInv, ConsentInv, [Next]_vars PROVE ConsentInv'
  OBVIOUS
<1>1. IsABag(requests) /\ user \in Columns
  BY DEF TypeInv, TypeOK
<1>2. consented \/ (library = {} /\ \A i \in Runs : run[i].phase = "unused")
  BY DEF ConsentInv, NoImportBeforeConsent
<1>3. ASSUME NEW does \in Handlers, Load(does) PROVE ConsentInv'
  <2> DEFINE new == [does |-> does, loaded |-> Loaded(does)]
  <2>1. BagToSet(requests)' = BagToSet(requests) \cup {new}
    BY <1>1, <1>3, BagGrows DEF Load
  <2>2. new.loaded.status # "none" => user.status # "none"
    BY <1>1 DEF Loaded, NoRow, Columns
  <2>3. new.does = "retry" => consented
    BY <1>3 DEF Load, HasWork, HasCurrentConsent, ConsentInv, AcceptedWasConsented
  <2> QED
    BY <1>3, <2>1, <2>2, <2>3
    DEF Load, ConsentInv, NoImportBeforeConsent, AcceptedWasConsented, RetryWasConsented,
        ConsentLeavesTrace, StatusIsKept
<1>4. ASSUME NEW q \in BagToSet(requests), Answer(q) PROVE BagToSet(requests)' \subseteq BagToSet(requests)
  BY <1>1, <1>4, BagShrinks DEF Answer
<1>5. ASSUME NEW q \in BagToSet(requests), WithdrawConsent(q) \/ AcceptAgain(q) PROVE ConsentInv'
  <2>1. /\ BagToSet(requests)' \subseteq BagToSet(requests)
        /\ UNCHANGED <<exists, library, run, consented>>
    BY <1>4, <1>5 DEF WithdrawConsent, AcceptAgain
  <2>2. user'.accepted => user.accepted
    BY <1>5, RowAnswers DEF WithdrawConsent, AcceptAgain, AcceptFirst
  <2> QED
    BY <1>5, <2>1, <2>2, RowAnswers
    DEF ConsentInv, NoImportBeforeConsent, AcceptedWasConsented, RetryWasConsented,
        ConsentLeavesTrace, StatusIsKept
<1>6. ASSUME NEW q \in BagToSet(requests), AcceptFirst(q) \/ RetryPoolImport(q) PROVE ConsentInv'
  <2>1. BagToSet(requests)' \subseteq BagToSet(requests) /\ UNCHANGED <<exists, library>>
    BY <1>4, <1>6 DEF AcceptFirst, RetryPoolImport
  <2>2. consented'
    <3>1. CASE AcceptFirst(q)
      BY <3>1 DEF AcceptFirst
    <3>2. CASE RetryPoolImport(q)
      BY <3>2 DEF RetryPoolImport, ConsentInv, RetryWasConsented
    <3> QED
      BY <1>6, <3>1, <3>2
  <2> QED
    BY <1>6, <2>1, <2>2, RowAnswers
    DEF ConsentInv, NoImportBeforeConsent, AcceptedWasConsented, RetryWasConsented,
        ConsentLeavesTrace, StatusIsKept
<1>7. ASSUME NEW q \in BagToSet(requests), Refused(q) PROVE ConsentInv'
  BY <1>2, <1>4, <1>7, ConsentQuiet DEF Refused
<1>8. CASE SyncProviders \/ SignIn
  <2>1. consented
    BY <1>8 DEF SyncProviders, SignIn, HasCurrentConsent, MayResync, ConsentInv, AcceptedWasConsented
  <2> QED
    BY <1>8, <2>1, ConsentQuiet DEF SyncProviders, SignIn
<1>9. ASSUME NEW i \in Runs, Fetch(i) \/ Leave(i) \/ Upsert(i) \/ Raise(i) PROVE ConsentInv'
  <2>1. consented
    BY <1>2, <1>9 DEF Fetch, Leave, Upsert, Raise
  <2> QED
    BY <1>9, <2>1, ConsentQuiet DEF Fetch, Leave, CommitUpserts, Upsert, Raise
<1>10. ASSUME NEW i \in Runs, FinishRun(i) \/ RecordFailure(i) PROVE ConsentInv'
  <2>1. consented
    BY <1>2, <1>10 DEF FinishRun, RecordFailure
  <2>2. user' = user \/ (user'.accepted = user.accepted /\ user'.status # "none")
    BY <1>1, <1>10 DEF FinishRun, RecordFailure, RecordPoolImportOutcome, Outcome, Columns
  <2>3. UNCHANGED <<exists, library, requests, consented>>
    BY <1>10 DEF FinishRun, RecordFailure
  <2> QED
    BY <2>1, <2>2, <2>3
    DEF ConsentInv, NoImportBeforeConsent, AcceptedWasConsented,
        RetryWasConsented, ConsentLeavesTrace, StatusIsKept
<1>11. CASE Tick
  <2>1. (\A i \in Runs : run[i].phase = "unused") => \A i \in Runs : run'[i].phase = "unused"
    BY <1>11 DEF Tick, Going
  <2> QED
    BY <1>2, <1>11, <2>1, ConsentQuiet DEF Tick
<1>12. CASE Deploy
  <2>1. (\A i \in Runs : run[i].phase = "unused") => \A i \in Runs : run'[i].phase = "unused"
    BY <1>12 DEF Deploy, Going
  <2>2. BagToSet(requests)' = {}
    BY <1>12 DEF Deploy, EmptyBag, SetToBag, BagToSet
  <2>3. user'.accepted = user.accepted /\ user'.status = user.status
    BY <1>1, <1>12 DEF Deploy, Columns
  <2> QED
    BY <1>2, <1>12, <2>1, <2>2, <2>3
    DEF Deploy, ConsentInv, NoImportBeforeConsent, AcceptedWasConsented, RetryWasConsented,
        ConsentLeavesTrace, StatusIsKept
<1>13. CASE Delete
  <2>1. ~user'.accepted
    BY <1>13 DEF Delete, NoRow
  <2> QED
    BY <1>13, <2>1
    DEF Delete, ConsentInv, NoImportBeforeConsent, AcceptedWasConsented, RetryWasConsented,
        ConsentLeavesTrace, StatusIsKept
<1>14. CASE UNCHANGED vars
  BY <1>2, <1>14, ConsentQuiet DEF vars
<1> QED
  BY <1>3, <1>5, <1>6, <1>7, <1>8, <1>9, <1>10, <1>11, <1>12, <1>13, <1>14
  DEF Next, DeleteAccount, PurgeUnconsentedAccount

\* What is remembered of a consent holds in every state.
THEOREM ConsentHolds == Spec => []ConsentInv
<1> QED
  BY TypesHold, ConsentInit, ConsentStep, PTL DEF Spec

\* Nothing of a provider is stored, and no import runs, before the user has
\* accepted a policy, however requests, retries and sign-ins overlap.
THEOREM ConsentFirst == Spec => []NoImportBeforeConsent
<1>1. ConsentInv => NoImportBeforeConsent
  BY DEF ConsentInv
<1> QED
  BY ConsentHolds, <1>1, PTL

\* An account that ever consented keeps a status or a film: the purge of
\* accounts that never did passes it by, also once consent is withdrawn.
THEOREM PurgeSafe == Spec => []PurgeSparesConsented
<1>1. ConsentInv => PurgeSparesConsented
  BY DEF ConsentInv, ConsentLeavesTrace, PurgeSparesConsented, Purgeable
<1> QED
  BY ConsentHolds, <1>1, PTL
-----------------------------------------------------------------------------
(* "complete" means that everything arrived *)

\* A recorded run that lost nothing has every source before its next one in
\* the library or among what it will commit.
Gathered(i) ==
    /\ run[i].phase = "unused" => run[i].next = 1
    /\ run[i].phase \in {"waiting", "leaving"} => run[i].pending = {}
    /\ run[i].phase = "leaving" => run[i].next = Sources + 1
    /\ exists /\ run[i].recorded /\ ~run[i].failed /\ run[i].phase \in {"fetching", "waiting", "leaving"}
         => 1 .. run[i].next - 1 \subseteq library \cup run[i].pending

AllGathered == \A i \in Runs : Gathered(i)

NoStatusWithoutRow == ~exists => user.status = "none"

CompleteInv == AllGathered /\ NoStatusWithoutRow /\ CompleteIsTrue

LEMMA CompleteInit == Init => CompleteInv
<1> SUFFICES ASSUME Init PROVE CompleteInv
  OBVIOUS
<1>1. exists
  BY DEF Init
<1>2. user.status = "none"
  <2>1. CASE user = NoRow
    BY <2>1 DEF NoRow
  <2>2. CASE user = [NoRow EXCEPT !.accepted = TRUE, !.version = "old"]
    BY <2>2 DEF NoRow
  <2> QED
    BY <2>1, <2>2 DEF Init
<1>3. ASSUME NEW i \in Runs PROVE run[i].phase = "unused" /\ run[i].next = 1
  BY <1>3 DEF Init, NoRun
<1> QED
  BY <1>1, <1>2, <1>3 DEF CompleteInv, AllGathered, Gathered, NoStatusWithoutRow, CompleteIsTrue

LEMMA GatheredKept ==
    ASSUME NEW i \in Runs, Gathered(i), run'[i] = run[i], library \subseteq library', exists' => exists
    PROVE  Gathered(i)'
  BY DEF Gathered

\* A run that is over, or has given up, has nothing more to answer for.
LEMMA GatheredOver ==
    ASSUME NEW i \in Runs, run'[i].phase \in {"ended", "broken", "raised"}
    PROVE  Gathered(i)'
  BY DEF Gathered

\* What one run does to its own record keeps every record gathered.
LEMMA OneRunGathered ==
    ASSUME TypeInv, AllGathered, NEW i \in Runs, NEW r, run' = [run EXCEPT ![i] = r],
           library \subseteq library', exists' => exists, Gathered(i)'
    PROVE  AllGathered'
<1>1. ASSUME NEW j \in Runs, j # i PROVE Gathered(j)'
  <2>1. run'[j] = run[j]
    BY <1>1 DEF TypeInv, TypeOK
  <2> QED
    BY <1>1, <2>1, GatheredKept DEF AllGathered
<1> QED
  BY <1>1 DEF AllGathered

LEMMA QueueGathered ==
    ASSUME TypeInv, AllGathered, NEW i \in Runs, NEW recorded \in BOOLEAN, Queue(i, recorded),
           UNCHANGED <<exists, library>>
    PROVE  AllGathered'
<1>1. run[i].phase = "unused" /\ run[i].next = 1
  BY DEF Queue, Fresh, AllGathered, Gathered
<1>2. run'[i].phase = "fetching" /\ run'[i].next = 1
  BY <1>1 DEF Queue, TypeInv, TypeOK
<1>3. Gathered(i)'
  BY <1>2 DEF Gathered
<1>4. run' = [run EXCEPT ![i] = run'[i]]
  BY DEF Queue, TypeInv, TypeOK
<1> QED
  BY <1>3, <1>4, OneRunGathered

LEMMA CommitGathered ==
    ASSUME TypeInv, AllGathered, NEW i \in Runs, Fetch(i) \/ Leave(i)
    PROVE  AllGathered'
<1> PICK phase \in {"waiting", "leaving"} :
      /\ CommitUpserts(i, phase) /\ run[i].phase = "fetching"
      /\ phase = "leaving" => run[i].next > Sources
  BY DEF Fetch, Leave
<1>1. /\ run'[i].phase = phase /\ run'[i].pending = {} /\ run'[i].next = run[i].next
      /\ run'[i].recorded = run[i].recorded /\ run'[i].failed = run[i].failed
  BY DEF CommitUpserts, TypeInv, TypeOK
<1>2. run[i].next \in 1 .. Sources + 1
  BY DEF TypeInv, TypeOK
<1>3. phase = "leaving" => run'[i].next = Sources + 1
  BY <1>1, <1>2, BoundsAssumption
<1>4. library' = library \cup run[i].pending /\ exists' = exists
  BY DEF CommitUpserts
<1>5. Gathered(i)'
  BY <1>1, <1>3, <1>4 DEF AllGathered, Gathered
<1>6. run' = [run EXCEPT ![i] = run'[i]]
  BY DEF CommitUpserts, TypeInv, TypeOK
<1> QED
  BY <1>4, <1>5, <1>6, OneRunGathered

LEMMA UpsertGathered ==
    ASSUME TypeInv, AllGathered, NEW i \in Runs, Upsert(i)
    PROVE  AllGathered'
<1>1. PICK failed \in BOOLEAN, some \in BOOLEAN :
        (failed \/ some) /\ run' = [run EXCEPT ![i] = Arrived(i, failed, some)]
  BY DEF Upsert
<1>2. run[i].phase = "waiting" /\ run[i].pending = {}
  BY DEF Upsert, AllGathered, Gathered
<1>3. run'[i] = Arrived(i, failed, some)
  BY <1>1 DEF TypeInv, TypeOK
<1>4. exists' = exists /\ library' = library
  BY DEF Upsert
<1>5. Gathered(i)'
  <2>1. CASE some /\ ~exists
    BY <1>3, <1>4, <2>1 DEF Arrived, Gathered, TypeInv, TypeOK
  <2>2. CASE some /\ exists
    <3>1. /\ run'[i].phase = "fetching" /\ run'[i].next = run[i].next + 1
          /\ run'[i].pending = {run[i].next}
          /\ run'[i].recorded = run[i].recorded /\ (~run'[i].failed => ~run[i].failed)
      BY <1>3, <2>2 DEF Arrived, TypeInv, TypeOK
    <3>2. run[i].next \in Nat
      BY BoundsAssumption DEF TypeInv, TypeOK
    <3>3. run[i].recorded /\ ~run[i].failed => 1 .. run[i].next - 1 \subseteq library
      BY <1>2, <2>2 DEF AllGathered, Gathered
    <3>4. 1 .. run'[i].next - 1 \subseteq (1 .. run[i].next - 1) \cup {run[i].next}
      BY <3>1, <3>2
    <3> QED
      BY <1>4, <3>1, <3>3, <3>4 DEF Gathered
  <2>3. CASE ~some
    <3>1. /\ run'[i].phase = "fetching" /\ run'[i].recorded = run[i].recorded
          /\ run[i].recorded => run'[i].failed
      BY <1>1, <1>3, <2>3 DEF Arrived, TypeInv, TypeOK
    <3> QED
      BY <3>1 DEF Gathered
  <2> QED
    BY <2>1, <2>2, <2>3
<1> QED
  BY <1>1, <1>4, <1>5, OneRunGathered

\* Every action keeps every record gathered.
LEMMA AllGatheredStep == TypeInv /\ AllGathered /\ Next => AllGathered'
<1> SUFFICES ASSUME TypeInv, AllGathered, Next PROVE AllGathered'
  OBVIOUS
<1>1. ASSUME UNCHANGED <<exists, library, run>> PROVE AllGathered'
  BY <1>1 DEF AllGathered, Gathered
<1>2. ASSUME NEW i \in Runs, NEW phase \in {"ended", "broken"}, End(i, phase), UNCHANGED <<exists, library>>
      PROVE  AllGathered'
  <2>1. run'[i].phase = phase
    BY <1>2, OverType DEF End, TypeInv, TypeOK
  <2> QED
    BY <1>2, <2>1, GatheredOver, OneRunGathered DEF End
<1>3. ASSUME NEW i \in Runs, run' = [run EXCEPT ![i].phase = "raised"], UNCHANGED <<exists, library>>
      PROVE  AllGathered'
  <2>1. run'[i].phase = "raised" /\ run' = [run EXCEPT ![i] = run'[i]]
    BY <1>3 DEF TypeInv, TypeOK
  <2> QED
    BY <1>3, <2>1, GatheredOver, OneRunGathered
<1>4. ASSUME NEW i \in Runs, run' = [run EXCEPT ![i].phase = "raised", ![i].pending = {}],
             UNCHANGED <<exists, library>>
      PROVE  AllGathered'
  <2>1. run'[i].phase = "raised" /\ run' = [run EXCEPT ![i] = run'[i]]
    BY <1>4 DEF TypeInv, TypeOK
  <2> QED
    BY <1>4, <2>1, GatheredOver, OneRunGathered
<1>5. ASSUME NEW q \in BagToSet(requests), AcceptFirst(q) \/ RetryPoolImport(q) PROVE AllGathered'
  BY <1>5, QueueGathered DEF AcceptFirst, RetryPoolImport
<1>6. CASE SyncProviders \/ SignIn
  BY <1>6, QueueGathered DEF SyncProviders, SignIn
<1>7. ASSUME NEW i \in Runs, FinishRun(i) \/ Raise(i) \/ RecordFailure(i) PROVE AllGathered'
  BY <1>2, <1>3, <1>4, <1>7 DEF FinishRun, Raise, RecordFailure
<1>8. CASE Tick
  <2>1. ASSUME NEW i \in Runs
        PROVE  /\ run'[i].phase = run[i].phase /\ run'[i].next = run[i].next
               /\ run'[i].pending = run[i].pending /\ run'[i].recorded = run[i].recorded
               /\ run'[i].failed = run[i].failed
    BY <1>8, <2>1 DEF Tick, TypeInv, TypeOK
  <2> QED
    BY <1>8, <2>1 DEF Tick, AllGathered, Gathered
<1>9. CASE Deploy
  <2>1. ASSUME NEW i \in Runs PROVE Gathered(i)'
    <3>1. CASE run[i].phase \in Going
      BY <1>9, <3>1, OverType, GatheredOver DEF Deploy, TypeInv
    <3>2. CASE run[i].phase \notin Going
      BY <1>9, <3>2, GatheredKept DEF Deploy, AllGathered
    <3> QED
      BY <3>1, <3>2
  <2> QED
    BY <2>1 DEF AllGathered
<1>10. CASE Delete
  BY <1>10 DEF Delete, AllGathered, Gathered
<1> QED
  BY <1>1, <1>5, <1>6, <1>7, <1>8, <1>9, <1>10, CommitGathered, UpsertGathered
  DEF Next, Load, WithdrawConsent, AcceptAgain, Refused, DeleteAccount, PurgeUnconsentedAccount

\* A run that ended whole stays so, with everything it fetched.
LEMMA WholeKept ==
    ASSUME TypeInv, Next, NEW i \in Runs, Whole(i)
    PROVE  Whole(i)'
<1>1. ASSUME NEW j \in Runs, NEW r, run' = [run EXCEPT ![j] = r], run[j].phase # "ended" PROVE Whole(i)'
  BY <1>1 DEF Whole, TypeInv, TypeOK
<1>2. ASSUME run' = run PROVE Whole(i)'
  BY <1>2 DEF Whole
<1>3. ASSUME NEW j \in Runs, NEW recorded, Queue(j, recorded) PROVE Whole(i)'
  BY <1>3 DEF Queue, Fresh, Whole, TypeInv, TypeOK
<1>4. ASSUME NEW j \in Runs, NEW phase, CommitUpserts(j, phase), run[j].phase # "ended" PROVE Whole(i)'
  BY <1>4 DEF CommitUpserts, Whole, TypeInv, TypeOK
<1>5. ASSUME NEW j \in Runs, FinishRun(j) \/ RecordFailure(j) PROVE Whole(i)'
  BY <1>5 DEF FinishRun, RecordFailure, End, Whole, TypeInv, TypeOK
<1>6. ASSUME NEW j \in Runs, Raise(j) PROVE Whole(i)'
  BY <1>6 DEF Raise, End, Whole, TypeInv, TypeOK
<1>7. ASSUME Tick \/ Deploy PROVE Whole(i)'
  BY <1>7 DEF Tick, Deploy, Going, Whole
<1> QED
  BY <1>1, <1>2, <1>3, <1>4, <1>5, <1>6, <1>7
  DEF Next, Load, WithdrawConsent, AcceptAgain, AcceptFirst, RetryPoolImport, Refused,
      SyncProviders, SignIn, Fetch, Upsert, Leave, DeleteAccount, PurgeUnconsentedAccount, Delete

\* A step that leaves the status alone, or starts an import, and takes nothing
\* from the library keeps "complete" true.
LEMMA CompleteKept ==
    ASSUME TypeInv, CompleteInv, Next, TypeInv', user'.status \in {user.status, "importing", "failed"},
           library \subseteq library'
    PROVE  CompleteIsTrue'
<1> SUFFICES ASSUME user'.status = "complete" PROVE library' = 1 .. Sources /\ (\E i \in Runs : Whole(i))'
  BY DEF CompleteIsTrue
<1>1. library = 1 .. Sources /\ \E i \in Runs : Whole(i)
  BY DEF CompleteInv, CompleteIsTrue
<1>2. library' \subseteq 1 .. Sources
  BY DEF TypeInv, TypeOK
<1> QED
  BY <1>1, <1>2, WholeKept

LEMMA FinishComplete ==
    ASSUME TypeInv, AllGathered, NEW i \in Runs, FinishRun(i), user'.status = "complete",
           user.status # "complete"
    PROVE  CompleteIsTrue'
<1>1. exists /\ run[i].recorded /\ ~run[i].failed /\ run[i].phase = "leaving" /\ End(i, "ended") /\ library' = library
  BY DEF FinishRun, RecordPoolImportOutcome, Outcome, TypeInv, TypeOK, Columns
<1>2. 1 .. Sources \subseteq library
  <2>1. run[i].next = Sources + 1 /\ run[i].pending = {} /\ 1 .. run[i].next - 1 \subseteq library \cup run[i].pending
    BY <1>1 DEF AllGathered, Gathered
  <2>2. (Sources + 1) - 1 = Sources
    BY BoundsAssumption
  <2> QED
    BY <2>1, <2>2
<1>3. library \subseteq 1 .. Sources
  BY DEF TypeInv, TypeOK
<1>4. run'[i] = Over(i, "ended")
  BY <1>1 DEF End, TypeInv, TypeOK
<1>5. Whole(i)'
  BY <1>1, <1>4, OverType DEF Whole, TypeInv
<1> QED
  BY <1>1, <1>2, <1>3, <1>5 DEF CompleteIsTrue

LEMMA CompleteStep == TypeInv /\ CompleteInv /\ [Next]_vars => CompleteInv'
<1> SUFFICES ASSUME TypeInv, CompleteInv, [Next]_vars PROVE CompleteInv'
  OBVIOUS
<1>1. CASE UNCHANGED vars
  BY <1>1 DEF vars, CompleteInv, AllGathered, Gathered, NoStatusWithoutRow, CompleteIsTrue, Whole
<1>2. CASE Next
  <2>1. AllGathered' /\ TypeInv'
    BY <1>2, AllGatheredStep, TypeStep DEF CompleteInv
  <2> DEFINE Kept == user'.status \in {user.status, "importing", "failed"} /\ library \subseteq library'
  <2>2. ASSUME Kept, exists \/ user'.status = user.status, exists => exists', exists' => exists
        PROVE  CompleteIsTrue' /\ NoStatusWithoutRow'
    BY <1>2, <2>1, <2>2, CompleteKept DEF CompleteInv, NoStatusWithoutRow
  <2>3. ASSUME NEW q \in BagToSet(requests),
               WithdrawConsent(q) \/ AcceptAgain(q) \/ AcceptFirst(q) \/ RetryPoolImport(q)
        PROVE  CompleteIsTrue' /\ NoStatusWithoutRow'
    <3>1. exists /\ UNCHANGED <<exists, library>>
      BY <2>3 DEF WithdrawConsent, AcceptAgain, AcceptFirst, RetryPoolImport
    <3>2. user'.status \in {user.status, "importing"}
      BY <2>3, RequestsOnlyStart DEF TypeInv
    <3> QED
      BY <2>2, <3>1, <3>2
  <2>4. ASSUME NEW i \in Runs, Fetch(i) \/ Leave(i) \/ Upsert(i) \/ Raise(i) PROVE CompleteIsTrue' /\ NoStatusWithoutRow'
    <3>1. user' = user /\ exists' = exists /\ library \subseteq library'
      BY <2>4 DEF Fetch, Leave, CommitUpserts, Upsert, Raise
    <3> QED
      BY <2>2, <3>1
  <2>5. ASSUME NEW i \in Runs, RecordFailure(i) PROVE CompleteIsTrue' /\ NoStatusWithoutRow'
    <3>1. exists' = exists /\ library' = library
      BY <2>5 DEF RecordFailure
    <3>2. user' = user \/ (exists /\ user'.status = "failed")
      BY <2>5 DEF RecordFailure, RecordPoolImportOutcome, TypeInv, TypeOK, Columns
    <3> QED
      BY <2>2, <3>1, <3>2
  <2>6. ASSUME NEW i \in Runs, FinishRun(i) PROVE CompleteIsTrue' /\ NoStatusWithoutRow'
    <3>1. exists' = exists /\ library' = library
      BY <2>6 DEF FinishRun
    <3>2. user' = user \/ (exists /\ user'.status \in {"failed", "complete"})
      BY <2>6 DEF FinishRun, RecordPoolImportOutcome, Outcome, TypeInv, TypeOK, Columns
    <3>3. CASE Kept
      BY <2>2, <3>1, <3>2, <3>3
    <3>4. CASE ~Kept
      BY <2>6, <3>1, <3>2, <3>4, FinishComplete DEF CompleteInv, NoStatusWithoutRow
    <3> QED
      BY <3>3, <3>4
  <2>7. ASSUME Delete PROVE CompleteIsTrue' /\ NoStatusWithoutRow'
    BY <2>7 DEF Delete, NoRow, CompleteIsTrue, NoStatusWithoutRow
  <2>8. ASSUME Deploy PROVE CompleteIsTrue' /\ NoStatusWithoutRow'
    <3>1. exists' = exists /\ library' = library /\ user'.status = user.status
      BY <2>8 DEF Deploy, TypeInv, TypeOK, Columns
    <3> QED
      BY <2>2, <3>1
  <2>9. ASSUME UNCHANGED <<exists, user, library>> PROVE CompleteIsTrue' /\ NoStatusWithoutRow'
    BY <2>2, <2>9
  <2> QED
    BY <1>2, <2>1, <2>3, <2>4, <2>5, <2>6, <2>7, <2>8, <2>9
    DEF Next, Load, Refused, SyncProviders, SignIn, Tick, DeleteAccount, PurgeUnconsentedAccount, CompleteInv
<1> QED
  BY <1>1, <1>2

\* "complete" is reported only when a run fetched every list of every source
\* and each of its films is in the library, whatever retries, deletions,
\* deploys and superseded runs come between.
THEOREM CompleteHolds == Spec => []CompleteIsTrue
<1>1. CompleteInv => CompleteIsTrue
  BY DEF CompleteInv
<1> QED
  BY TypesHold, CompleteInit, CompleteStep, <1>1, PTL DEF Spec
-----------------------------------------------------------------------------
(* What is stale is dead *)

\* The import that the row says goes on was stamped by a recorded run, and
\* while that run lives it is at least as old as the stamp.
StampIsYounger ==
    user.status = "importing" =>
        /\ user.startedAt \in Runs /\ run[user.startedAt].phase # "unused"
        /\ run[user.startedAt].phase \in Going =>
              run[user.startedAt].recorded /\ age <= run[user.startedAt].age

\* A request never takes the stamp it loaded for its own.
StampNotLoaded == \A q \in BagToSet(requests) : q.loaded.startedAt = 0

StaleInv == StampIsYounger /\ StampNotLoaded

LEMMA StaleInit == Init => StaleInv
<1> SUFFICES ASSUME Init PROVE StaleInv
  OBVIOUS
<1>1. user.status = "none"
  <2>1. CASE user = NoRow
    BY <2>1 DEF NoRow
  <2>2. CASE user = [NoRow EXCEPT !.accepted = TRUE, !.version = "old"]
    BY <2>2 DEF NoRow
  <2> QED
    BY <2>1, <2>2 DEF Init
<1>2. BagToSet(requests) = {}
  BY DEF Init, EmptyBag, SetToBag, BagToSet
<1> QED
  BY <1>1, <1>2 DEF StaleInv, StampIsYounger, StampNotLoaded

\* A step that leaves the row, the clock and the stamped run's record alone.
LEMMA StampUntouched ==
    ASSUME StampIsYounger, user'.status = user.status, user'.startedAt = user.startedAt, age' = age,
           user.startedAt \in Runs =>
             \/ run'[user.startedAt] = run[user.startedAt]
             \/ run'[user.startedAt].phase \in {"ended", "broken"}
             \/ /\ run[user.startedAt].phase \in Going /\ run'[user.startedAt].phase \in Going
                /\ run'[user.startedAt].recorded = run[user.startedAt].recorded
                /\ run'[user.startedAt].age = run[user.startedAt].age
    PROVE  StampIsYounger'
  BY DEF StampIsYounger, Going

\* A request stamps the run it starts; no other request touches the stamp.
LEMMA StampAnswers ==
    ASSUME TypeInv, StaleInv, NEW q \in BagToSet(requests),
           WithdrawConsent(q) \/ AcceptAgain(q) \/ AcceptFirst(q) \/ RetryPoolImport(q)
    PROVE  StampIsYounger'
<1>1. user \in Columns /\ q.loaded \in Columns /\ q.loaded.startedAt = 0
  BY DEF TypeInv, TypeOK, StaleInv, StampNotLoaded
<1>2. ASSUME NEW row \in Columns, row.startedAt = 0, row.status = q.loaded.status, user' = Flush(q.loaded, row)
      PROVE  user'.status = user.status /\ user'.startedAt = user.startedAt
  BY <1>1, <1>2 DEF Flush, Columns
<1>3. CASE WithdrawConsent(q)
  <2>1. Withdrawn(q.loaded) \in Columns /\ Withdrawn(q.loaded).startedAt = 0 /\ Withdrawn(q.loaded).status = q.loaded.status
    BY <1>1, RowTypes DEF Withdrawn, Columns
  <2> QED
    BY <1>2, <1>3, <2>1, StampUntouched DEF WithdrawConsent, StaleInv
<1>4. CASE AcceptAgain(q)
  <2>1. Accepted(q.loaded) \in Columns /\ Accepted(q.loaded).startedAt = 0 /\ Accepted(q.loaded).status = q.loaded.status
    BY <1>1, RowTypes DEF Accepted, Columns
  <2> QED
    BY <1>2, <1>4, <2>1, StampUntouched DEF AcceptAgain, StaleInv
<1>5. ASSUME NEW row \in Columns, NEW i \in Runs, user' = Flush(q.loaded, StartPoolImport(row, i)),
             Queue(i, TRUE), age' = 0
      PROVE  StampIsYounger'
  <2>1. StartPoolImport(row, i).startedAt = i /\ i # 0
    BY <1>5 DEF StartPoolImport, Columns, Runs
  <2>2. user'.startedAt = i
    BY <1>1, <1>5, <2>1, RowTypes DEF Flush, Columns
  <2>3. run'[i].phase = "fetching" /\ run'[i].recorded /\ run'[i].age \in Nat
    BY <1>5, WorstCaseAssumption DEF Queue, TypeInv, TypeOK
  <2> QED
    BY <1>5, <2>2, <2>3 DEF StampIsYounger
<1>6. CASE AcceptFirst(q)
  BY <1>1, <1>5, <1>6, RowTypes DEF AcceptFirst
<1>7. CASE RetryPoolImport(q)
  BY <1>1, <1>5, <1>7 DEF RetryPoolImport
<1> QED
  BY <1>3, <1>4, <1>6, <1>7

\* The steps of the runs, of time and of deploys.
LEMMA StampRuns ==
    ASSUME TypeInv, StaleInv, NEW i \in Runs,
           Fetch(i) \/ Upsert(i) \/ Leave(i) \/ FinishRun(i) \/ Raise(i) \/ RecordFailure(i)
    PROVE  StampIsYounger'
<1> DEFINE s == user.startedAt
<1>1. ASSUME RecordPoolImportOutcome(i, "failed") \/ RecordPoolImportOutcome(i, "complete"), user' # user
      PROVE  StampIsYounger'
  <2>1. user'.status # "importing"
    BY <1>1 DEF RecordPoolImportOutcome, TypeInv, TypeOK, Columns
  <2> QED
    BY <2>1 DEF StampIsYounger
<1>2. ASSUME RecordPoolImportOutcome(i, "failed") \/ RecordPoolImportOutcome(i, "complete"), user' = user, age' # age
      PROVE  StampIsYounger'
  <2>1. user'.status # "importing"
    BY <1>2 DEF RecordPoolImportOutcome, TypeInv, TypeOK, Columns
  <2> QED
    BY <2>1 DEF StampIsYounger
<1>3. ASSUME UNCHANGED <<user, age>>,
             \/ \E phase \in {"ended", "broken"} : End(i, phase)
             \/ /\ run[i].phase \in Going /\ \E r : run' = [run EXCEPT ![i] = r]
                /\ run'[i].phase \in Going /\ run'[i].recorded = run[i].recorded /\ run'[i].age = run[i].age
      PROVE  StampIsYounger'
  <2>1. CASE \E phase \in {"ended", "broken"} : End(i, phase)
    <3>1. PICK phase \in {"ended", "broken"} : End(i, phase)
      BY <2>1
    <3>2. run'[i].phase = phase /\ \A j \in Runs : j # i => run'[j] = run[j]
      BY <3>1, OverType DEF End, TypeInv, TypeOK
    <3> QED
      BY <1>3, <3>2, StampUntouched DEF StaleInv
  <2>2. CASE ~\E phase \in {"ended", "broken"} : End(i, phase)
    <3>1. PICK r : run' = [run EXCEPT ![i] = r]
      BY <1>3, <2>2
    <3>2. \A j \in Runs : j # i => run'[j] = run[j]
      BY <3>1 DEF TypeInv, TypeOK
    <3> QED
      BY <1>3, <2>2, <3>2, StampUntouched DEF StaleInv
  <2> QED
    BY <2>1, <2>2
<1>4. CASE Fetch(i) \/ Leave(i)
  <2>1. PICK phase \in {"waiting", "leaving"} : CommitUpserts(i, phase) /\ run[i].phase = "fetching"
    BY <1>4 DEF Fetch, Leave
  <2>2. /\ run' = [run EXCEPT ![i] = run'[i]] /\ run'[i].phase = phase
        /\ run'[i].recorded = run[i].recorded /\ run'[i].age = run[i].age
    BY <2>1 DEF CommitUpserts, TypeInv, TypeOK
  <2> QED
    BY <1>3, <2>1, <2>2 DEF CommitUpserts, Going
<1>5. CASE Upsert(i)
  <2>1. PICK failed \in BOOLEAN, some \in BOOLEAN : run' = [run EXCEPT ![i] = Arrived(i, failed, some)]
    BY <1>5 DEF Upsert
  <2>2. run'[i].phase \in Going /\ run'[i].recorded = run[i].recorded /\ run'[i].age = run[i].age
    BY <2>1 DEF Arrived, TypeInv, TypeOK, Going
  <2> QED
    BY <1>3, <1>5, <2>1, <2>2 DEF Upsert, Going
<1>6. CASE Raise(i)
  <2>1. CASE run[i].recorded
    <3>1. run' = [run EXCEPT ![i].phase = "raised", ![i].pending = {}]
      BY <1>6, <2>1 DEF Raise
    <3>2. /\ run' = [run EXCEPT ![i] = run'[i]] /\ run'[i].phase = "raised"
          /\ run'[i].recorded = run[i].recorded /\ run'[i].age = run[i].age
      BY <3>1 DEF TypeInv, TypeOK
    <3> QED
      BY <1>3, <1>6, <3>2 DEF Raise, Going
  <2>2. CASE ~run[i].recorded
    BY <1>3, <1>6, <2>2 DEF Raise
  <2> QED
    BY <2>1, <2>2
<1>7. CASE FinishRun(i)
  <2>1. CASE exists
    <3>1. RecordPoolImportOutcome(i, "failed") \/ RecordPoolImportOutcome(i, "complete")
      BY <1>7, <2>1 DEF FinishRun, Outcome
    <3> QED
      BY <1>1, <1>2, <1>3, <1>7, <2>1, <3>1 DEF FinishRun
  <2>2. CASE ~exists
    <3>1. run' = [run EXCEPT ![i].phase = "raised"] /\ UNCHANGED <<user, age>>
      BY <1>7, <2>2 DEF FinishRun
    <3>2. /\ run' = [run EXCEPT ![i] = run'[i]] /\ run'[i].phase = "raised"
          /\ run'[i].recorded = run[i].recorded /\ run'[i].age = run[i].age
      BY <3>1 DEF TypeInv, TypeOK
    <3> QED
      BY <1>3, <1>7, <3>1, <3>2 DEF FinishRun, Going
  <2> QED
    BY <2>1, <2>2
<1>8. CASE RecordFailure(i)
  BY <1>1, <1>2, <1>3, <1>8 DEF RecordFailure
<1> QED
  BY <1>4, <1>5, <1>6, <1>7, <1>8

LEMMA StaleStep == TypeInv /\ StaleInv /\ [Next]_vars => StaleInv'
<1> SUFFICES ASSUME TypeInv, StaleInv, [Next]_vars PROVE StaleInv'
  OBVIOUS
<1>1. IsABag(requests) /\ user \in Columns /\ StampIsYounger /\ StampNotLoaded
  BY DEF TypeInv, TypeOK, StaleInv
<1>2. ASSUME BagToSet(requests)' \subseteq BagToSet(requests) PROVE StampNotLoaded'
  BY <1>1, <1>2 DEF StampNotLoaded
<1>3. ASSUME NEW q \in BagToSet(requests), Answer(q) PROVE BagToSet(requests)' \subseteq BagToSet(requests)
  BY <1>1, <1>3, BagShrinks DEF Answer
<1>4. ASSUME NEW does \in Handlers, Load(does) PROVE StaleInv'
  <2> DEFINE new == [does |-> does, loaded |-> Loaded(does)]
  <2>1. BagToSet(requests)' = BagToSet(requests) \cup {new}
    BY <1>1, <1>4, BagGrows DEF Load
  <2>2. new.loaded.startedAt = 0
    BY <1>1 DEF Loaded, Assigned, Handlers, NoRow, Columns
  <2>3. StampIsYounger'
    BY <1>1, <1>4, StampUntouched DEF Load
  <2> QED
    BY <1>1, <2>1, <2>2, <2>3 DEF StaleInv, StampNotLoaded
<1>5. ASSUME NEW q \in BagToSet(requests),
             WithdrawConsent(q) \/ AcceptAgain(q) \/ AcceptFirst(q) \/ RetryPoolImport(q)
      PROVE  StaleInv'
  <2>1. Answer(q)
    BY <1>5 DEF WithdrawConsent, AcceptAgain, AcceptFirst, RetryPoolImport
  <2> QED
    BY <1>2, <1>3, <1>5, <2>1, StampAnswers DEF StaleInv
<1>6. ASSUME NEW q \in BagToSet(requests), Refused(q) PROVE StaleInv'
  BY <1>1, <1>2, <1>3, <1>6, StampUntouched DEF Refused, StaleInv
<1>7. CASE SyncProviders \/ SignIn
  <2>1. PICK i \in Runs : Queue(i, FALSE)
    BY <1>7 DEF SyncProviders, SignIn
  <2>2. UNCHANGED <<user, age, requests>>
    BY <1>7 DEF SyncProviders, SignIn
  <2>3. user.status = "importing" => user.startedAt # i
    BY <1>1, <2>1 DEF Queue, Fresh, StampIsYounger
  <2>4. \A j \in Runs : j # i => run'[j] = run[j]
    BY <2>1 DEF Queue, TypeInv, TypeOK
  <2>5. StampIsYounger'
    BY <1>1, <2>2, <2>3, <2>4 DEF StampIsYounger
  <2> QED
    BY <1>2, <2>2, <2>5 DEF StaleInv
<1>8. ASSUME NEW i \in Runs,
             Fetch(i) \/ Upsert(i) \/ Leave(i) \/ FinishRun(i) \/ Raise(i) \/ RecordFailure(i)
      PROVE  StaleInv'
  <2>1. UNCHANGED requests
    BY <1>8 DEF Fetch, Upsert, Leave, CommitUpserts, FinishRun, Raise, RecordFailure
  <2> QED
    BY <1>2, <1>8, <2>1, StampRuns DEF StaleInv
<1>9. CASE Tick
  <2>1. ASSUME NEW i \in Runs
        PROVE  /\ run'[i].phase = run[i].phase /\ run'[i].recorded = run[i].recorded
               /\ run[i].phase \in Going /\ run[i].recorded => run'[i].age = run[i].age + 1
    BY <1>9, <2>1 DEF Tick, TypeInv, TypeOK
  <2>2. age \in Nat /\ age' \in {age, age + 1} /\ user' = user
    BY <1>9, BoundsAssumption DEF Tick, TypeInv, TypeOK
  <2>3. \A i \in Runs : run[i].age \in Nat
    BY WorstCaseAssumption DEF TypeInv, TypeOK
  <2>4. StampIsYounger'
    BY <1>1, <2>1, <2>2, <2>3 DEF StampIsYounger
  <2> QED
    BY <1>2, <1>9, <2>4 DEF Tick, StaleInv
<1>10. CASE Deploy
  <2>1. BagToSet(requests)' = {}
    BY <1>10 DEF Deploy, EmptyBag, SetToBag, BagToSet
  <2>2. user'.status = user.status /\ user'.startedAt = user.startedAt /\ age' = age
    BY <1>1, <1>10 DEF Deploy, Columns
  <2>3. \A i \in Runs : run'[i] = run[i] \/ run'[i].phase = "broken"
    BY <1>10, OverType DEF Deploy, TypeInv
  <2>4. StampIsYounger'
    BY <1>1, <2>2, <2>3, StampUntouched
  <2> QED
    BY <2>1, <2>4 DEF StaleInv, StampNotLoaded
<1>11. CASE Delete
  BY <1>1, <1>2, <1>11 DEF Delete, NoRow, StaleInv, StampIsYounger
<1>12. CASE UNCHANGED vars
  BY <1>1, <1>2, <1>12, StampUntouched DEF vars, StaleInv
<1> QED
  BY <1>4, <1>5, <1>6, <1>7, <1>8, <1>9, <1>10, <1>11, <1>12
  DEF Next, DeleteAccount, PurgeUnconsentedAccount

\* Once the stamp is older than the longest a run can take, its run is dead, so
\* that a retry never imports beside a run that may still record an outcome.
THEOREM StaleRunsAreDead == Spec => []StaleIsDead
<1>1. TypeInv /\ StaleInv => StaleIsDead
  <2> SUFFICES ASSUME TypeInv, StaleInv, user.status = "importing", Stale(age),
                      run[user.startedAt].phase \in Going
               PROVE  FALSE
    BY DEF StaleIsDead
  <2>1. user.startedAt \in Runs /\ age <= run[user.startedAt].age
    BY DEF StaleInv, StampIsYounger
  <2>2. run[user.startedAt].age \in 0 .. WorstCase /\ age \in Nat
    BY <2>1, BoundsAssumption DEF TypeInv, TypeOK
  <2> QED
    BY <2>1, <2>2, BoundsAssumption, WorstCaseAssumption DEF Stale
<1> QED
  BY TypesHold, StaleInit, StaleStep, <1>1, PTL DEF Spec
-----------------------------------------------------------------------------
(* Nothing of a deleted account *)

\* A deletion waits for what is pending, and later runs get nothing pending.
Emptied == ~exists => library = {} /\ \A i \in Runs : run[i].pending = {}

LEMMA EmptiedStep == TypeInv /\ Emptied /\ [Next]_vars => Emptied'
<1> SUFFICES ASSUME TypeInv, Emptied, [Next]_vars, ~exists' PROVE Emptied'
  BY DEF Emptied
<1>1. ASSUME NEW i \in Runs, NEW r, run' = [run EXCEPT ![i] = r], ~exists, library' = library, run'[i].pending = {}
      PROVE  Emptied'
  BY <1>1 DEF Emptied, TypeInv, TypeOK
<1>3. ASSUME NEW i \in Runs, NEW phase \in {"ended", "broken"}, End(i, phase), ~exists, library' = library
      PROVE  Emptied'
  <2>1. run'[i].pending = {}
    BY <1>3, OverType DEF End, TypeInv, TypeOK
  <2> QED
    BY <1>1, <1>3, <2>1 DEF End
<1>4. ASSUME NEW i \in Runs, Fetch(i) \/ Leave(i), ~exists PROVE Emptied'
  <2>1. PICK phase : CommitUpserts(i, phase)
    BY <1>4 DEF Fetch, Leave
  <2>2. run' = [run EXCEPT ![i] = run'[i]] /\ run'[i].pending = {} /\ library' = library \cup run[i].pending
    BY <2>1 DEF CommitUpserts, TypeInv, TypeOK
  <2>3. library' = library
    BY <1>4, <2>2 DEF Emptied
  <2> QED
    BY <1>1, <1>4, <2>2, <2>3
<1>5. ASSUME NEW i \in Runs, Upsert(i), ~exists PROVE Emptied'
  <2>1. PICK failed \in BOOLEAN, some \in BOOLEAN : run' = [run EXCEPT ![i] = Arrived(i, failed, some)]
    BY <1>5 DEF Upsert
  <2>2. run'[i].pending = {}
    BY <1>5, <2>1 DEF Arrived, TypeInv, TypeOK
  <2> QED
    BY <1>1, <1>5, <2>1, <2>2 DEF Upsert
<1>6. ASSUME NEW i \in Runs, run' = [run EXCEPT ![i].phase = "raised"], ~exists, library' = library PROVE Emptied'
  <2>1. run' = [run EXCEPT ![i] = run'[i]] /\ run'[i].pending = run[i].pending
    BY <1>6 DEF TypeInv, TypeOK
  <2> QED
    BY <1>1, <1>6, <2>1 DEF Emptied
<1>7. ASSUME NEW i \in Runs, Raise(i), ~exists PROVE Emptied'
  <2>1. CASE run[i].recorded
    <3>1. run' = [run EXCEPT ![i] = run'[i]] /\ run'[i].pending = {}
      BY <1>7, <2>1 DEF Raise, TypeInv, TypeOK
    <3> QED
      BY <1>1, <1>7, <3>1 DEF Raise
  <2>2. CASE ~run[i].recorded
    BY <1>3, <1>7, <2>2 DEF Raise
  <2> QED
    BY <2>1, <2>2
<1>8. ASSUME NEW i \in Runs, FinishRun(i) \/ RecordFailure(i), ~exists PROVE Emptied'
  BY <1>3, <1>6, <1>8 DEF FinishRun, RecordFailure
<1>9. ASSUME Tick, ~exists PROVE Emptied'
  <2>1. \A i \in Runs : run'[i].pending = run[i].pending
    BY <1>9 DEF Tick, TypeInv, TypeOK
  <2> QED
    BY <1>9, <2>1 DEF Tick, Emptied
<1>10. ASSUME Deploy, ~exists PROVE Emptied'
  <2>1. \A i \in Runs : run'[i].pending = {}
    BY <1>10, OverType DEF Deploy, Emptied, TypeInv
  <2> QED
    BY <1>10, <2>1 DEF Deploy, Emptied
<1>11. ASSUME Delete PROVE Emptied'
  BY <1>11 DEF Delete, NothingPending, Emptied
<1>12. ASSUME UNCHANGED <<exists, library, run>> PROVE Emptied'
  BY <1>12 DEF Emptied
<1>13. ASSUME NEW q \in BagToSet(requests),
              WithdrawConsent(q) \/ AcceptAgain(q) \/ AcceptFirst(q) \/ RetryPoolImport(q)
       PROVE  FALSE
  <2>1. exists
    BY <1>13 DEF WithdrawConsent, AcceptAgain, AcceptFirst, RetryPoolImport
  <2>2. UNCHANGED exists
    BY <1>13 DEF WithdrawConsent, AcceptAgain, AcceptFirst, RetryPoolImport
  <2> QED
    BY <2>1, <2>2
<1>14. ASSUME SyncProviders \/ SignIn PROVE FALSE
  <2>1. exists
    BY <1>14 DEF SyncProviders, SignIn
  <2>2. UNCHANGED exists
    BY <1>14 DEF SyncProviders, SignIn
  <2> QED
    BY <2>1, <2>2
<1>15. ASSUME exists, ~Delete PROVE FALSE
  <2>1. UNCHANGED exists
    BY <1>13, <1>14, <1>15
    DEF Next, vars, Load, Refused, Fetch, Leave, CommitUpserts, Upsert, Raise, FinishRun,
        RecordFailure, Tick, Deploy, DeleteAccount, PurgeUnconsentedAccount
  <2> QED
    BY <1>15, <2>1
<1>16. CASE ~exists
  BY <1>4, <1>5, <1>7, <1>8, <1>9, <1>10, <1>12, <1>13, <1>14, <1>16
  DEF Next, vars, Load, Refused, DeleteAccount, PurgeUnconsentedAccount, Delete
<1> QED
  BY <1>11, <1>15, <1>16

\* Imports that outlive a deleted account store nothing of it.
THEOREM DeletedIsEmpty == Spec => []NothingAfterDeletion
<1>1. Init => Emptied
  BY DEF Init, Emptied
<1>2. Emptied => NothingAfterDeletion
  BY DEF Emptied, NothingAfterDeletion
<1> QED
  BY TypesHold, EmptiedStep, <1>1, <1>2, PTL DEF Spec
-----------------------------------------------------------------------------
(* The order of the row locks (RowLocks): only an import can close a cycle *)

Begun(t) == running[t] # None

\* An idle slot has locked nothing; a running one no more rows than it names.
WithinPlan ==
    \A t \in Slots :
        /\ ~Begun(t) => locked[t] = 0
        /\ Begun(t) => locked[t] <= Len(running[t].rows)

\* The advisory lock of the swipes.
OneSwipe ==
    \A t, u \in Slots :
        (Begun(t) /\ Begun(u) /\ running[t].kind = "swipe" /\ running[u].kind = "swipe") => t = u

OrderInv == OrderTypeOK /\ WithinPlan /\ OneSwipe

LEMMA HasLeast ==
    ASSUME NEW S \in SUBSET Nat, S # {}
    PROVE  \E x \in S : \A y \in S : x <= y
<1>1. \E x \in S : \A y \in S : ~(<<y, x>> \in OpToRel(<, Nat))
  BY NatLessThanWellFounded, WFMin
<1>2. \A x \in Nat, y \in Nat : <<y, x>> \in OpToRel(<, Nat) <=> y < x
  BY DEF OpToRel
<1>3. \A x \in Nat, y \in Nat : ~(y < x) => x <= y
  OBVIOUS
<1> QED
  BY <1>1, <1>2, <1>3

LEMMA SortedPair ==
    ASSUME NEW p \in Films \X Films
    PROVE  /\ Sorted(p) \in Seq(Films) /\ Len(Sorted(p)) = 2
           /\ Sorted(p)[1] <= Sorted(p)[2]
           /\ Sorted(p)[1] \in {p[1], p[2]} /\ Sorted(p)[2] \in {p[1], p[2]}
<1>1. PICK f \in Films, g \in Films : p = <<f, g>>
  OBVIOUS
<1>2. f \in Nat /\ g \in Nat
  BY FilmsAssumption
<1>3. p[1] = f /\ p[2] = g
  BY <1>1
<1>4. CASE f < g
  <2>1. Sorted(p) = <<f, g>>
    BY <1>1, <1>2, <1>4 DEF Sorted
  <2>2. <<f, g>> \in Seq(Films) /\ Len(<<f, g>>) = 2
    OBVIOUS
  <2>3. <<f, g>>[1] = f /\ <<f, g>>[2] = g
    OBVIOUS
  <2> QED
    BY <1>2, <1>4, <1>3, <2>1, <2>2, <2>3
<1>5. CASE ~(f < g)
  <2>1. Sorted(p) = <<g, f>>
    BY <1>1, <1>2, <1>5 DEF Sorted
  <2>2. <<g, f>> \in Seq(Films) /\ Len(<<g, f>>) = 2
    OBVIOUS
  <2>3. <<g, f>>[1] = g /\ <<g, f>>[2] = f
    OBVIOUS
  <2> QED
    BY <1>2, <1>5, <1>3, <2>1, <2>2, <2>3
<1> QED
  BY <1>4, <1>5

LEMMA TransactionTypes ==
    ASSUME NEW x \in Transactions
    PROVE  /\ x.rows \in Seq(Films)
           /\ \/ x.kind = "import"
              \/ x.kind = "swipe" /\ x.rows \in SwipeBatches
              \/ /\ x.kind = "duel" /\ Len(x.rows) = 2 /\ x.rows[1] <= x.rows[2]
                 /\ \E p \in DuelPairs : x.rows[1] \in {p[1], p[2]} /\ x.rows[2] \in {p[1], p[2]}
<1>1. DuelPairs \subseteq Films \X Films /\ SwipeBatches \subseteq Seq(Films) /\ ProviderLists \subseteq Seq(Films)
  BY PlansAssumption
<1>2. CASE \E p \in DuelPairs : x = Duel(p)
  <2>1. PICK p \in DuelPairs : x = Duel(p)
    BY <1>2
  <2>2. x.kind = "duel" /\ x.rows = Sorted(p)
    BY <2>1 DEF Duel
  <2> QED
    BY <1>1, <2>2, SortedPair
<1>3. CASE \E b \in SwipeBatches : x = SwipeBatch(b)
  BY <1>1, <1>3 DEF SwipeBatch
<1>4. CASE \E l \in ProviderLists : x = Import(l)
  BY <1>1, <1>4 DEF Import
<1> QED
  BY <1>2, <1>3, <1>4 DEF Transactions

\* Waiting for a row is waiting for one of the films a transaction names.
LEMMA WantedRow ==
    ASSUME OrderInv, NEW t \in Slots, Unfinished(t)
    PROVE  /\ Begun(t) /\ running[t] \in Transactions
           /\ locked[t] + 1 \in 1..Len(running[t].rows)
           /\ Wants(t) = running[t].rows[locked[t] + 1]
           /\ Wants(t) \in Films
<1>1. Begun(t) /\ running[t] \in Transactions /\ locked[t] \in Nat /\ locked[t] < Len(running[t].rows)
  BY DEF Unfinished, OrderInv, OrderTypeOK, Begun
<1>2. running[t].rows \in Seq(Films) /\ Len(running[t].rows) \in Nat
  BY <1>1, TransactionTypes
<1>3. locked[t] + 1 \in 1..Len(running[t].rows)
  BY <1>1, <1>2
<1>4. running[t].rows[locked[t] + 1] \in Films
  BY <1>2, <1>3, ElementOfSeq
<1> QED
  BY <1>1, <1>3, <1>4 DEF Wants

LEMMA OrderInvInit == OrderInit => OrderInv
<1> SUFFICES ASSUME OrderInit PROVE OrderInv
  OBVIOUS
<1>1. \A t \in Slots : running[t] = None /\ locked[t] = 0
  BY DEF OrderInit
<1>2. \A t \in Slots : { f \in Films : owner[f] = t } = {} /\ LockedRows(t) = {}
  BY <1>1, SlotsAssumption DEF OrderInit, LockedRows
<1> QED
  BY <1>1, <1>2 DEF OrderInit, OrderInv, OrderTypeOK, WithinPlan, OneSwipe, Begun

LEMMA BeginStep ==
    ASSUME OrderInv, NEW t \in Slots, NEW x \in Transactions, Begin(t, x)
    PROVE  OrderInv'
<1>1. /\ running[t] = None /\ locked[t] = 0 /\ MayBegin(x)
      /\ running' = [running EXCEPT ![t] = x] /\ UNCHANGED <<locked, owner>>
  BY DEF Begin, OrderInv, WithinPlan, Begun
<1>2. running'[t] = x /\ \A u \in Slots \ {t} : running'[u] = running[u]
  BY <1>1 DEF OrderInv, OrderTypeOK
<1>3. \A u \in Slots : LockedRows(u)' = LockedRows(u)
  BY <1>1, <1>2 DEF LockedRows
<1>4. OrderTypeOK'
  BY <1>1, <1>3 DEF OrderInv, OrderTypeOK
<1>5. Len(x.rows) \in Nat
  BY TransactionTypes
<1>6. WithinPlan'
  BY <1>1, <1>2, <1>5 DEF OrderInv, WithinPlan, Begun
<1>7. OneSwipe'
  BY <1>1, <1>2 DEF OrderInv, OneSwipe, Begun, MayBegin
<1> QED
  BY <1>4, <1>6, <1>7 DEF OrderInv

LEMMA LockRowStep ==
    ASSUME OrderInv, NEW t \in Slots, Lock(t)
    PROVE  OrderInv'
<1> DEFINE w == Wants(t)
<1>1. /\ Unfinished(t) /\ owner[w] \in {None, t}
      /\ owner' = [owner EXCEPT ![w] = t] /\ locked' = [locked EXCEPT ![t] = locked[t] + 1]
      /\ UNCHANGED running
  BY DEF Lock
<1>2. /\ w \in Films /\ w = running[t].rows[locked[t] + 1] /\ Begun(t)
      /\ locked[t] + 1 <= Len(running[t].rows) /\ locked[t] \in Nat
  BY <1>1, WantedRow DEF OrderInv, OrderTypeOK
<1> HIDE DEF w
<1>3. owner'[w] = t /\ \A f \in Films \ {w} : owner'[f] = owner[f]
  BY <1>1, <1>2 DEF OrderInv, OrderTypeOK
<1>4. locked'[t] = locked[t] + 1 /\ \A u \in Slots \ {t} : locked'[u] = locked[u]
  BY <1>1 DEF OrderInv, OrderTypeOK
<1>5. LockedRows(t)' = LockedRows(t) \cup {w}
  BY <1>1, <1>2, <1>4 DEF LockedRows
<1>6. \A u \in Slots \ {t} : LockedRows(u)' = LockedRows(u)
  BY <1>1, <1>4 DEF LockedRows
<1>7. ASSUME NEW u \in Slots PROVE { f \in Films : owner'[f] = u } = LockedRows(u)'
  <2>1. { f \in Films : owner[f] = u } = LockedRows(u)
    BY DEF OrderInv, OrderTypeOK
  <2>2. CASE u = t
    BY <1>2, <1>3, <1>5, <2>1, <2>2
  <2>3. CASE u # t
    <3>1. owner[w] # u
      BY <1>1, <2>3, SlotsAssumption
    <3> QED
      BY <1>2, <1>3, <1>6, <2>1, <2>3, <3>1
  <2> QED
    BY <2>2, <2>3
<1>8. OrderTypeOK'
  <2>1. locked' \in [Slots -> Nat] /\ owner' \in [Films -> Slots \cup {None}]
    BY <1>1, <1>2 DEF OrderInv, OrderTypeOK
  <2> QED
    BY <1>1, <1>7, <2>1 DEF OrderInv, OrderTypeOK
<1>9. WithinPlan' /\ OneSwipe'
  BY <1>1, <1>2, <1>4 DEF OrderInv, WithinPlan, OneSwipe, Begun
<1> QED
  BY <1>8, <1>9 DEF OrderInv

LEMMA ReleaseStep ==
    ASSUME OrderInv, NEW t \in Slots, Release(t)
    PROVE  OrderInv'
<1>1. /\ running' = [running EXCEPT ![t] = None] /\ locked' = [locked EXCEPT ![t] = 0]
      /\ owner' = [f \in Films |-> IF owner[f] = t THEN None ELSE owner[f]]
  BY DEF Release
<1>2. /\ running'[t] = None /\ locked'[t] = 0
      /\ \A u \in Slots \ {t} : running'[u] = running[u] /\ locked'[u] = locked[u]
  BY <1>1 DEF OrderInv, OrderTypeOK
<1>3. ASSUME NEW u \in Slots PROVE { f \in Films : owner'[f] = u } = LockedRows(u)'
  <2>1. { f \in Films : owner[f] = u } = LockedRows(u) /\ u # None
    BY SlotsAssumption DEF OrderInv, OrderTypeOK
  <2>2. CASE u = t
    <3>1. LockedRows(u)' = {}
      BY <1>2, <2>2 DEF LockedRows
    <3> QED
      BY <1>1, <2>1, <2>2, <3>1
  <2>3. CASE u # t
    <3>1. LockedRows(u)' = LockedRows(u)
      BY <1>2, <2>3 DEF LockedRows
    <3> QED
      BY <1>1, <2>1, <2>3, <3>1
  <2> QED
    BY <2>2, <2>3
<1>4. OrderTypeOK'
  BY <1>1, <1>3 DEF OrderInv, OrderTypeOK
<1>5. WithinPlan' /\ OneSwipe'
  BY <1>2 DEF OrderInv, WithinPlan, OneSwipe, Begun
<1> QED
  BY <1>4, <1>5 DEF OrderInv

LEMMA OrderStep == OrderInv /\ [OrderNext]_orderVars => OrderInv'
<1> SUFFICES ASSUME OrderInv, [OrderNext]_orderVars PROVE OrderInv'
  OBVIOUS
<1>1. CASE UNCHANGED orderVars
  BY <1>1 DEF orderVars, OrderInv, OrderTypeOK, LockedRows, WithinPlan, OneSwipe, Begun
<1> QED
  BY <1>1, BeginStep, LockRowStep, ReleaseStep DEF OrderNext, Commit, Victim

\* Without an import, who is waited for waits for a higher film: a duel has
\* locked its lower film, and no swipe batch shares a film with a duel.
LEMMA WaitsAscend ==
    ASSUME OrderInv, NEW S \in SUBSET Slots, WaitCycle(S),
           \A t \in S : running[t].kind # "import", NEW t \in S
    PROVE  /\ Wants(t) \in Nat
           /\ \E u \in S : Wants(u) > Wants(t)
<1> DEFINE u == owner[Wants(t)]
<1>1. t \in Slots /\ Waits(t) /\ u \in S /\ u \in Slots /\ Waits(u) /\ u # t
  BY DEF WaitCycle, Waits
<1>2. /\ Begun(t) /\ running[t] \in Transactions /\ locked[t] + 1 \in 1..Len(running[t].rows)
      /\ Wants(t) = running[t].rows[locked[t] + 1] /\ Wants(t) \in Films
  BY <1>1, WantedRow DEF Waits
<1>3. /\ Begun(u) /\ running[u] \in Transactions /\ locked[u] + 1 \in 1..Len(running[u].rows)
      /\ Wants(u) = running[u].rows[locked[u] + 1] /\ Wants(u) \in Films
  BY <1>1, WantedRow DEF Waits
<1>4. PICK i \in 1..locked[u] : running[u].rows[i] = Wants(t)
  <2>1. Wants(t) \in LockedRows(u)
    BY <1>1, <1>2 DEF OrderInv, OrderTypeOK
  <2> QED
    BY <2>1 DEF LockedRows
<1>5. locked[u] \in Nat /\ Len(running[u].rows) \in Nat
  BY <1>1, <1>3, TransactionTypes DEF OrderInv, OrderTypeOK
<1>6. i \in 1..Len(running[u].rows) /\ DOMAIN running[u].rows = 1..Len(running[u].rows)
  BY <1>3, <1>4, <1>5, TransactionTypes
<1>7. DOMAIN running[t].rows = 1..Len(running[t].rows)
  BY <1>2, TransactionTypes
<1>8. running[u].kind = "duel"
  <2>1. CASE running[u].kind = "swipe"
    <3>1. running[t].kind # "swipe"
      BY <1>1, <1>2, <1>3, <2>1 DEF OrderInv, OneSwipe
    <3>2. PICK p \in DuelPairs : running[t].rows[1] \in {p[1], p[2]} /\ running[t].rows[2] \in {p[1], p[2]}
      BY <1>2, <3>1, TransactionTypes
    <3>3. Wants(t) \in {p[1], p[2]}
      BY <1>2, <3>1, <3>2, TransactionTypes
    <3>4. running[u].rows \in SwipeBatches
      BY <1>3, <2>1, TransactionTypes
    <3> QED
      BY <1>4, <1>6, <3>3, <3>4, DisjointAssumption
  <2> QED
    BY <1>1, <1>3, <2>1, TransactionTypes
<1>9. Len(running[u].rows) = 2 /\ running[u].rows[1] <= running[u].rows[2]
  BY <1>3, <1>8, TransactionTypes
<1>10. locked[u] = 1 /\ i = 1
  BY <1>3, <1>4, <1>5, <1>9
<1>11. Wants(t) = running[u].rows[1] /\ Wants(u) = running[u].rows[2]
  BY <1>3, <1>4, <1>10
<1>12. Wants(u) # Wants(t)
  BY <1>1 DEF Waits
<1>13. Wants(t) \in Nat /\ Wants(u) \in Nat
  BY <1>2, <1>3, FilmsAssumption
<1> QED
  BY <1>1, <1>9, <1>11, <1>12, <1>13

\* So a cycle without one would climb for ever.
LEMMA NoCycleWithoutImport ==
    ASSUME OrderInv
    PROVE  DeadlockNeedsImport
<1> SUFFICES ASSUME NEW S \in SUBSET Slots, WaitCycle(S),
                    \A t \in S : running[t].kind # "import"
             PROVE  FALSE
  BY DEF DeadlockNeedsImport
<1> DEFINE higher(t) == { u \in S : Wants(u) > Wants(t) }
           sizes == { n \in Nat : \E t \in S : n = Cardinality(higher(t)) }
<1>1. IsFiniteSet(S) /\ S # {}
  <2>1. IsFiniteSet(Slots)
    BY SlotsAssumption
  <2>2. S # {}
    BY DEF WaitCycle
  <2> QED
    BY <2>1, <2>2, FS_Subset
<1>2. ASSUME NEW t \in S
      PROVE  IsFiniteSet(higher(t)) /\ Cardinality(higher(t)) \in Nat
  <2>1. higher(t) \subseteq S
    OBVIOUS
  <2> QED
    BY <1>1, <2>1, FS_Subset, FS_CardinalityType
<1>3. sizes \in SUBSET Nat /\ sizes # {}
  BY <1>1, <1>2
<1>4. PICK n \in sizes : \A m \in sizes : n <= m
  BY <1>3, HasLeast
<1>5. PICK t \in S : n = Cardinality(higher(t))
  BY <1>4
<1>6. PICK u \in S : Wants(u) > Wants(t)
  BY WaitsAscend
<1>7. higher(u) \subseteq higher(t) /\ u \in higher(t) /\ u \notin higher(u)
  BY <1>6, WaitsAscend
<1>8. Cardinality(higher(u)) < Cardinality(higher(t))
  BY <1>2, <1>7, FS_Subset
<1>9. Cardinality(higher(u)) \in sizes
  BY <1>2
<1>10. Cardinality(higher(u)) \in Nat /\ Cardinality(higher(t)) \in Nat
  BY <1>2
<1> HIDE DEF higher, sizes
<1> QED
  BY <1>4, <1>5, <1>8, <1>9, <1>10

\* OrderTypeOK: transactions are of the kinds listed, and each holds the rows it
\* has locked and no others.
THEOREM RowsAreHeld == OrderSpec => []OrderTypeOK
<1>1. OrderInv => OrderTypeOK
  BY DEF OrderInv
<1>2. OrderInv /\ [OrderNext]_orderVars => OrderInv'
  BY OrderStep
<1> QED
  BY <1>1, <1>2, OrderInvInit, PTL DEF OrderSpec

\* Duels and tournament matches never deadlock each other, nor swipe batches
\* each other or duels, for any films, lists and number of transactions: every
\* cycle of waiting transactions has an import in it.
THEOREM OnlyImportsDeadlock == OrderSpec => []DeadlockNeedsImport
<1>1. OrderInv => DeadlockNeedsImport
  BY NoCycleWithoutImport
<1>2. OrderInv /\ [OrderNext]_orderVars => OrderInv'
  BY OrderStep
<1>3. OrderInit => OrderInv
  BY OrderInvInit
<1> QED
  BY <1>1, <1>2, <1>3, PTL DEF OrderSpec
=============================================================================
