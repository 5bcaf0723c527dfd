----------------------------- MODULE TokensProofs -----------------------------
(***************************************************************************)
(* Proofs about Tokens, for any number of syncs, watchlist pushes, imports *)
(* and sign-ins.                                                           *)
(***************************************************************************)
EXTENDS Tokens, FiniteSetTheorems, TLAPS

\* TypeOK with grants unbounded; "The number of grants" below counts them.
Sealed == [grant : Nat, key : {1, 2}]

Types ==
    /\ phase \in {"old", "both", "new"}
    /\ row \in [Columns -> Sealed]
    /\ due \in BOOLEAN
    /\ dormant \in BOOLEAN
    /\ issued \in Nat
    /\ locked \in Tasks \cup {Script, NoTask}
    /\ pc \in [Tasks -> {"idle", "loaded", "locked", "holding", "flushed", "ended"}]
    /\ obj \in [Tasks -> [Columns -> Sealed]]
    /\ objDue \in [Tasks -> BOOLEAN]
    /\ got \in [Tasks -> Nat]
    /\ read \in [Columns -> Sealed]
    /\ swapped \subseteq Columns
    /\ clean \in BOOLEAN

LEMMA Empties == Empty \in Sealed /\ NoObject \in [Columns -> Sealed] /\ NoGrant = 0
    BY DEF Empty, Sealed, NoObject, NoGrant

LEMMA Encrypted ==
    ASSUME NEW g \in Nat
    PROVE  Encrypt(g) \in Sealed /\ Encrypt(g).grant = g /\ Encrypt(g).key = CurrentKey
    BY DEF Encrypt, Sealed, CurrentKey

\* A rotation on read keeps every grant, and what it changes gets the current key.
LEMMA RotatedKeeps ==
    ASSUME Types, NEW t \in Tasks, NEW columns
    PROVE  /\ Rotated(t, columns) \in [Columns -> Sealed]
           /\ \A c \in Columns :
                 /\ Rotated(t, columns)[c].grant = row[c].grant
                 /\ \/ Rotated(t, columns)[c] = row[c]
                    \/ Rotated(t, columns)[c].key = CurrentKey
<1> DEFINE r == Rotated(t, columns)
<1>1. r = [c \in Columns |-> IF c \in columns /\ Outdated(obj[t][c]) /\ SameAsRead(t, c)
                             THEN Encrypt(obj[t][c].grant) ELSE row[c]]
  BY DEF Rotated
<1>2. ASSUME NEW c \in Columns
      PROVE  /\ r[c] \in Sealed /\ r[c].grant = row[c].grant
             /\ r[c] = row[c] \/ r[c].key = CurrentKey
  <2>1. obj[t][c] \in Sealed /\ row[c] \in Sealed /\ obj[t][c].grant \in Nat
    BY DEF Types, Sealed
  <2>2. CASE c \in columns /\ Outdated(obj[t][c]) /\ SameAsRead(t, c)
    <3>1. r[c] = Encrypt(obj[t][c].grant) /\ row[c] = obj[t][c]
      BY <1>1, <2>2 DEF SameAsRead
    <3> QED
      BY <2>1, <3>1, Encrypted
  <2>3. CASE ~(c \in columns /\ Outdated(obj[t][c]) /\ SameAsRead(t, c))
    BY <1>1, <2>1, <2>3
  <2> QED
    BY <2>2, <2>3
<1>3. DOMAIN r = Columns /\ r = [c \in Columns |-> r[c]]
  BY <1>1
<1> QED
  BY <1>2, <1>3

LEMMA EndTypes ==
    ASSUME Types, NEW t \in Tasks, End(t)
    PROVE  /\ pc' \in [Tasks -> {"idle", "loaded", "locked", "holding", "flushed", "ended"}]
           /\ obj' \in [Tasks -> [Columns -> Sealed]]
           /\ objDue' \in [Tasks -> BOOLEAN]
           /\ got' \in [Tasks -> Nat]
           /\ locked' \in Tasks \cup {Script, NoTask}
    BY Empties DEF Types, End

LEMMA TypesInit == Init => Types
<1> SUFFICES ASSUME Init PROVE Types
  OBVIOUS
<1>1. row = [c \in Columns |-> [grant |-> 1, key |-> 1]] /\ [grant |-> 1, key |-> 1] \in Sealed
  BY DEF Init, Sealed
<1>2. row \in [Columns -> Sealed]
  BY <1>1
<1>3. obj \in [Tasks -> [Columns -> Sealed]] /\ read \in [Columns -> Sealed]
  BY Empties DEF Init
<1>4. got \in [Tasks -> Nat]
  BY Empties DEF Init
<1> QED
  BY <1>2, <1>3, <1>4 DEF Init, Types

LEMMA TypesStep == Types /\ [Next]_vars => Types'
<1> SUFFICES ASSUME Types, [Next]_vars PROVE Types'
  OBVIOUS
<1> USE Empties DEF Types, taskVars, scriptVars, history
<1>1. ASSUME NEW t \in Tasks, Load(t) PROVE Types'
  BY <1>1 DEF Load
<1>2. ASSUME NEW t \in Tasks, LockRow(t) PROVE Types'
  BY <1>2 DEF LockRow, Reloaded
<1>3. ASSUME NEW t \in Tasks, Settle(t) PROVE Types'
  BY <1>3, EndTypes, RotatedKeeps DEF Settle
<1>4. ASSUME NEW t \in Tasks, Refreshed(t) PROVE Types'
  BY <1>4 DEF Refreshed
<1>5. ASSUME NEW t \in Tasks, Refused(t) PROVE Types'
  BY <1>5, EndTypes, RotatedKeeps DEF Refused
<1>6. ASSUME NEW t \in Tasks, Exchange(t) PROVE Types'
  BY <1>6 DEF Exchange
<1>7. ASSUME NEW t \in Tasks, Flush(t) PROVE Types'
  BY <1>7 DEF Flush
<1>8. ASSUME NEW t \in Tasks, Commit(t) PROVE Types'
  BY <1>8, EndTypes, Encrypted DEF Commit
<1>9. ASSUME NEW t \in Tasks, Abort(t) PROVE Types'
  BY <1>9, EndTypes DEF Abort
<1>10. ASSUME NEW c \in Columns, ScriptRead(c) \/ ScriptSwap(c) PROVE Types'
  BY <1>10 DEF ScriptRead, ScriptSwap
<1>11. CASE ScriptCommit
  <2>1. \A c \in Columns : row[c].grant \in Nat
    BY DEF Sealed
  <2> QED
    BY <1>11, <2>1, Encrypted DEF ScriptCommit, ScriptEnd
<1>12. CASE ScriptAbort
  BY <1>12 DEF ScriptAbort, ScriptEnd
<1>13. CASE Deploy
  BY <1>13 DEF Deploy
<1>14. CASE Lapse
  BY <1>14 DEF Lapse
<1>15. CASE PurgeDormantTokens
  BY <1>15 DEF PurgeDormantTokens
<1>16. CASE UNCHANGED vars
  BY <1>16 DEF vars
<1> QED
  BY <1>1, <1>2, <1>3, <1>4, <1>5, <1>6, <1>7, <1>8, <1>9, <1>10, <1>11, <1>12, <1>13,
     <1>14, <1>15, <1>16 DEF Next
-----------------------------------------------------------------------------
(* Keys *)

\* What a transaction stores in a column: nothing, or under the current key.
Stored(c) == row'[c] = row[c] \/ row'[c].grant = 0 \/ row'[c].key = CurrentKey

LEMMA EveryStore ==
    ASSUME Types, [Next]_vars
    PROVE  \A c \in Columns : Stored(c)
<1> SUFFICES ASSUME NEW c \in Columns PROVE Stored(c)
  OBVIOUS
<1> USE DEF Stored
<1>1. ASSUME NEW t \in Tasks, Settle(t) \/ Refused(t) PROVE Stored(c)
  <2>1. row' = row \/ \E columns : row' = Rotated(t, columns)
    BY <1>1 DEF Settle, Refused
  <2> QED
    BY <2>1, RotatedKeeps
<1>2. ASSUME NEW t \in Tasks, Commit(t) PROVE Stored(c)
  BY <1>2, Encrypted DEF Types, Commit
<1>3. CASE ScriptCommit
  <2>1. row[c].grant \in Nat
    BY DEF Types, Sealed
  <2> QED
    BY <1>3, <2>1, Encrypted DEF ScriptCommit
<1>4. CASE PurgeDormantTokens
  BY <1>4 DEF PurgeDormantTokens, NoObject, Empty, NoGrant
<1>5. CASE UNCHANGED row
  BY <1>5
<1> QED
  BY <1>1, <1>2, <1>3, <1>4, <1>5
  DEF Next, Load, LockRow, Refreshed, Exchange, Flush, Abort, ScriptRead, ScriptSwap,
      ScriptAbort, Deploy, Lapse, vars

\* Before the rotation everything is under the old key, after the script under
\* the new one; a column changes behind the script only to the new key.
KeyInv ==
    /\ phase = "old" => \A c \in Columns : row[c].grant # 0 => row[c].key = 1
    /\ clean => phase # "old" /\ \A c \in Columns : row[c].grant # 0 => row[c].key = 2
    /\ phase = "new" => clean
    /\ phase # "both" => read = NoObject
    /\ \A c \in swapped : read[c] # Empty
    /\ \A c \in Columns : read[c] # Empty =>
          /\ read[c].grant # 0
          /\ row[c] = read[c] \/ row[c].grant = 0 \/ row[c].key = 2

LEMMA KeyInit == Init => KeyInv
    BY DEF Init, KeyInv, NoObject

\* A step that leaves the deploys and the script alone.
LEMMA KeyKept ==
    ASSUME Types, KeyInv, [Next]_vars, UNCHANGED <<phase, scriptVars>>
    PROVE  KeyInv'
<1>1. \A c \in Columns : Stored(c)
  BY EveryStore
<1>2. ASSUME NEW c \in Columns PROVE read[c] # Empty => phase = "both"
  BY DEF KeyInv, NoObject
<1>3. \A c \in Columns :
        \/ row'[c].key = row[c].key /\ row'[c].grant = row[c].grant
        \/ row'[c].grant = 0
        \/ row'[c].key = CurrentKey
  BY <1>1 DEF Stored
<1>4. phase' = phase /\ read' = read /\ swapped' = swapped /\ clean' = clean
  BY DEF scriptVars
<1>5. (phase = "old" => \A c \in Columns : row[c].grant # 0 => row[c].key = 1)'
  BY <1>3, <1>4 DEF KeyInv, CurrentKey
<1>6. (clean => phase # "old" /\ \A c \in Columns : row[c].grant # 0 => row[c].key = 2)'
  BY <1>3, <1>4 DEF KeyInv, CurrentKey
<1>7. ASSUME NEW c \in Columns, read[c] # Empty
      PROVE  read[c].grant # 0 /\ (row'[c] = read[c] \/ row'[c].grant = 0 \/ row'[c].key = 2)
  BY <1>1, <1>2, <1>7 DEF KeyInv, CurrentKey, Stored
<1> QED
  BY <1>4, <1>5, <1>6, <1>7 DEF KeyInv

LEMMA KeyStep == Types /\ KeyInv /\ [Next]_vars => KeyInv'
<1> SUFFICES ASSUME Types, KeyInv, [Next]_vars PROVE KeyInv'
  OBVIOUS
<1>1. CASE UNCHANGED <<phase, scriptVars>>
  BY <1>1, KeyKept
<1>2. ASSUME NEW c \in Columns, ScriptRead(c) PROVE KeyInv'
  <2>1. /\ read' = [read EXCEPT ![c] = row[c]] /\ row[c].grant # 0 /\ phase = "both"
        /\ UNCHANGED <<phase, row, swapped, clean>>
    BY <1>2 DEF ScriptRead, NoGrant
  <2>2. \A d \in Columns : read'[d] = IF d = c THEN row[c] ELSE read[d]
    BY <2>1 DEF Types
  <2>3. row[c] # Empty
    BY <2>1 DEF Empty, NoGrant
  <2>4. swapped \subseteq Columns
    BY DEF Types
  <2>5. /\ \A d \in swapped : read'[d] # Empty
        /\ \A d \in Columns : read'[d] # Empty =>
              /\ read'[d].grant # 0
              /\ row[d] = read'[d] \/ row[d].grant = 0 \/ row[d].key = 2
    BY <2>1, <2>2, <2>3, <2>4 DEF KeyInv
  <2> QED
    BY <2>1, <2>5 DEF KeyInv
<1>3. ASSUME NEW c \in Columns, ScriptSwap(c) PROVE KeyInv'
  <2>1. /\ swapped' = swapped \cup {c} /\ read[c].grant # 0
        /\ UNCHANGED <<phase, row, read, clean>>
    BY <1>3 DEF ScriptSwap, Outdated, NoGrant
  <2>2. read[c] # Empty
    BY <2>1 DEF Empty, NoGrant
  <2> QED
    BY <2>1, <2>2 DEF KeyInv
<1>4. CASE ScriptCommit
  <2>1. /\ phase = "both" /\ phase' = phase /\ clean' = TRUE /\ read' = NoObject /\ swapped' = {}
        /\ row' = [c \in Columns |-> IF c \in swapped THEN Encrypt(row[c].grant) ELSE row[c]]
        /\ \A c \in Columns : ScriptDone(c)
    BY <1>4 DEF ScriptCommit, ScriptEnd
  <2>2. CurrentKey = 2
    BY <2>1 DEF CurrentKey
  <2>3. ASSUME NEW c \in Columns, row'[c].grant # 0 PROVE row'[c].key = 2
    <3>1. row[c].grant \in Nat /\ row[c] \in Sealed
      BY DEF Types, Sealed
    <3>2. CASE c \in swapped
      BY <2>1, <2>2, <3>1, <3>2, Encrypted
    <3>3. CASE c \notin swapped
      <4>1. row'[c] = row[c] /\ row[c].grant # 0
        BY <2>1, <2>3, <3>3
      <4>2. read[c] # Empty /\ (Outdated(read[c]) => row[c] # read[c])
        BY <2>1, <3>3, <4>1 DEF ScriptDone, ScriptColumns, NoGrant
      <4>3. row[c] = read[c] \/ row[c].key = 2
        BY <4>1, <4>2 DEF KeyInv
      <4>4. CASE row[c] = read[c]
        BY <2>1, <2>2, <3>1, <4>1, <4>2, <4>4 DEF Outdated, Decrypts, Sealed, NoGrant
      <4> QED
        BY <4>1, <4>3, <4>4
    <3> QED
      BY <3>2, <3>3
  <2>4. \A c \in Columns : read'[c] = Empty
    BY <2>1 DEF NoObject
  <2> QED
    BY <2>1, <2>3, <2>4 DEF KeyInv
<1>5. CASE ScriptAbort
  <2>1. UNCHANGED <<phase, row, clean>> /\ read' = NoObject /\ swapped' = {}
    BY <1>5 DEF ScriptAbort, ScriptEnd
  <2>2. \A c \in Columns : read'[c] = Empty
    BY <2>1 DEF NoObject
  <2> QED
    BY <2>1, <2>2 DEF KeyInv
<1>6. CASE Deploy
  <2>1. read = NoObject /\ UNCHANGED <<row, read, swapped, clean>>
    BY <1>6 DEF Deploy, scriptVars
  <2>2. CASE phase = "old" /\ phase' = "both"
    BY <2>1, <2>2 DEF KeyInv
  <2>3. CASE phase = "both" /\ clean /\ phase' = "new"
    BY <2>1, <2>3 DEF KeyInv
  <2> QED
    BY <1>6, <2>2, <2>3 DEF Deploy
<1> QED
  BY <1>1, <1>2, <1>3, <1>4, <1>5, <1>6
  DEF Next, Load, LockRow, Settle, Refreshed, Refused, Exchange, Flush, Commit, Abort,
      Lapse, PurgeDormantTokens, vars, scriptVars

\* What is stored can be read under the keys deployed, through every deploy of
\* a rotation.
THEOREM StaysReadable == Spec => []Readable
<1>1. Types /\ KeyInv => Readable
  BY DEF Types, KeyInv, Readable, Decrypts, CurrentKey, NoGrant
<1> QED
  BY <1>1, TypesInit, TypesStep, KeyInit, KeyStep, PTL DEF Spec
-----------------------------------------------------------------------------
(* The row lock *)

\* Who has locked the row has read it as it is, and keeps the lock with the
\* answer of the provider; a sign-in reads nothing.
LocksRow(t) ==
    /\ pc[t] = "locked" => locked = t /\ obj[t] = row
    /\ pc[t] = "flushed" => locked = t
    /\ pc[t] = "holding" /\ t \in Syncs \cup Watches => locked = t
    /\ t \in SignIns => obj[t] = NoObject

LockInv ==
    /\ \A t \in Tasks : LocksRow(t)
    /\ swapped # {} => locked = Script
    /\ \A c \in swapped : read[c] # Empty

LEMMA Kinds ==
    /\ NoTask \notin Tasks \cup {Script} /\ Script \notin Tasks
    /\ \A t \in Tasks : t \in Syncs \cup Imports \cup Watches => t \notin SignIns
    /\ \A t \in Tasks : t \in Imports => t \notin Syncs \cup Watches
    /\ \A t \in Tasks : t \in Syncs \cup Watches \cup Imports \/ t \in SignIns
    BY TasksAssumption DEF Tasks

LEMMA LockInit == Init => LockInv
    BY DEF Init, LockInv, LocksRow

\* Where t ends, the row may have changed only under its lock.
LEMMA LockEnd ==
    ASSUME Types, LockInv, NEW t \in Tasks, End(t), UNCHANGED scriptVars,
           row' = row \/ locked \in {t, NoTask}
    PROVE  LockInv'
<1>1. ASSUME NEW q \in Tasks PROVE LocksRow(q)'
  <2>1. CASE q = t
    BY <2>1 DEF Types, End, LocksRow
  <2>2. CASE q # t
    <3>1. pc'[q] = pc[q] /\ obj'[q] = obj[q]
      BY <2>2 DEF Types, End
    <3>2. locked' = locked \/ (locked = t /\ locked' = NoTask)
      BY DEF End
    <3> QED
      BY <2>2, <3>1, <3>2, Kinds DEF LockInv, LocksRow
  <2> QED
    BY <2>1, <2>2
<1>2. swapped # {} => locked' = Script
  BY Kinds DEF LockInv, End
<1> QED
  BY <1>1, <1>2 DEF LockInv, scriptVars

LEMMA LockStep == Types /\ LockInv /\ [Next]_vars => LockInv'
<1> SUFFICES ASSUME Types, LockInv, [Next]_vars PROVE LockInv'
  OBVIOUS
<1>1. ASSUME NEW t \in Tasks, Load(t) PROVE LockInv'
  <2>1. t \notin SignIns
    BY <1>1, Kinds DEF Load
  <2> QED
    BY <1>1, <2>1 DEF Load, Types, LockInv, LocksRow, scriptVars
<1>2. ASSUME NEW t \in Tasks, LockRow(t) PROVE LockInv'
  <2>1. /\ t \notin SignIns /\ locked = NoTask /\ locked' = t
        /\ pc' = [pc EXCEPT ![t] = "locked"] /\ obj' = [obj EXCEPT ![t] = row]
        /\ UNCHANGED <<row, scriptVars>>
    BY <1>2, Kinds DEF LockRow, Refreshes, Reloaded
  <2>2. ASSUME NEW q \in Tasks PROVE LocksRow(q)'
    <3>1. CASE q = t
      BY <2>1, <3>1 DEF Types, LocksRow
    <3>2. CASE q # t
      BY <2>1, <3>2, Kinds DEF Types, LockInv, LocksRow
    <3> QED
      BY <3>1, <3>2
  <2> QED
    BY <2>1, <2>2, Kinds DEF LockInv, scriptVars
<1>3. ASSUME NEW t \in Tasks, Settle(t) PROVE LockInv'
  BY <1>3, LockEnd DEF Settle, RowFree
<1>4. ASSUME NEW t \in Tasks, Refused(t) PROVE LockInv'
  <2>1. t \in Syncs => pc[t] = "locked" /\ locked = t
    BY <1>4, Kinds DEF Refused, Presents, LockInv, LocksRow
  <2> QED
    BY <1>4, <2>1, LockEnd DEF Refused
<1>5. ASSUME NEW t \in Tasks, Commit(t) PROVE LockInv'
  <2>1. locked = t
    BY <1>5 DEF Commit, LockInv, LocksRow
  <2> QED
    BY <1>5, <2>1, LockEnd DEF Commit
<1>6. ASSUME NEW t \in Tasks, Abort(t) PROVE LockInv'
  BY <1>6, LockEnd DEF Abort
<1>7. ASSUME NEW t \in Tasks, Refreshed(t) \/ Exchange(t) PROVE LockInv'
  <2>1. /\ pc' = [pc EXCEPT ![t] = "holding"] /\ UNCHANGED <<row, locked, obj, scriptVars>>
        /\ t \in Syncs \cup Watches => pc[t] = "locked"
    BY <1>7, Kinds DEF Refreshed, Exchange, Presents
  <2> QED
    BY <2>1 DEF Types, LockInv, LocksRow, scriptVars
<1>8. ASSUME NEW t \in Tasks, Flush(t) PROVE LockInv'
  <2>1. /\ pc[t] = "holding" /\ locked \in {t, NoTask} /\ locked' = t
        /\ pc' = [pc EXCEPT ![t] = "flushed"] /\ UNCHANGED <<row, obj, scriptVars>>
    BY <1>8 DEF Flush, RowFree
  <2>2. ASSUME NEW q \in Tasks PROVE LocksRow(q)'
    <3>1. CASE q = t
      BY <2>1, <3>1 DEF Types, LockInv, LocksRow
    <3>2. CASE q # t
      BY <2>1, <3>2, Kinds DEF Types, LockInv, LocksRow
    <3> QED
      BY <3>1, <3>2
  <2> QED
    BY <2>1, <2>2, Kinds DEF LockInv, scriptVars
<1>9. ASSUME NEW c \in Columns, ScriptRead(c) PROVE LockInv'
  <2>1. /\ read' = [read EXCEPT ![c] = row[c]] /\ row[c] # Empty
        /\ UNCHANGED <<row, locked, pc, obj, swapped>>
    BY <1>9 DEF ScriptRead, Empty, taskVars
  <2> QED
    BY <2>1 DEF Types, LockInv, LocksRow
<1>10. ASSUME NEW c \in Columns, ScriptSwap(c) PROVE LockInv'
  <2>1. /\ read[c] # Empty /\ locked \in {Script, NoTask} /\ locked' = Script
        /\ swapped' = swapped \cup {c} /\ UNCHANGED <<row, pc, obj, read>>
    BY <1>10 DEF ScriptSwap, RowFree, Outdated, Empty, taskVars
  <2> QED
    BY <2>1, Kinds DEF LockInv, LocksRow
<1>11. CASE ScriptCommit \/ ScriptAbort
  <2>1. /\ read' = NoObject /\ swapped' = {} /\ UNCHANGED <<pc, obj>>
        /\ locked' = IF locked = Script THEN NoTask ELSE locked
    BY <1>11 DEF ScriptCommit, ScriptAbort, ScriptEnd, taskVars
  <2>2. row' = row \/ locked = Script
    <3>1. CASE swapped = {} /\ ScriptCommit
      <4>1. row' = [c \in Columns |-> row[c]]
        BY <3>1 DEF ScriptCommit
      <4> QED
        BY <4>1 DEF Types
    <3>2. CASE swapped # {}
      BY <3>2 DEF LockInv
    <3>3. CASE ScriptAbort
      BY <3>3 DEF ScriptAbort
    <3> QED
      BY <1>11, <3>1, <3>2, <3>3
  <2>3. ASSUME NEW q \in Tasks PROVE LocksRow(q)'
    BY <2>1, <2>2, Kinds DEF LockInv, LocksRow
  <2> QED
    BY <2>1, <2>3 DEF LockInv
<1>12. CASE Deploy
  <2>1. /\ read = NoObject /\ UNCHANGED <<read, swapped>>
        /\ pc' = [t \in Tasks |-> IF pc[t] = "idle" THEN "idle" ELSE "ended"]
        /\ obj' = [t \in Tasks |-> NoObject]
    BY <1>12 DEF Deploy, scriptVars
  <2>2. swapped = {}
    BY <2>1 DEF Types, LockInv, NoObject
  <2> QED
    BY <2>1, <2>2 DEF LockInv, LocksRow
<1>13. CASE Lapse \/ UNCHANGED vars
  BY <1>13 DEF Lapse, vars, taskVars, scriptVars, LockInv, LocksRow
<1>14. CASE PurgeDormantTokens
  <2>1. locked = NoTask /\ UNCHANGED <<locked, pc, obj, read, swapped>>
    BY <1>14 DEF PurgeDormantTokens, taskVars, scriptVars
  <2> QED
    BY <2>1, Kinds DEF LockInv, LocksRow
<1> QED
  BY <1>1, <1>2, <1>3, <1>4, <1>5, <1>6, <1>7, <1>8, <1>9, <1>10, <1>11, <1>12, <1>13, <1>14
  DEF Next
-----------------------------------------------------------------------------
(* Grants *)

\* A grant that is received and not committed is nowhere else, and is live.
Unspent(t) ==
    got[t] # 0 =>
        /\ got[t] \in live
        /\ \A c \in Columns : row[c].grant # got[t]
        /\ \A q \in Tasks : \A c \in Columns : obj[q][c].grant # got[t]
        /\ \A q \in Tasks : q # t => got[q] # got[t]

Holder(t) ==
    /\ got[t] # 0 => pc[t] \in {"holding", "flushed"}
    /\ pc[t] \in {"holding", "flushed"} => got[t] # 0
    /\ t \in Imports /\ got[t] # 0 => obj[t]["refresh"].grant \in byImport

\* Numbers above "issued" are not in use.
Issued ==
    /\ 0 \notin live
    /\ \A c \in Columns : row[c].grant <= issued
    /\ \A t \in Tasks : got[t] <= issued /\ \A c \in Columns : obj[t][c].grant <= issued

Tracked ==
    \/ row["refresh"].grant \in live \cup lost \cup {0}
    \/ \E t \in Tasks : got[t] # 0 /\ obj[t]["refresh"].grant = row["refresh"].grant

GrantInv ==
    /\ \A t \in Tasks : Unspent(t) /\ Holder(t)
    /\ Issued
    /\ row["access"].grant = row["refresh"].grant
    /\ Tracked

LEMMA BothColumns == "access" \in Columns /\ "refresh" \in Columns
    BY DEF Columns

LEMMA Numbers ==
    ASSUME Types
    PROVE  /\ \A c \in Columns : row[c] \in Sealed /\ row[c].grant \in Nat
           /\ \A t \in Tasks, c \in Columns : obj[t][c] \in Sealed /\ obj[t][c].grant \in Nat
    BY DEF Types, Sealed

LEMMA GrantInit == Init => GrantInv
<1> SUFFICES ASSUME Init PROVE GrantInv
  OBVIOUS
<1>1. /\ \A c \in Columns : row[c].grant = 1
      /\ \A t \in Tasks : got[t] = 0 /\ pc[t] = "idle" /\ \A c \in Columns : obj[t][c].grant = 0
      /\ live = {1} /\ issued = 1
  BY Empties DEF Init, NoObject, Empty
<1> QED
  BY <1>1, BothColumns DEF GrantInv, Unspent, Holder, Issued, Tracked

\* An end of t that stores no other grant, and counts as lost what t had spent.
LEMMA GrantEnd ==
    ASSUME Types, Types', LockInv, GrantInv, NEW t \in Tasks, End(t),
           \A c \in Columns : row'[c].grant = row[c].grant,
           UNCHANGED <<live, issued, byImport>>,
           lost \subseteq lost', got[t] # 0 => Forfeited(t) \subseteq lost'
    PROVE  GrantInv'
<1>1. /\ pc'[t] = "ended" /\ got'[t] = 0 /\ \A c \in Columns : obj'[t][c].grant = 0
      /\ \A q \in Tasks : q # t => pc'[q] = pc[q] /\ got'[q] = got[q] /\ obj'[q] = obj[q]
  BY Empties DEF Types, End, NoObject, Empty
<1>2. ASSUME NEW q \in Tasks PROVE Unspent(q)' /\ Holder(q)'
  <2>1. CASE q = t
    BY <1>1, <2>1 DEF Unspent, Holder
  <2>2. CASE q # t
    <3>1. Holder(q)'
      BY <1>1, <2>2 DEF GrantInv, Holder
    <3>2. CASE got[q] # 0
      <4>1. /\ got'[q] = got[q] /\ got[q] \in live'
            /\ \A c \in Columns : row'[c].grant # got[q]
        BY <1>1, <2>2, <3>2 DEF GrantInv, Unspent
      <4>2. \A p \in Tasks : \A c \in Columns : obj'[p][c].grant # got[q]
        BY <1>1, <2>2, <3>2 DEF GrantInv, Unspent
      <4>3. \A p \in Tasks : p # q => got'[p] # got[q]
        BY <1>1, <2>2, <3>2 DEF GrantInv, Unspent
      <4> QED
        BY <3>1, <4>1, <4>2, <4>3 DEF Unspent
    <3>3. CASE got[q] = 0
      BY <1>1, <2>2, <3>1, <3>3 DEF Unspent
    <3> QED
      BY <3>2, <3>3
  <2> QED
    BY <2>1, <2>2
<1>3. Issued'
  <2>1. issued \in Nat
    BY DEF Types
  <2> QED
    BY <1>1, <2>1 DEF GrantInv, Issued
<1>4. row'["refresh"].grant = row["refresh"].grant /\ row'["access"].grant = row'["refresh"].grant
  BY BothColumns DEF GrantInv
<1>5. Tracked'
  <2>1. CASE row["refresh"].grant \in live \cup lost \cup {0}
    BY <1>4, <2>1 DEF Tracked
  <2>2. ASSUME NEW q \in Tasks, got[q] # 0, obj[q]["refresh"].grant = row["refresh"].grant
        PROVE  Tracked'
    <3>1. CASE q = t
      <4>1. CASE t \in SignIns
        <5>1. obj[t]["refresh"].grant = 0
          BY <4>1, BothColumns, Empties DEF LockInv, LocksRow, NoObject, Empty
        <5> QED
          BY <1>4, <2>2, <3>1, <5>1 DEF Tracked
      <4>2. CASE t \notin SignIns
        <5>1. Forfeited(t) = {obj[t]["refresh"].grant}
          BY <2>2, <3>1, <4>2 DEF GrantInv, Holder, Forfeited
        <5> QED
          BY <1>4, <2>2, <3>1, <5>1 DEF Tracked
      <4> QED
        BY <4>1, <4>2
    <3>2. CASE q # t
      BY <1>1, <1>4, <2>2, <3>2 DEF Tracked
    <3> QED
      BY <3>1, <3>2
  <2> QED
    BY <2>1, <2>2 DEF GrantInv, Tracked
<1> QED
  BY <1>2, <1>3, <1>4, <1>5 DEF GrantInv

\* A task reads the row.
LEMMA GrantRead ==
    ASSUME Types, GrantInv, NEW t \in Tasks, pc[t] \in {"idle", "loaded"},
           pc'[t] \in {"loaded", "locked"}, obj' = [obj EXCEPT ![t] = row],
           \A q \in Tasks : q # t => pc'[q] = pc[q],
           UNCHANGED <<row, got, live, issued, lost, byImport>>
    PROVE  GrantInv'
<1>1. got[t] = 0
  BY DEF GrantInv, Holder
<1>2. \A q \in Tasks : obj'[q] = IF q = t THEN row ELSE obj[q]
  BY DEF Types
<1>3. ASSUME NEW q \in Tasks PROVE Unspent(q)' /\ Holder(q)'
  BY <1>1, <1>2 DEF GrantInv, Unspent, Holder
<1>4. Issued'
  BY <1>2 DEF GrantInv, Issued
<1>5. Tracked'
  BY <1>1, <1>2 DEF GrantInv, Tracked
<1> QED
  BY <1>3, <1>4, <1>5 DEF GrantInv

\* The provider issues a grant to a task, and may take back the one it presented.
LEMMA GrantNew ==
    ASSUME Types, GrantInv, NEW t \in Tasks, got[t] = 0, issued' = issued + 1,
           pc' = [pc EXCEPT ![t] = "holding"], got' = [got EXCEPT ![t] = issued'],
           UNCHANGED <<row, obj, lost>>, byImport \subseteq byImport',
           live' \subseteq live \cup {issued'}, issued' \in live',
           \A g \in live : g # obj[t]["refresh"].grant => g \in live',
           t \in Imports => obj[t]["refresh"].grant \in byImport'
    PROVE  GrantInv'
<1>1. issued \in Nat /\ issued' > issued /\ issued' # 0
  BY DEF Types
<1>2. /\ pc'[t] = "holding" /\ got'[t] = issued'
      /\ \A q \in Tasks : q # t => pc'[q] = pc[q] /\ got'[q] = got[q]
  BY DEF Types
<1>3. \A c \in Columns : row[c].grant # issued'
  BY <1>1, Numbers DEF GrantInv, Issued
<1>4. \A q \in Tasks : got[q] # issued' /\ \A c \in Columns : obj[q][c].grant # issued'
  BY <1>1, Numbers DEF GrantInv, Issued, Types
<1>5. ASSUME NEW q \in Tasks PROVE Unspent(q)' /\ Holder(q)'
  <2>1. CASE q = t
    BY <1>1, <1>2, <1>3, <1>4, <2>1 DEF Unspent, Holder
  <2>2. CASE q # t
    <3>1. Holder(q)'
      BY <1>2, <2>2 DEF GrantInv, Holder
    <3>2. got[q] # 0 => got[q] # obj[t]["refresh"].grant
      BY BothColumns DEF GrantInv, Unspent
    <3>3. ASSUME got[q] # 0 PROVE Unspent(q)'
      <4>1. got'[q] = got[q] /\ got[q] \in live'
        BY <1>2, <2>2, <3>2, <3>3 DEF GrantInv, Unspent
      <4>2. \A c \in Columns : row'[c].grant # got[q]
        BY <3>3 DEF GrantInv, Unspent
      <4>3. \A p \in Tasks : \A c \in Columns : obj'[p][c].grant # got[q]
        BY <3>3 DEF GrantInv, Unspent
      <4>4. \A p \in Tasks : p # q => got'[p] # got[q]
        BY <1>2, <1>4, <3>3 DEF GrantInv, Unspent
      <4> QED
        BY <4>1, <4>2, <4>3, <4>4 DEF Unspent
    <3>4. got[q] = 0 => Unspent(q)'
      <4>1. got'[q] = got[q]
        BY <1>2, <2>2
      <4> QED
        BY <4>1 DEF Unspent
    <3> QED
      BY <3>1, <3>3, <3>4
  <2> QED
    BY <2>1, <2>2
<1>6. Issued'
  <2>1. 0 \notin live'
    BY <1>1 DEF GrantInv, Issued
  <2>2. \A c \in Columns : row'[c].grant <= issued'
    BY <1>1, Numbers DEF GrantInv, Issued
  <2>3. ASSUME NEW q \in Tasks PROVE got'[q] <= issued' /\ \A c \in Columns : obj'[q][c].grant <= issued'
    <3>1. got[q] \in Nat
      BY DEF Types
    <3> QED
      BY <1>1, <1>2, <3>1, Numbers DEF GrantInv, Issued
  <2> QED
    BY <2>1, <2>2, <2>3 DEF Issued
<1>7. Tracked'
  <2>1. CASE row["refresh"].grant = obj[t]["refresh"].grant
    BY <1>1, <1>2, <2>1 DEF Tracked
  <2>2. CASE row["refresh"].grant # obj[t]["refresh"].grant
    BY <1>2, <2>2 DEF GrantInv, Tracked
  <2> QED
    BY <2>1, <2>2
<1> QED
  BY <1>5, <1>6, <1>7 DEF GrantInv

\* Steps that store the grants that are there, if anything.
LEMMA GrantQuiet ==
    ASSUME GrantInv, \A c \in Columns : row'[c].grant = row[c].grant,
           UNCHANGED <<obj, got, live, issued, lost, byImport>>,
           \A t \in Tasks : pc'[t] = pc[t] \/ (pc[t] = "holding" /\ pc'[t] = "flushed")
    PROVE  GrantInv'
<1>1. ASSUME NEW t \in Tasks PROVE Unspent(t)' /\ Holder(t)'
  BY DEF GrantInv, Unspent, Holder
<1>2. Issued' /\ Tracked' /\ row'["access"].grant = row'["refresh"].grant
  BY BothColumns DEF GrantInv, Issued, Tracked
<1> QED
  BY <1>1, <1>2 DEF GrantInv

\* The grant a task holds is stored.
LEMMA GrantStored ==
    ASSUME Types, GrantInv, NEW t \in Tasks, Commit(t)
    PROVE  GrantInv'
<1>1. /\ got[t] # 0 /\ got[t] \in Nat /\ got[t] \in live
      /\ UNCHANGED <<live, issued, lost, byImport>>
  BY DEF Types, Commit, GrantInv, Holder, Unspent, history
<1>2. \A c \in Columns : row'[c].grant = got[t]
  BY <1>1, Encrypted DEF Commit
<1>3. /\ pc'[t] = "ended" /\ got'[t] = 0 /\ \A c \in Columns : obj'[t][c].grant = 0
      /\ \A q \in Tasks : q # t => pc'[q] = pc[q] /\ got'[q] = got[q] /\ obj'[q] = obj[q]
  BY Empties DEF Types, Commit, End, NoObject, Empty
<1>4. ASSUME NEW q \in Tasks PROVE Unspent(q)' /\ Holder(q)'
  <2>1. CASE q = t
    BY <1>3, <2>1 DEF Unspent, Holder
  <2>2. CASE q # t
    <3>1. Holder(q)'
      BY <1>1, <1>3, <2>2 DEF GrantInv, Holder
    <3>2. ASSUME got[q] # 0 PROVE Unspent(q)'
      <4>1. got[t] # got[q]
        BY <2>2, <3>2 DEF GrantInv, Unspent
      <4>2. \A p \in Tasks : \A c \in Columns : obj'[p][c].grant # got[q]
        BY <1>3, <3>2 DEF GrantInv, Unspent
      <4>3. \A p \in Tasks : p # q => got'[p] # got[q]
        BY <1>3, <3>2 DEF GrantInv, Unspent
      <4>4. got[q] \in live
        BY <3>2 DEF GrantInv, Unspent
      <4> QED
        BY <1>1, <1>2, <1>3, <2>2, <4>1, <4>2, <4>3, <4>4 DEF Unspent
    <3>3. CASE got[q] = 0
      <4>1. got'[q] = 0
        BY <1>3, <2>2, <3>3
      <4> QED
        BY <3>1, <4>1 DEF Unspent
    <3> QED
      BY <3>1, <3>2, <3>3
  <2> QED
    BY <2>1, <2>2
<1>5. Issued'
  <2>1. issued \in Nat
    BY DEF Types
  <2> QED
    BY <1>1, <1>2, <1>3, <2>1 DEF GrantInv, Issued
<1>6. Tracked' /\ row'["access"].grant = row'["refresh"].grant
  BY <1>1, <1>2, BothColumns DEF Tracked
<1> QED
  BY <1>4, <1>5, <1>6 DEF GrantInv

LEMMA GrantPurged ==
    ASSUME Types, GrantInv, PurgeDormantTokens
    PROVE  GrantInv'
<1> DEFINE g == row["access"].grant
<1>1. /\ UNCHANGED <<pc, obj, got, issued, byImport>>
      /\ live' = live \/ live' = live \ {g}
      /\ \/ row' = NoObject /\ lost' = lost
         \/ row' = row /\ lost' = lost \cup {g}
  BY DEF PurgeDormantTokens, RevokeProviderTokens, taskVars, history
<1>2. g = row["refresh"].grant
  BY DEF GrantInv
<1>3. ASSUME NEW t \in Tasks, got[t] # 0 PROVE got[t] \in live'
  BY <1>1, <1>3, BothColumns DEF GrantInv, Unspent
<1>4. \A c \in Columns : NoObject[c].grant = 0
  BY Empties DEF NoObject, Empty
<1>5. ASSUME NEW t \in Tasks PROVE Unspent(t)' /\ Holder(t)'
  BY <1>1, <1>3, <1>4 DEF GrantInv, Unspent, Holder
<1>6. Issued'
  <2>1. issued \in Nat
    BY DEF Types
  <2> QED
    BY <1>1, <1>4, <2>1 DEF GrantInv, Issued
<1>7. Tracked' /\ row'["access"].grant = row'["refresh"].grant
  BY <1>1, <1>2, <1>4, BothColumns DEF Tracked
<1> QED
  BY <1>5, <1>6, <1>7 DEF GrantInv

\* A deploy ends every task.
LEMMA GrantDeployed ==
    ASSUME Types, LockInv, GrantInv, Deploy
    PROVE  GrantInv'
<1>1. /\ UNCHANGED <<row, live, issued, byImport>>
      /\ lost' = lost \cup UNION { Forfeited(t) : t \in Tasks }
      /\ \A t \in Tasks : /\ pc'[t] \in {"idle", "ended"} /\ got'[t] = 0
                          /\ \A c \in Columns : obj'[t][c].grant = 0
  BY Empties DEF Deploy, NoObject, Empty
<1>2. ASSUME NEW t \in Tasks PROVE Unspent(t)' /\ Holder(t)'
  BY <1>1 DEF Unspent, Holder
<1>3. Issued'
  <2>1. issued \in Nat
    BY DEF Types
  <2> QED
    BY <1>1, <2>1 DEF GrantInv, Issued
<1>4. Tracked'
  <2>1. CASE row["refresh"].grant \in live \cup lost \cup {0}
    BY <1>1, <2>1 DEF Tracked
  <2>2. ASSUME NEW t \in Tasks, got[t] # 0, obj[t]["refresh"].grant = row["refresh"].grant
        PROVE  Tracked'
    <3>1. CASE t \in SignIns
      <4>1. obj[t]["refresh"].grant = 0
        BY <3>1, BothColumns, Empties DEF LockInv, LocksRow, NoObject, Empty
      <4> QED
        BY <1>1, <2>2, <4>1 DEF Tracked
    <3>2. CASE t \notin SignIns
      <4>1. Forfeited(t) = {row["refresh"].grant}
        BY <2>2, <3>2 DEF GrantInv, Holder, Forfeited
      <4> QED
        BY <1>1, <4>1 DEF Tracked
    <3> QED
      BY <3>1, <3>2
  <2> QED
    BY <2>1, <2>2 DEF GrantInv, Tracked
<1> QED
  BY <1>1, <1>2, <1>3, <1>4 DEF GrantInv

LEMMA GrantStep == Types /\ LockInv /\ GrantInv /\ [Next]_vars => GrantInv'
<1> SUFFICES ASSUME Types, LockInv, GrantInv, [Next]_vars PROVE GrantInv'
  OBVIOUS
<1> Types'
  BY TypesStep
<1>1. ASSUME NEW t \in Tasks, Load(t) PROVE GrantInv'
  <2>1. /\ pc[t] = "idle" /\ pc' = [pc EXCEPT ![t] = "loaded"] /\ obj' = [obj EXCEPT ![t] = row]
        /\ UNCHANGED <<row, got, live, issued, lost, byImport>>
    BY <1>1 DEF Load, history
  <2>2. pc'[t] = "loaded" /\ \A q \in Tasks : q # t => pc'[q] = pc[q]
    BY <2>1 DEF Types
  <2> QED
    BY <2>1, <2>2, GrantRead
<1>2. ASSUME NEW t \in Tasks, LockRow(t) PROVE GrantInv'
  <2>1. /\ pc[t] \in {"idle", "loaded"} /\ pc' = [pc EXCEPT ![t] = "locked"]
        /\ obj' = [obj EXCEPT ![t] = row] /\ UNCHANGED <<row, got, live, issued, lost, byImport>>
    BY <1>2 DEF LockRow, Refreshes, Reloaded, history
  <2>2. pc'[t] = "locked" /\ \A q \in Tasks : q # t => pc'[q] = pc[q]
    BY <2>1 DEF Types
  <2> QED
    BY <2>1, <2>2, GrantRead
<1>3. ASSUME NEW t \in Tasks, Settle(t) \/ Refused(t) PROVE GrantInv'
  <2>1. /\ End(t) /\ UNCHANGED <<live, issued, byImport, lost>>
        /\ row' = row \/ \E columns : row' = Rotated(t, columns)
        /\ pc[t] \in {"loaded", "locked"}
    BY <1>3 DEF Settle, Refused, Presents, history
  <2>2. \A c \in Columns : row'[c].grant = row[c].grant
    BY <2>1, RotatedKeeps
  <2>3. got[t] = 0
    BY <2>1 DEF GrantInv, Holder
  <2> QED
    BY <2>1, <2>2, <2>3, GrantEnd
<1>4. ASSUME NEW t \in Tasks, Abort(t) PROVE GrantInv'
  BY <1>4, GrantEnd DEF Abort
<1>5. ASSUME NEW t \in Tasks, Refreshed(t) PROVE GrantInv'
  <2>1. /\ pc[t] \in {"loaded", "locked"} /\ Presented(t) \in live /\ issued' = issued + 1
        /\ live' = (live \ {Presented(t)}) \cup {issued'}
        /\ got' = [got EXCEPT ![t] = issued'] /\ pc' = [pc EXCEPT ![t] = "holding"]
        /\ byImport' = IF t \in Imports THEN byImport \cup {Presented(t)} ELSE byImport
        /\ UNCHANGED <<row, obj, lost>>
    BY <1>5 DEF Refreshed, Presents
  <2>2. Presented(t) = obj[t]["refresh"].grant
    BY <2>1, Empties DEF GrantInv, Issued, Presented
  <2>3. got[t] = 0
    BY <2>1 DEF GrantInv, Holder
  <2> QED
    BY <2>1, <2>2, <2>3, GrantNew
<1>6. ASSUME NEW t \in Tasks, Exchange(t) PROVE GrantInv'
  <2>1. /\ pc[t] = "idle" /\ issued' = issued + 1 /\ live' = live \cup {issued'}
        /\ got' = [got EXCEPT ![t] = issued'] /\ pc' = [pc EXCEPT ![t] = "holding"]
        /\ t \notin Imports /\ UNCHANGED <<row, obj, lost, byImport>>
    BY <1>6, Kinds DEF Exchange, history
  <2>2. got[t] = 0
    BY <2>1 DEF GrantInv, Holder
  <2> QED
    BY <2>1, <2>2, GrantNew
<1>7. ASSUME NEW t \in Tasks, Flush(t) PROVE GrantInv'
  <2>1. /\ pc[t] = "holding" /\ pc' = [pc EXCEPT ![t] = "flushed"]
        /\ UNCHANGED <<row, obj, got, live, issued, lost, byImport>>
    BY <1>7 DEF Flush, history
  <2>2. \A q \in Tasks : pc'[q] = pc[q] \/ (pc[q] = "holding" /\ pc'[q] = "flushed")
    BY <2>1 DEF Types
  <2> QED
    BY <2>1, <2>2, GrantQuiet
<1>8. ASSUME NEW t \in Tasks, Commit(t) PROVE GrantInv'
  BY <1>8, GrantStored
<1>9. ASSUME NEW c \in Columns, ScriptRead(c) \/ ScriptSwap(c) PROVE GrantInv'
  BY <1>9, GrantQuiet DEF ScriptRead, ScriptSwap, taskVars, history
<1>10. CASE ScriptCommit
  <2>1. /\ row' = [c \in Columns |-> IF c \in swapped THEN Encrypt(row[c].grant) ELSE row[c]]
        /\ UNCHANGED <<pc, obj, got, live, issued, lost, byImport>>
    BY <1>10 DEF ScriptCommit, taskVars, history
  <2>2. \A c \in Columns : row'[c].grant = row[c].grant
    BY <2>1, Numbers, Encrypted
  <2> QED
    BY <2>1, <2>2, GrantQuiet
<1>11. CASE ScriptAbort \/ Lapse \/ UNCHANGED vars
  BY <1>11, GrantQuiet DEF ScriptAbort, Lapse, vars, taskVars, history
<1>12. CASE Deploy
  BY <1>12, GrantDeployed
<1>13. CASE PurgeDormantTokens
  BY <1>13, GrantPurged
<1> QED
  BY <1>1, <1>2, <1>3, <1>4, <1>5, <1>6, <1>7, <1>8, <1>9, <1>10, <1>11, <1>12, <1>13 DEF Next

TokensInv == Types /\ KeyInv /\ LockInv /\ GrantInv

THEOREM TokensHold == Spec => []TokensInv
<1>1. Init => TokensInv
  BY TypesInit, KeyInit, LockInit, GrantInit DEF TokensInv
<1>2. TokensInv /\ [Next]_vars => TokensInv'
  BY TypesStep, KeyStep, LockStep, GrantStep DEF TokensInv
<1> QED
  BY <1>1, <1>2, PTL DEF Spec

\* The stored columns are one grant's, and it is live unless its successor is
\* on its way or a failed transaction spent it.
THEOREM StaysLive == Spec => []StoredIsLive
<1>1. TokensInv => StoredIsLive
  BY Empties DEF TokensInv, GrantInv, Tracked, StoredIsLive
<1> QED
  BY <1>1, TokensHold, PTL

\* Tasks that lock the row present no token that another of them has spent.
THEOREM OneRefreshEach == Spec => []SerializedRefreshes
<1>1. TokensInv => SerializedRefreshes
  <2> SUFFICES ASSUME TokensInv, NEW t \in Tasks, pc[t] = "locked", Presents(t)
               PROVE  Presented(t) \in live \cup byImport \cup lost
    BY DEF SerializedRefreshes
  <2>1. obj[t] = row /\ locked = t /\ row["access"].grant # 0
    BY BothColumns DEF TokensInv, LockInv, LocksRow, Presents, Has, NoGrant
  <2>2. row["refresh"].grant # 0 /\ Decrypts(row["refresh"])
    BY <2>1, BothColumns DEF TokensInv, Types, KeyInv, GrantInv, Decrypts, CurrentKey
  <2>3. Presented(t) = row["refresh"].grant
    BY <2>1, <2>2 DEF Presented
  <2>4. ASSUME NEW q \in Tasks, got[q] # 0, obj[q]["refresh"].grant = row["refresh"].grant
        PROVE  q \in Imports
    <3>1. pc[q] \in {"holding", "flushed"}
      BY <2>4 DEF TokensInv, GrantInv, Holder
    <3>2. q # t
      BY <3>1
    <3>3. q \notin Syncs \cup Watches
      BY <2>1, <3>1, <3>2 DEF TokensInv, LockInv, LocksRow
    <3>4. q \notin SignIns
      BY <2>2, <2>4, BothColumns, Empties DEF TokensInv, LockInv, LocksRow, NoObject, Empty
    <3> QED
      BY <3>3, <3>4, Kinds
  <2>5. CASE row["refresh"].grant \in live \cup lost
    BY <2>3, <2>5
  <2>6. ASSUME NEW q \in Tasks, got[q] # 0, obj[q]["refresh"].grant = row["refresh"].grant
        PROVE  row["refresh"].grant \in byImport
    BY <2>4, <2>6 DEF TokensInv, GrantInv, Holder
  <2> QED
    BY <2>2, <2>3, <2>5, <2>6 DEF TokensInv, GrantInv, Tracked
<1> QED
  BY <1>1, TokensHold, PTL
-----------------------------------------------------------------------------
(* The number of grants *)

\* Tasks past the one point at which they may receive a grant.
Done == { t \in Tasks : pc[t] \in {"holding", "flushed", "ended"} }

\* Every number in use is of a grant that was issued, and each task was issued
\* one at most.
CountInv ==
    /\ live \cup byImport \cup lost \subseteq 0..issued
    /\ \A c \in Columns : read[c].grant <= issued
    /\ issued <= 1 + Cardinality(Done)

LEMMA DoneCounts ==
    ASSUME NEW D \in SUBSET Tasks, NEW E \in SUBSET Tasks, D \subseteq E
    PROVE  /\ Cardinality(D) \in Nat /\ Cardinality(E) \in Nat
           /\ Cardinality(D) <= Cardinality(E)
           /\ \A t \in E \ D : Cardinality(D) + 1 <= Cardinality(E)
<1>1. IsFiniteSet(Tasks)
  BY TasksAssumption
<1>2. IsFiniteSet(D) /\ IsFiniteSet(E)
  BY <1>1, FS_Subset
<1>3. Cardinality(D) \in Nat /\ Cardinality(E) \in Nat /\ Cardinality(D) <= Cardinality(E)
  BY <1>2, FS_Subset, FS_CardinalityType
<1>4. ASSUME NEW t \in E \ D PROVE Cardinality(D) + 1 <= Cardinality(E)
  <2>1. Cardinality(D \cup {t}) = Cardinality(D) + 1
    BY <1>2, <1>4, FS_AddElement
  <2>2. D \cup {t} \subseteq E
    BY <1>4
  <2>3. Cardinality(D \cup {t}) <= Cardinality(E)
    BY <1>2, <2>2, FS_Subset
  <2> QED
    BY <2>1, <2>3
<1> QED
  BY <1>3, <1>4

\* No task goes back to where it could receive another grant.
LEMMA DoneGrows ==
    ASSUME Types, [Next]_vars
    PROVE  Done \subseteq Done'
<1>1. ASSUME NEW t \in Tasks, End(t) PROVE Done \subseteq Done'
  BY <1>1 DEF Types, End, Done
<1>2. ASSUME NEW t \in Tasks, Load(t) \/ LockRow(t) PROVE Done \subseteq Done'
  <2>1. pc[t] \in {"idle", "loaded"} /\ \A q \in Tasks \ {t} : pc'[q] = pc[q]
    BY <1>2 DEF Types, Load, LockRow, Refreshes
  <2> QED
    BY <2>1 DEF Done
<1>3. ASSUME NEW t \in Tasks, Refreshed(t) \/ Exchange(t) \/ Flush(t) PROVE Done \subseteq Done'
  <2>1. pc'[t] \in {"holding", "flushed"} /\ \A q \in Tasks \ {t} : pc'[q] = pc[q]
    BY <1>3 DEF Types, Refreshed, Exchange, Flush
  <2> QED
    BY <2>1 DEF Done
<1>4. CASE Deploy
  BY <1>4 DEF Types, Deploy, Done
<1>5. CASE UNCHANGED pc
  BY <1>5 DEF Done
<1> QED
  BY <1>1, <1>2, <1>3, <1>4, <1>5
  DEF Next, Settle, Refused, Commit, Abort, ScriptRead, ScriptSwap, ScriptCommit, ScriptAbort,
      Lapse, PurgeDormantTokens, vars, taskVars

LEMMA CountInit == Init => CountInv
<1> SUFFICES ASSUME Init PROVE CountInv
  OBVIOUS
<1>1. Cardinality(Done) \in Nat
  BY DoneCounts DEF Done
<1>2. \A c \in Columns : read[c].grant = 0
  BY DEF Init, NoObject, Empty, NoGrant
<1> QED
  BY <1>1, <1>2 DEF Init, CountInv

\* A task is issued its grant.
LEMMA CountNew ==
    ASSUME Types, [Next]_vars, CountInv, NEW t \in Tasks, Refreshed(t) \/ Exchange(t)
    PROVE  CountInv'
<1>1. /\ issued' = issued + 1 /\ live' \subseteq live \cup {issued'}
      /\ byImport' \subseteq byImport \cup live /\ lost' = lost /\ read' = read
  BY DEF Refreshed, Exchange, scriptVars, history
<1>2. t \in Done' \ Done
  BY DEF Types, Refreshed, Exchange, Presents, Done
<1>3. Cardinality(Done) \in Nat /\ Cardinality(Done)' \in Nat
      /\ Cardinality(Done) + 1 <= Cardinality(Done)'
  <2>1. Done \in SUBSET Tasks /\ Done' \in SUBSET Tasks
    BY DEF Done
  <2> QED
    BY <1>2, <2>1, DoneGrows, DoneCounts
<1>4. issued \in Nat /\ \A c \in Columns : read[c].grant \in Nat
  BY DEF Types, Sealed
<1> QED
  BY <1>1, <1>3, <1>4 DEF CountInv

\* Every other step issues none, and notes only grants that were issued.
LEMMA CountStep == TokensInv /\ CountInv /\ [Next]_vars => CountInv'
<1> SUFFICES ASSUME Types, Issued, CountInv, [Next]_vars PROVE CountInv'
  BY DEF TokensInv, GrantInv
<1>1. issued \in Nat /\ \A c \in Columns : row[c].grant \in 0..issued
  BY Numbers DEF Types, Issued
<1>2. \A t \in Tasks : Forfeited(t) \subseteq 0..issued
  BY Numbers, BothColumns DEF Types, Issued, Forfeited
<1>3. CASE issued' = issued /\ live' \subseteq live /\ byImport' = byImport
           /\ lost' \subseteq lost \cup 0..issued
           /\ \A c \in Columns : read'[c].grant <= issued
  <2>1. Done \in SUBSET Tasks /\ Done' \in SUBSET Tasks
    BY DEF Done
  <2>2. Cardinality(Done) \in Nat /\ Cardinality(Done)' \in Nat
        /\ Cardinality(Done) <= Cardinality(Done)'
    BY <2>1, DoneGrows, DoneCounts
  <2> QED
    BY <1>1, <1>3, <2>2 DEF CountInv
<1>4. \A c \in Columns : read[c].grant <= issued
  BY DEF CountInv
<1>5. ASSUME NEW t \in Tasks,
             \/ Load(t) \/ LockRow(t) \/ Settle(t) \/ Refused(t) \/ Flush(t) \/ Commit(t)
      PROVE  CountInv'
  BY <1>3, <1>4, <1>5 DEF Load, LockRow, Settle, Refused, Flush, Commit, scriptVars, history
<1>6. ASSUME NEW t \in Tasks, Abort(t) PROVE CountInv'
  BY <1>2, <1>3, <1>4, <1>6 DEF Abort, scriptVars
<1>7. ASSUME NEW c \in Columns, ScriptRead(c) \/ ScriptSwap(c) PROVE CountInv'
  <2>1. \A d \in Columns : read'[d] = read[d] \/ read'[d] = row[c]
    BY <1>7 DEF Types, ScriptRead, ScriptSwap
  <2>2. UNCHANGED <<issued, live, history>>
    BY <1>7 DEF ScriptRead, ScriptSwap
  <2> QED
    BY <1>1, <1>3, <1>4, <2>1, <2>2 DEF history
<1>8. CASE ScriptCommit \/ ScriptAbort
  <2>1. UNCHANGED <<issued, live, history>> /\ \A c \in Columns : read'[c].grant = 0
    BY <1>8 DEF ScriptCommit, ScriptAbort, ScriptEnd, NoObject, Empty, NoGrant
  <2> QED
    BY <1>1, <1>3, <2>1 DEF history
<1>9. CASE Deploy
  BY <1>2, <1>3, <1>4, <1>9 DEF Deploy, scriptVars
<1>10. CASE PurgeDormantTokens
  <2>1. lost' \subseteq lost \cup {row["access"].grant} /\ live' \subseteq live
        /\ UNCHANGED <<issued, read, byImport>>
    BY <1>10 DEF PurgeDormantTokens, RevokeProviderTokens, scriptVars
  <2> QED
    BY <1>1, <1>3, <1>4, <2>1, BothColumns
<1>11. CASE Lapse \/ UNCHANGED vars
  BY <1>3, <1>4, <1>11 DEF Lapse, vars, scriptVars, history
<1>12. ASSUME NEW t \in Tasks, Refreshed(t) \/ Exchange(t) PROVE CountInv'
  BY <1>12, CountNew
<1> QED
  BY <1>5, <1>6, <1>7, <1>8, <1>9, <1>10, <1>11, <1>12 DEF Next

\* The variables keep their types: each task is issued one grant at most, so
\* the numbers of grants stay below what the type allows.
THEOREM TypeCorrect == Spec => []TypeOK
<1>1. TokensInv /\ CountInv => TypeOK
  <2> SUFFICES ASSUME Types, Issued, CountInv PROVE TypeOK
    BY DEF TokensInv, GrantInv
  <2>1. issued \in Grants /\ 0..issued \subseteq Grants
    <3>1. Done \in SUBSET Tasks /\ Tasks \in SUBSET Tasks
      BY DEF Done
    <3>2. /\ Cardinality(Done) \in Nat /\ Cardinality(Tasks) \in Nat
          /\ Cardinality(Done) <= Cardinality(Tasks)
      BY <3>1, DoneCounts
    <3> QED
      BY <3>2 DEF Types, CountInv, Grants
  <2>2. ASSUME NEW x \in Sealed, x.grant <= issued PROVE x \in Ciphertext
    BY <2>1, <2>2 DEF Types, Sealed, Ciphertext
  <2>3. row \in [Columns -> Ciphertext] /\ read \in [Columns -> Ciphertext]
    BY <2>2 DEF Types, Issued, CountInv
  <2>4. obj \in [Tasks -> [Columns -> Ciphertext]]
    <3>1. ASSUME NEW t \in Tasks PROVE obj[t] \in [Columns -> Ciphertext]
      BY <2>2 DEF Types, Issued
    <3> QED
      BY <3>1 DEF Types
  <2>5. got \in [Tasks -> Grants] /\ live \cup byImport \cup lost \subseteq Grants
    <3>1. \A t \in Tasks : got[t] \in 0..issued
      BY DEF Types, Issued
    <3> QED
      BY <2>1, <3>1 DEF Types, CountInv
  <2>6. dormant \in BOOLEAN
    BY DEF Types
  <2> QED
    BY <2>1, <2>3, <2>4, <2>5, <2>6 DEF Types, TypeOK
<1> QED
  BY <1>1, TokensHold, CountInit, CountStep, PTL DEF Spec
=============================================================================
