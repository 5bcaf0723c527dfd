---------------------------- MODULE SessionsProofs ----------------------------
(***************************************************************************)
(* Proofs about Sessions, for any number of devices and any durations that *)
(* meet its assumptions.                                                   *)
(***************************************************************************)
EXTENDS Sessions, TLAPS

\* Truncation to whole seconds loses less than a second.
LEMMA WholeBounds ==
    ASSUME NEW t \in Int
    PROVE  Whole(t) \in Int /\ Whole(t) <= t /\ t < Whole(t) + Second
<1> DEFINE q == t \div Second
<1>1. Second \in Nat /\ Second > 0
  BY DurationsAssumption
<1>2. q \in Int /\ t = Second * q + (t % Second) /\ t % Second \in 0 .. Second - 1
  BY <1>1
<1>3. q * Second = Second * q /\ Second * q \in Int /\ t % Second \in Int
  BY <1>1, <1>2
<1>4. Whole(t) = q * Second
  BY DEF Whole
<1> HIDE DEF q
<1> QED
  BY <1>1, <1>2, <1>3, <1>4

LEMMA Durations ==
    /\ Second \in Int /\ Expiry \in Int /\ Interval \in Int /\ Cap \in Int /\ Dormant \in Int
    /\ Interval < Expiry /\ Expiry <= Cap /\ Cap < Dormant
    /\ 1 <= Second /\ Second <= Interval + 1 /\ 0 <= Interval
    BY DurationsAssumption, DormantAssumption

LEMMA LeastBounds ==
    ASSUME NEW a \in Int, NEW b \in Int
    PROVE  /\ Least(a, b) \in Int /\ Least(a, b) <= a /\ Least(a, b) <= b
           /\ Least(a, b) = a \/ Least(a, b) = b
    BY DEF Least

\* The token expires, and the cookie, no sooner than the expiry or the cap ask.
Lasts(c) == Least(c.iat + Expiry, c.until) >= Least(c.iat + Expiry, c.orig + Cap - Second)

LastsFrom(c, t) ==
    Least(c.iat + Expiry, c.until) >= Least(t + Expiry - Interval, c.orig + Cap - Second)

LEMMA IssueIsSound ==
    ASSUME now \in Nat, NEW orig \in Int, NEW login \in Int
    PROVE  /\ Issue(orig, login) \in Cookie
           /\ Issue(orig, login).orig = orig
           /\ Issue(orig, login).login = login
           /\ Lasts(Issue(orig, login))
           /\ LastsFrom(Issue(orig, login), now)
<1> DEFINE i == Whole(now)
           l == Whole(Cap - (now - orig))
           u == now + Least(Expiry, l)
<1>1. i \in Int /\ i <= now /\ now < i + Second
  BY WholeBounds
<1>2. l \in Int /\ Cap - (now - orig) < l + Second
  <2>1. Cap - (now - orig) \in Int
    BY Durations
  <2> QED
    BY <2>1, WholeBounds
<1>3. u \in Int /\ (u = now + Expiry \/ u = now + l)
  <2> HIDE DEF l
  <2>1. Least(Expiry, l) \in Int /\ (Least(Expiry, l) = Expiry \/ Least(Expiry, l) = l)
    BY <1>2, LeastBounds, Durations
  <2> QED
    BY <2>1
<1>4. Issue(orig, login) = [iat |-> i, orig |-> orig, login |-> login, until |-> u]
  BY DEF Issue
<1> HIDE DEF i, l, u
<1>5. Least(i + Expiry, u) >= Least(i + Expiry, orig + Cap - Second)
  <2>1. u >= Least(i + Expiry, orig + Cap - Second)
    BY <1>1, <1>2, <1>3, Durations DEF Least
  <2> QED
    BY <1>1, <1>3, <2>1, Durations DEF Least
<1>6. Least(i + Expiry, u) >= Least(now + Expiry - Interval, orig + Cap - Second)
  <2>1. i + Expiry >= now + Expiry - Interval
    BY <1>1, Durations
  <2>2. u >= Least(now + Expiry - Interval, orig + Cap - Second)
    BY <1>2, <1>3, Durations DEF Least
  <2> QED
    BY <1>1, <1>3, <2>1, <2>2, Durations DEF Least
<1> QED
  BY <1>1, <1>3, <1>4, <1>5, <1>6 DEF Cookie, Lasts, LastsFrom
-----------------------------------------------------------------------------
(* Types *)

\* A request in flight carries the cookie its device still has.
InFlight == \A d \in Devices : pc[d] # "idle" => cookie[d] # NoCookie /\ carried[d] = cookie[d]

TypeInv == TypeOK /\ InFlight

LEMMA TypeInit == Init => TypeInv
<1>1. Epoch \in Int
  BY DEF Epoch
<1>2. ASSUME Init PROVE TypeOK
  BY <1>1, <1>2 DEF Init, TypeOK
<1>3. ASSUME Init PROVE InFlight
  BY <1>3 DEF Init, InFlight
<1> QED
  BY <1>2, <1>3 DEF TypeInv

LEMMA InFlightStep == TypeOK /\ InFlight /\ [Next]_vars => InFlight'
<1> SUFFICES ASSUME TypeOK, InFlight, [Next]_vars PROVE InFlight'
  OBVIOUS
<1> USE DEF TypeOK, InFlight
<1>1. CASE \E d \in Devices : SignIn(d) \/ Check(d) \/ Reject(d)
  BY <1>1 DEF SignIn, Check, Reject, Usable, SignOut, Issue
<1>2. CASE \E d \in Devices : RejectAtCap(d) \/ AnswerWithoutCookie(d) \/ Logout(d) \/ CommitLogout(d)
  BY <1>2 DEF RejectAtCap, AnswerWithoutCookie, Logout, CommitLogout, SignOut, Finish
<1>3. CASE \E d \in Devices : Answer(d)
  BY <1>3 DEF Answer, Finish
<1>4. CASE RefreshTokens \/ PurgeDormantTokens \/ Tick \/ UNCHANGED vars
  BY <1>4 DEF RefreshTokens, PurgeDormantTokens, Tick, vars
<1> QED
  BY <1>1, <1>2, <1>3, <1>4 DEF Next

LEMMA TypeStep == TypeInv /\ [Next]_vars => TypeInv'
<1> SUFFICES ASSUME TypeInv, [Next]_vars PROVE TypeOK'
  BY InFlightStep DEF TypeInv
<1> USE DEF TypeInv, TypeOK
<1>1. ASSUME NEW d \in Devices, SignIn(d) PROVE TypeOK'
  BY <1>1, IssueIsSound DEF SignIn, SeenAtSignIn
<1>2. ASSUME NEW d \in Devices, Check(d) PROVE TypeOK'
  BY <1>2 DEF Check
<1>3. ASSUME NEW d \in Devices, Reject(d) PROVE TypeOK'
  BY <1>3 DEF Reject, SignOut
<1>4. ASSUME NEW d \in Devices, RejectAtCap(d) PROVE TypeOK'
  BY <1>4 DEF RejectAtCap, SignOut, Finish
<1>5. ASSUME NEW d \in Devices, Answer(d) PROVE TypeOK'
  <2> carried[d] \in Cookie
    BY <1>5 DEF Answer, InFlight
  <2>1. Issue(SessionStart(carried[d]), carried[d].login) \in Cookie
    BY <1>5, IssueIsSound DEF SessionStart, Cookie
  <2>2. CASE cookie' = [cookie EXCEPT ![d] = Issue(SessionStart(carried[d]), carried[d].login)]
    BY <1>5, <2>1, <2>2 DEF Answer, Finish
  <2>3. CASE UNCHANGED cookie
    BY <1>5, <2>3 DEF Answer, Finish
  <2> QED
    BY <1>5, <2>2, <2>3 DEF Answer
<1>6. ASSUME NEW d \in Devices, AnswerWithoutCookie(d) PROVE TypeOK'
  BY <1>6 DEF AnswerWithoutCookie, Finish
<1>7. ASSUME NEW d \in Devices, Logout(d) PROVE TypeOK'
  BY <1>7 DEF Logout
<1>8. ASSUME NEW d \in Devices, CommitLogout(d) PROVE TypeOK'
  BY <1>8 DEF CommitLogout, SignOut, Finish
<1>9. CASE RefreshTokens
  BY <1>9 DEF RefreshTokens
<1>10. CASE PurgeDormantTokens
  BY <1>10 DEF PurgeDormantTokens
<1>11. CASE Tick
  BY <1>11 DEF Tick
<1>12. CASE UNCHANGED vars
  BY <1>12 DEF vars
<1> QED
  BY <1>1, <1>2, <1>3, <1>4, <1>5, <1>6, <1>7, <1>8, <1>9, <1>10, <1>11, <1>12 DEF Next

\* Every component of the state has its type: the claims of tokens, the stamps
\* of logouts, the program counters.
THEOREM TypeCorrect == Spec => []TypeOK
<1>1. TypeInv => TypeOK
  BY DEF TypeInv
<1> QED
  BY <1>1, TypeInit, TypeStep, PTL DEF Spec
-----------------------------------------------------------------------------
(* The cap, and the purge that waits for it *)

\* A token descends from a sign-in the account has not forgotten, its device
\* was answered under the cap, and the provider tokens are there until then.
Bounded(d) ==
    cookie[d] # NoCookie =>
        /\ cookie[d].orig = cookie[d].login
        /\ cookie[d].login <= lastSeen
        /\ answered[d] - cookie[d].login <= Cap
        /\ connected \/ cookie[d].login + Cap < now

CapInv == lastSeen <= now /\ \A d \in Devices : Bounded(d)

LEMMA CapInit == Init => CapInv
    BY DEF Init, CapInv, Bounded

LEMMA CapStep == TypeInv /\ CapInv /\ [Next]_vars => CapInv'
<1> SUFFICES ASSUME TypeInv, CapInv, [Next]_vars PROVE CapInv'
  OBVIOUS
<1> USE Durations DEF TypeInv, TypeOK, CapInv
<1>1. ASSUME NEW d \in Devices, SignIn(d) PROVE CapInv'
  <2>1. cookie' = [cookie EXCEPT ![d] = Issue(now, now)] /\ answered' = [answered EXCEPT ![d] = now]
        /\ lastSeen' = now /\ connected' = TRUE /\ now' = now
    BY <1>1 DEF SignIn, SeenAtSignIn
  <2>2. Issue(now, now).orig = now /\ Issue(now, now).login = now /\ Issue(now, now) \in Cookie
    BY IssueIsSound
  <2>3. ASSUME NEW e \in Devices PROVE Bounded(e)'
    <3>1. CASE e = d
      BY <2>1, <2>2, <3>1 DEF Bounded
    <3>2. CASE e # d
      BY <2>1, <3>2 DEF Bounded, Cookie
    <3> QED
      BY <3>1, <3>2
  <2> QED
    BY <2>1, <2>3
<1>2. ASSUME NEW d \in Devices, Check(d) \/ AnswerWithoutCookie(d) \/ Logout(d) PROVE CapInv'
  BY <1>2 DEF Check, AnswerWithoutCookie, Logout, Finish, Bounded
<1>3. ASSUME NEW d \in Devices, Reject(d) \/ RejectAtCap(d) \/ CommitLogout(d) PROVE CapInv'
  BY <1>3 DEF Reject, RejectAtCap, CommitLogout, SignOut, Finish, Bounded
<1>4. ASSUME NEW d \in Devices, Answer(d) PROVE CapInv'
  <2>1. cookie[d] # NoCookie /\ carried[d] = cookie[d] /\ cookie[d] \in Cookie
    BY <1>4 DEF Answer, InFlight
  <2>2. /\ answered' = [answered EXCEPT ![d] = now] /\ UnderCap(cookie[d])
        /\ UNCHANGED <<now, lastSeen, connected>>
    BY <1>4, <2>1 DEF Answer
  <2>3. now - cookie[d].login <= Cap
    BY <2>1, <2>2 DEF UnderCap, Bounded
  <2>4. CASE UNCHANGED cookie
    BY <2>1, <2>2, <2>3, <2>4 DEF Bounded, Cookie
  <2>5. CASE cookie' = [cookie EXCEPT ![d] = Issue(SessionStart(carried[d]), carried[d].login)]
    <3> DEFINE c == Issue(SessionStart(carried[d]), carried[d].login)
    <3>1. c \in Cookie /\ c.orig = cookie[d].orig /\ c.login = cookie[d].login
      <4>1. cookie[d].orig \in Int /\ cookie[d].login \in Int
        BY <2>1 DEF Cookie
      <4>2. c = Issue(cookie[d].orig, cookie[d].login)
        BY <2>1 DEF SessionStart
      <4> QED
        BY <4>1, <4>2, IssueIsSound
    <3>2. cookie' = [cookie EXCEPT ![d] = c]
      BY <2>5
    <3> HIDE DEF c
    <3>3. ASSUME NEW e \in Devices PROVE Bounded(e)'
      <4>1. CASE e = d
        BY <2>1, <2>2, <2>3, <3>1, <3>2, <4>1 DEF Bounded
      <4>2. CASE e # d
        <5>1. cookie'[e] = cookie[e] /\ answered'[e] = answered[e]
          BY <2>2, <3>2, <4>2
        <5> QED
          BY <2>2, <5>1 DEF Bounded
      <4> QED
        BY <4>1, <4>2
    <3> QED
      BY <2>2, <3>3
  <2> QED
    BY <1>4, <2>4, <2>5 DEF Answer
<1>5. CASE RefreshTokens
  BY <1>5 DEF RefreshTokens, Bounded, Cookie
<1>6. CASE PurgeDormantTokens
  BY <1>6 DEF PurgeDormantTokens, Bounded, Cookie
<1>7. CASE Tick
  BY <1>7 DEF Tick, Bounded, Cookie
<1>8. CASE UNCHANGED vars
  BY <1>8 DEF vars, Bounded
<1> QED
  BY <1>1, <1>2, <1>3, <1>4, <1>5, <1>6, <1>7, <1>8 DEF Next

THEOREM CapHolds == Spec => []CapInv
    BY TypeInit, TypeStep, CapInit, CapStep, PTL DEF Spec

\* No session outlives SESSION_MAX_LIFETIME, however often it is re-issued.
THEOREM SessionsEnd == Spec => []EndsAtCap
<1>1. CapInv => EndsAtCap
  BY DEF CapInv, Bounded, EndsAtCap
<1> QED
  BY <1>1, CapHolds, PTL

\* The purge of dormant tokens spares an account with a session.
THEOREM TokensSpared == Spec => []LiveSessionKeepsTokens
<1>1. TypeInv /\ CapInv => LiveSessionKeepsTokens
  BY Durations DEF TypeInv, TypeOK, CapInv, Bounded, LiveSessionKeepsTokens, Usable, UnderCap, Cookie
<1> QED
  BY <1>1, TypeInit, TypeStep, CapHolds, PTL DEF Spec
-----------------------------------------------------------------------------
(* Staying signed in *)

Steady(d) ==
    cookie[d] # NoCookie =>
        /\ Lasts(cookie[d])
        /\ answered[d] < cookie[d].orig + Cap => LastsFrom(cookie[d], answered[d])

SteadyInv == \A d \in Devices : Steady(d)

LEMMA SteadyInit == Init => SteadyInv
    BY DEF Init, SteadyInv, Steady

\* A token that is young enough not to be re-issued lasts long enough.
LEMMA YoungLasts ==
    ASSUME now \in Nat, NEW c \in Cookie, Lasts(c), ~ReissueDue(c)
    PROVE  LastsFrom(c, now)
<1> DEFINE l == Least(c.iat + Expiry, c.until)
<1>1. c.iat \in Int /\ c.until \in Int /\ c.orig \in Int
  BY DEF Cookie
<1>2. l \in Int
  BY <1>1, Durations DEF Least
<1>3. c.iat + Expiry >= now + Expiry - Interval
  BY <1>1, Durations DEF ReissueDue
<1>4. Least(c.iat + Expiry, c.orig + Cap - Second) >= Least(now + Expiry - Interval, c.orig + Cap - Second)
  BY <1>1, <1>3, Durations DEF Least
<1>5. l >= Least(c.iat + Expiry, c.orig + Cap - Second)
  BY DEF Lasts
<1>6. /\ Least(c.iat + Expiry, c.orig + Cap - Second) \in Int
      /\ Least(now + Expiry - Interval, c.orig + Cap - Second) \in Int
  BY <1>1, Durations DEF Least
<1>7. l >= Least(now + Expiry - Interval, c.orig + Cap - Second)
  <2> HIDE DEF l
  <2> QED
    BY <1>2, <1>4, <1>5, <1>6
<1> QED
  BY <1>7 DEF LastsFrom

LEMMA SteadyStep == TypeInv /\ SteadyInv /\ [Next]_vars => SteadyInv'
<1> SUFFICES ASSUME TypeInv, SteadyInv, [Next]_vars PROVE SteadyInv'
  OBVIOUS
<1> USE DEF TypeInv, TypeOK, SteadyInv
<1>1. ASSUME NEW d \in Devices, SignIn(d) PROVE SteadyInv'
  <2>1. cookie' = [cookie EXCEPT ![d] = Issue(now, now)] /\ answered' = [answered EXCEPT ![d] = now]
    BY <1>1 DEF SignIn
  <2>2. Lasts(Issue(now, now)) /\ LastsFrom(Issue(now, now), now)
    BY IssueIsSound
  <2> QED
    BY <2>1, <2>2 DEF Steady, Lasts, LastsFrom
<1>2. ASSUME NEW d \in Devices, Check(d) \/ AnswerWithoutCookie(d) \/ Logout(d) PROVE SteadyInv'
  BY <1>2 DEF Check, AnswerWithoutCookie, Logout, Finish, Steady, Lasts, LastsFrom
<1>3. ASSUME NEW d \in Devices, Reject(d) \/ RejectAtCap(d) \/ CommitLogout(d) PROVE SteadyInv'
  BY <1>3 DEF Reject, RejectAtCap, CommitLogout, SignOut, Finish, Steady, Lasts, LastsFrom
<1>4. ASSUME NEW d \in Devices, Answer(d) PROVE SteadyInv'
  <2>1. cookie[d] # NoCookie /\ carried[d] = cookie[d] /\ cookie[d] \in Cookie
    BY <1>4 DEF Answer, InFlight
  <2>2. answered' = [answered EXCEPT ![d] = now]
    BY <1>4 DEF Answer
  <2>3. CASE /\ UNCHANGED cookie
             /\ ~ReissueDue(cookie[d]) \/ now - cookie[d].orig >= Cap
    <3>1. Lasts(cookie[d])
      BY <2>1 DEF Steady
    <3>2. now < cookie[d].orig + Cap => LastsFrom(cookie[d], now)
      BY <2>1, <2>3, <3>1, YoungLasts, Durations DEF Cookie
    <3> QED
      BY <2>2, <2>3, <3>1, <3>2 DEF Steady, Lasts, LastsFrom
  <2>4. CASE cookie' = [cookie EXCEPT ![d] = Issue(SessionStart(carried[d]), carried[d].login)]
    <3> DEFINE c == Issue(SessionStart(carried[d]), carried[d].login)
    <3>1. Lasts(c) /\ LastsFrom(c, now)
      BY <2>1, IssueIsSound DEF SessionStart, Cookie
    <3>2. cookie' = [cookie EXCEPT ![d] = c]
      BY <2>4
    <3> HIDE DEF c
    <3> QED
      BY <2>2, <3>1, <3>2 DEF Steady, Lasts, LastsFrom
  <2> QED
    BY <1>4, <2>1, <2>3, <2>4 DEF Answer
<1>5. CASE RefreshTokens \/ PurgeDormantTokens \/ Tick \/ UNCHANGED vars
  BY <1>5 DEF RefreshTokens, PurgeDormantTokens, Tick, vars, Steady, Lasts, LastsFrom
<1> QED
  BY <1>1, <1>2, <1>3, <1>4, <1>5 DEF Next

\* A device in use stays signed in up to the cap.
THEOREM UsersStay == Spec => []StaysSignedIn
<1>1. SteadyInv => StaysSignedIn
  BY DEF SteadyInv, Steady, StaysSignedIn, LastsFrom
<1> QED
  BY <1>1, TypeInit, TypeStep, SteadyInit, SteadyStep, PTL DEF Spec
=============================================================================
