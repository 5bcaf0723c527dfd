------------------------------ MODULE Sessions ------------------------------
(***************************************************************************)
(* Sessions (routers/auth.py): the signed token in the cookie of each      *)
(* device, its sliding re-issue under the 30-day cap, logout, and the      *)
(* nightly purge of the provider tokens of dormant accounts                *)
(* (services/retention.py), which must spare an account with a session.    *)
(*                                                                         *)
(* One user with several devices, each with one request in flight; a tick  *)
(* is less than the second to which iat and exp are truncated, and the     *)
(* durations are a few ticks.                                              *)
(***************************************************************************)
EXTENDS Integers

CONSTANTS
    Devices,
    Second,         \* ticks in a second
    Expiry,         \* JWT_EXPIRY_HOURS, 72 h
    Interval,       \* REFRESH_INTERVAL, 12 h
    Cap,            \* SESSION_MAX_LIFETIME, 30 days
    Dormant,        \* DORMANT_TOKEN_RETENTION_DAYS, 90 days
    Latency,        \* bound on the ticks a request spends reading its user's row
    MaxTime,        \* bound on the clock
    NoCookie        \* a device that is not signed in

ASSUME DurationsAssumption ==
    /\ Second \in Nat \ {0} /\ MaxTime \in Nat /\ Latency \in Nat
    /\ Expiry \in Nat /\ Interval \in Nat /\ Cap \in Nat /\ Dormant \in Nat
    /\ Expiry % Second = 0
    /\ Interval < Expiry /\ Expiry <= Cap /\ Second <= Interval + 1
\* config.py:388: the retention must exceed the cap.
ASSUME DormantAssumption == Cap < Dormant

VARIABLES
    now,            \* the clock
    cookie,         \* the cookie of each device
    answered,       \* when its last request was answered with its cookie
    sent,           \* when its request in flight was checked
    pc,             \* what the server is doing for it
    carried,        \* the cookie of the request in flight
    stamp,          \* the time a logout has taken as its own
    invalidBefore,  \* users.tokens_invalid_before
    lastSeen,       \* users.last_seen_at
    connected,      \* the row holds provider tokens
    loggedOut       \* the latest stamp of a logout that was committed

vars == <<now, cookie, answered, sent, pc, carried, stamp, invalidBefore, lastSeen, connected, loggedOut>>

\* The claims of a token, when its cookie expires in the browser, and when
\* the user signed in.
Cookie == [iat : Int, orig : Int, until : Int, login : Int]

\* Before the first sign-in of a user: tokens_invalid_before is 1970.
Epoch == -1

TypeOK ==
    /\ now \in Nat
    /\ cookie \in [Devices -> Cookie \cup {NoCookie}]
    /\ answered \in [Devices -> Nat]
    /\ sent \in [Devices -> Nat]
    /\ pc \in [Devices -> {"idle", "checked", "stamped"}]
    /\ carried \in [Devices -> Cookie \cup {NoCookie}]
    /\ stamp \in [Devices -> Nat]
    /\ invalidBefore \in Int
    /\ lastSeen \in Nat
    /\ connected \in BOOLEAN
    /\ loggedOut \in Int

Init ==
    /\ now = 0
    /\ cookie = [d \in Devices |-> NoCookie]
    /\ answered = [d \in Devices |-> 0]
    /\ sent = [d \in Devices |-> 0]
    /\ pc = [d \in Devices |-> "idle"]
    /\ carried = [d \in Devices |-> NoCookie]
    /\ stamp = [d \in Devices |-> 0]
    /\ invalidBefore = Epoch
    /\ lastSeen = 0
    /\ connected = FALSE
    /\ loggedOut = Epoch
-----------------------------------------------------------------------------
(* Tokens and cookies *)

\* PyJWT writes iat and exp in whole seconds; orig_iat keeps its fraction.
Whole(t) == (t \div Second) * Second

Least(a, b) == IF a <= b THEN a ELSE b

\* set_session_cookie: the cookie lasts as long as the token, or as long as
\* the session, in whole seconds.
Issue(orig, login) ==
    [iat |-> Whole(now), orig |-> orig, login |-> login,
     until |-> now + Least(Expiry, Whole(Cap - (now - orig)))]

\* Signature apart, what get_current_user_id asks of a token: iat is the first
\* instant of its tick, a logout's stamp an instant within its own.
Unexpired(c) == now < c.iat + Expiry
NotRevoked(c) == c.iat > invalidBefore
UnderCap(c) == now - c.orig <= Cap

\* Mutant of ReissueDue: the token is about to expire.
ReissueLate(c) == c.iat + Expiry - now < Interval

ReissueDue(c) == now - c.iat > Interval

\* Mutant of SessionStart: every token starts a session.
SessionStartsNow(c) == now

\* The original sign-in is carried forward.
SessionStart(c) == c.orig

Usable(d) == cookie[d] # NoCookie /\ now < cookie[d].until
-----------------------------------------------------------------------------
(* Requests *)

\* Mutant of SeenAtSignIn: only a refresh of the provider tokens is activity.
NotSeenAtSignIn == lastSeen

SeenAtSignIn == now

\* The OAuth callback stores fresh provider tokens and starts a session.
SignIn(d) ==
    /\ pc[d] = "idle"
    /\ cookie' = [cookie EXCEPT ![d] = Issue(now, now)]
    /\ answered' = [answered EXCEPT ![d] = now]
    /\ lastSeen' = SeenAtSignIn
    /\ connected' = TRUE
    /\ UNCHANGED <<now, pc, carried, sent, stamp, invalidBefore, loggedOut>>

\* The token is decoded and the row read: the request may go on ...
Check(d) ==
    /\ pc[d] = "idle"
    /\ Usable(d)
    /\ Unexpired(cookie[d])
    /\ NotRevoked(cookie[d])
    /\ pc' = [pc EXCEPT ![d] = "checked"]
    /\ sent' = [sent EXCEPT ![d] = now]
    /\ carried' = [carried EXCEPT ![d] = cookie[d]]
    /\ UNCHANGED <<now, cookie, answered, stamp, invalidBefore, lastSeen, connected, loggedOut>>

\* The browser has no session.
SignOut(d) ==
    /\ cookie' = [cookie EXCEPT ![d] = NoCookie]
    /\ answered' = [answered EXCEPT ![d] = 0]

\* ... or is rejected, and the answer deletes the cookie.
Reject(d) ==
    /\ pc[d] = "idle"
    /\ Usable(d)
    /\ ~Unexpired(cookie[d]) \/ ~NotRevoked(cookie[d])
    /\ SignOut(d)
    /\ UNCHANGED <<now, pc, carried, sent, stamp, invalidBefore, lastSeen, connected, loggedOut>>

Finish(d) ==
    /\ pc' = [pc EXCEPT ![d] = "idle"]
    /\ carried' = [carried EXCEPT ![d] = NoCookie]
    /\ sent' = [sent EXCEPT ![d] = 0]

\* The cap, on the clock read after the row.
RejectAtCap(d) ==
    /\ pc[d] = "checked"
    /\ ~UnderCap(carried[d])
    /\ SignOut(d)
    /\ Finish(d)
    /\ UNCHANGED <<now, stamp, invalidBefore, lastSeen, connected, loggedOut>>

\* The answer, with a fresh cookie when the token is old enough and the
\* session has time left.
Answer(d) ==
    /\ pc[d] = "checked"
    /\ UnderCap(carried[d])
    /\ \/ /\ ReissueDue(carried[d])
          /\ now - carried[d].orig < Cap
          /\ cookie' = [cookie EXCEPT ![d] =
                           Issue(SessionStart(carried[d]), carried[d].login)]
       \/ /\ ~ReissueDue(carried[d]) \/ now - carried[d].orig >= Cap
          /\ UNCHANGED cookie
    /\ answered' = [answered EXCEPT ![d] = now]
    /\ Finish(d)
    /\ UNCHANGED <<now, stamp, invalidBefore, lastSeen, connected, loggedOut>>

\* The answer is lost, or the handler returns a Response of its own, without
\* the headers staged on the injected one.
AnswerWithoutCookie(d) ==
    /\ pc[d] = "checked"
    /\ Finish(d)
    /\ UNCHANGED <<now, cookie, answered, stamp, invalidBefore, lastSeen, connected, loggedOut>>

\* A logout takes its time stamp ...
Logout(d) ==
    /\ pc[d] = "checked"
    /\ UnderCap(carried[d])
    /\ pc' = [pc EXCEPT ![d] = "stamped"]
    /\ stamp' = [stamp EXCEPT ![d] = now]
    /\ UNCHANGED <<now, cookie, answered, carried, sent, invalidBefore, lastSeen, connected, loggedOut>>

\* ... and its UPDATE waits for whoever has locked the row, a token refresh in
\* the middle of its call to the provider for one (Tokens).
CommitLogout(d) ==
    /\ pc[d] = "stamped"
    /\ invalidBefore' = stamp[d]
    /\ loggedOut' = IF stamp[d] > loggedOut THEN stamp[d] ELSE loggedOut
    /\ SignOut(d)
    /\ stamp' = [stamp EXCEPT ![d] = 0]
    /\ Finish(d)
    /\ UNCHANGED <<now, lastSeen, connected>>

\* A refresh of the provider tokens counts as activity.
RefreshTokens ==
    /\ connected
    /\ lastSeen' = now
    /\ UNCHANGED <<now, cookie, answered, pc, carried, sent, stamp, invalidBefore, connected, loggedOut>>

PurgeDormantTokens ==
    /\ connected
    /\ lastSeen + Dormant < now
    /\ connected' = FALSE
    /\ UNCHANGED <<now, cookie, answered, pc, carried, sent, stamp, invalidBefore, lastSeen, loggedOut>>

Tick ==
    /\ now < MaxTime
    /\ \A d \in Devices : pc[d] = "checked" => now < sent[d] + Latency
    /\ now' = now + 1
    /\ UNCHANGED <<cookie, answered, pc, carried, sent, stamp, invalidBefore, lastSeen, connected, loggedOut>>

Next ==
    \/ \E d \in Devices :
          \/ SignIn(d)
          \/ Check(d) \/ Reject(d) \/ RejectAtCap(d)
          \/ Answer(d) \/ AnswerWithoutCookie(d)
          \/ Logout(d) \/ CommitLogout(d)
    \/ RefreshTokens \/ PurgeDormantTokens
    \/ Tick

Spec == Init /\ [][Next]_vars
-----------------------------------------------------------------------------
(* Properties *)

\* No session outlives the cap: a device is never answered later than that
\* after the sign-in its token descends from, over any number of re-issues.
EndsAtCap ==
    \A d \in Devices : cookie[d] # NoCookie => answered[d] - cookie[d].login <= Cap

\* A device that is used at least every Expiry - Interval (60 hours) stays
\* signed in up to the cap, unless a logout revokes it: its token and its
\* cookie both last that long beyond its last answer, or until the last second
\* before the cap.  (An answer of AnswerWithoutCookie does not count.)
StaysSignedIn ==
    \A d \in Devices : cookie[d] # NoCookie /\ answered[d] < cookie[d].orig + Cap =>
        Least(cookie[d].iat + Expiry, cookie[d].until)
            >= Least(answered[d] + Expiry - Interval, cookie[d].orig + Cap - Second)

\* While any device has a session that would be accepted, the account is not
\* dormant: the nightly purge has left its provider tokens (config.py:388).
LiveSessionKeepsTokens ==
    \A d \in Devices :
        Usable(d) /\ Unexpired(cookie[d]) /\ NotRevoked(cookie[d]) /\ UnderCap(cookie[d])
            => connected

-----------------------------------------------------------------------------
(* A promise the code breaks: TLC refutes it (README, section 3) *)

\* openspec/specs/authentication/spec.md:60: a logout invalidates every
\* session the user holds: none that was signed in before it is accepted once
\* it is committed.
LogoutRevokesEverySession ==
    \A d \in Devices :
        Usable(d) /\ Unexpired(cookie[d]) /\ NotRevoked(cookie[d])
            => cookie[d].login >= loggedOut
=============================================================================
