------------------------------ MODULE AuthSession ------------------------------
(***************************************************************************)
(* A signed-in browser tab and the sessions of the server.  The server     *)
(* gives a session a short-lived access token and a refresh token that is  *)
(* exchanged for a new pair (auth.py); a refresh token that comes twice is *)
(* taken for stolen.  The tab refreshes when a call is answered 401        *)
(* (api/client.ts) and, ahead of time, on a timer (contexts/AuthContext    *)
(* .tsx, sessionRefreshPolicy.ts); one promise is shared by all who wait.  *)
(* A request, its handler and its answer are apart: the cookies are read   *)
(* when it is sent and set when it is answered, and either may be lost.    *)
(* CSRF tokens are left out: a call they refuse has failed.                *)
(***************************************************************************)
EXTENDS Naturals, Sequences, FiniteSets

CONSTANTS
    Slots,        \* slots for the tab's API calls
    Handlers,     \* refreshes at the server, also those nobody waits for
    Ticks,        \* ticks of the timer that are not finished
    MaxSessions,  \* bound on logins
    MaxTokens,    \* bound on refresh tokens
    MaxFailures,  \* bound on lost requests, lost answers and reloads
    None

VARIABLES
    session,    \* per session, its status
    token,      \* the refresh tokens ever made, each with its session and status
    jar,        \* the cookies
    user,       \* the session whose user the tab shows, 0 when signed out
    call,       \* per slot, an API call of the tab or None
    refreshing, \* per handler, a refresh at the server or None
    promise,    \* the handler whose answer refreshPromise stands for, or None
    tick,       \* per tick, what it does or None
    inFlight,   \* proactiveRefreshInFlightRef
    failures

vars == <<session, token, jar, user, call, refreshing, promise, tick, inFlight, failures>>
server == <<session, token>>

Sessions  == 1..MaxSessions
Statuses  == {"none", "active", "revoked", "compromised"}
Kinds     == {"api", "me", "login", "logout", "switch"}
NoCookies == [access |-> 0, live |-> FALSE, refresh |-> 0]

Calls     == [kind : Kinds, of : 0..MaxSessions, again : BOOLEAN,
              state : {"sent", "ok", "refused", "waits"}]
Refreshes == [state : {"csrf", "sent", "rotates", "reused", "ok", "refused"},
              token : 0..MaxTokens, family : SUBSET (1..MaxTokens)]
TickType  == [of : Sessions, state : {"first", "pause", "second"}, aborted : BOOLEAN]

ASSUME AuthAssumption ==
    /\ MaxSessions \in Nat \ {0} /\ MaxTokens \in Nat \ {0} /\ MaxFailures \in Nat
    /\ IsFiniteSet(Handlers)
    /\ None \notin Handlers \cup Calls \cup Refreshes \cup TickType

Free(f, i) == f[i] = None
Full == Len(token) + Cardinality({h \in Handlers : ~Free(refreshing, h)}) >= MaxTokens

-----------------------------------------------------------------------------
(* A tab that is opened with the cookies of a session asks who it is.      *)
Call(kind) ==
    [kind |-> kind, of |-> IF jar.live THEN jar.access ELSE 0, again |-> FALSE, state |-> "sent"]

Init ==
    /\ session = [s \in Sessions |-> IF s = 1 THEN "active" ELSE "none"]
    /\ token = <<[of |-> 1, status |-> "active"]>>
    /\ jar = [access |-> 1, live |-> TRUE, refresh |-> 1]
    /\ user = 0
    /\ \E c \in Slots : call = [d \in Slots |-> IF d = c THEN Call("me") ELSE None]
    /\ refreshing = [h \in Handlers |-> None]
    /\ promise = None
    /\ tick = [t \in Ticks |-> None]
    /\ inFlight = FALSE
    /\ failures = 0

-----------------------------------------------------------------------------
(* setUser and the effects on it: the controller of the running tick is    *)
(* aborted whenever the user is replaced, and its flag cleared.  A pause   *)
(* that is aborted ends at once.                                           *)
Abort(ticks) ==
    [t \in Ticks |-> IF ticks[t] = None \/ ticks[t].state = "pause" THEN None
                     ELSE [ticks[t] EXCEPT !.aborted = TRUE]]

setUser(s) ==
    /\ user' = s
    /\ tick' = Abort(tick)
    /\ inFlight' = FALSE

sameUser == UNCHANGED <<user, tick, inFlight>>

(* clearLocalSession sets null, which is no change for who is signed out.  *)
clearLocalSession == IF user = 0 THEN sameUser ELSE setUser(0)

-----------------------------------------------------------------------------
(* Faulty: every caller starts a refresh of its own, and all go by the     *)
(* answer to the latest.                                                   *)
refreshWithoutSharing ==
    \E h \in Handlers :
        /\ ~Full /\ Free(refreshing, h)
        /\ promise' = h
        /\ refreshing' = [refreshing EXCEPT ![h] =
                            [state |-> "csrf", token |-> 0, family |-> {}]]

(* refreshAccessToken: who needs a refresh waits for the one under way, or *)
(* starts one, which asks for a CSRF token first.                          *)
refreshAccessToken ==
    \/ promise # None /\ UNCHANGED <<promise, refreshing>>
    \/ /\ promise = None /\ ~Full
       /\ \E h \in Handlers :
            /\ Free(refreshing, h)
            /\ promise' = h
            /\ refreshing' = [refreshing EXCEPT ![h] =
                                [state |-> "csrf", token |-> 0, family |-> {}]]

issueCsrf(h) ==
    /\ promise = h /\ refreshing[h].state = "csrf"
    /\ refreshing' = [refreshing EXCEPT ![h].state = "sent", ![h].token = jar.refresh]
    /\ UNCHANGED <<server, jar, user, call, promise, tick, inFlight, failures>>

(* The server reads the token and its session; a token that is not active  *)
(* is reused, and its family is read too.                                  *)
FamilyOf(s) == {i \in DOMAIN token : token[i].of = s}

RefreshRead(h) ==
    /\ ~Free(refreshing, h) /\ refreshing[h].state = "sent"
    /\ LET i == refreshing[h].token
       IN refreshing' =
            IF i = 0
              THEN [refreshing EXCEPT ![h].state = "refused"]
              ELSE IF token[i].status # "active"
              THEN [refreshing EXCEPT ![h].state = "reused", ![h].family = FamilyOf(token[i].of)]
              ELSE IF session[token[i].of] # "active"
              THEN [refreshing EXCEPT ![h].state = "refused"]
              ELSE [refreshing EXCEPT ![h].state = "rotates"]
    /\ UNCHANGED <<server, jar, user, call, promise, tick, inFlight, failures>>

(* _handle_refresh_reuse                                                   *)
ReuseCommits(h) ==
    /\ ~Free(refreshing, h) /\ refreshing[h].state = "reused"
    /\ session' = [session EXCEPT ![token[refreshing[h].token].of] = "compromised"]
    /\ token' = [i \in DOMAIN token |->
                   IF i \in refreshing[h].family THEN [token[i] EXCEPT !.status = "reused"]
                                                 ELSE token[i]]
    /\ refreshing' = [refreshing EXCEPT ![h].state = "refused", ![h].family = {}]
    /\ UNCHANGED <<jar, user, call, promise, tick, inFlight, failures>>

(* The rotation is committed whatever happened to the session since.       *)
RotationCommits(h) ==
    /\ ~Free(refreshing, h) /\ refreshing[h].state = "rotates"
    /\ LET i == refreshing[h].token
       IN token' = Append([token EXCEPT ![i].status = "rotated"],
                          [of |-> token[i].of, status |-> "active"])
    /\ refreshing' = [refreshing EXCEPT ![h].state = "ok", ![h].token = Len(token')]
    /\ UNCHANGED <<session, jar, user, call, promise, tick, inFlight, failures>>

-----------------------------------------------------------------------------
(* Faulty: only a refresh that succeeded calls them back.                  *)
ResumedOnSuccess(ok, cookies) ==
    [c \in Slots |->
        IF call[c] = None \/ call[c].state # "waits" \/ ~ok THEN call[c]
        ELSE [call[c] EXCEPT !.state = "sent", !.again = TRUE, !.of = cookies.access]]

(* All who wait go on in the same turn.  A call is sent once more with the *)
(* new cookies, or fails with its 401.                                     *)
Resumed(ok, cookies) ==
    [c \in Slots |->
        IF call[c] = None \/ call[c].state # "waits" THEN call[c]
        ELSE IF ok THEN [call[c] EXCEPT !.state = "sent", !.again = TRUE, !.of = cookies.access]
        ELSE [call[c] EXCEPT !.state = "refused", !.again = TRUE]]

(* Faulty: the signal is not looked at again after the second attempt.     *)
MaySignOutAborted(t) == tick[t] # None /\ tick[t].state = "second" /\ user # 0

(* refreshWithSingleRetry: after a first failure a tick pauses, unless it  *)
(* was aborted; after a second one it signs the user out, unless.          *)
MaySignOut(t) == tick[t] # None /\ tick[t].state = "second" /\ ~tick[t].aborted

TicksEnd(ok) ==
    [t \in Ticks |->
        IF tick[t] = None \/ tick[t].state = "pause" THEN tick[t]
        ELSE IF ok \/ tick[t].aborted \/ tick[t].state = "second" THEN None
        ELSE [tick[t] EXCEPT !.state = "pause"]]

(* Faulty: the promise is kept when it is settled.                         *)
keepPromise  == UNCHANGED promise
clearPromise == promise' = None

Resume(ok, cookies) ==
    /\ clearPromise
    /\ jar' = cookies
    /\ call' = Resumed(ok, cookies)
    /\ IF ~ok /\ \E t \in Ticks : MaySignOut(t)
         THEN user' = 0 /\ inFlight' = FALSE /\ tick' = Abort(TicksEnd(ok))
         ELSE /\ user' = user /\ tick' = TicksEnd(ok)
              /\ inFlight' = (inFlight /\ \A t \in Ticks : tick[t] # None => tick'[t] # None)

RefreshAnswered(h) ==
    /\ promise = h /\ refreshing[h].state \in {"ok", "refused"}
    /\ LET i == refreshing[h].token
       IN IF refreshing[h].state = "ok"
            THEN Resume(TRUE, [access |-> token[i].of, live |-> TRUE, refresh |-> i])
            ELSE Resume(FALSE, jar)
    /\ refreshing' = [refreshing EXCEPT ![h] = None]
    /\ UNCHANGED <<server, failures>>

(* The request is lost on its way, or it is handled and the answer is; the *)
(* handler of a lost one goes on without anybody waiting for it.           *)
RefreshFails(h) ==
    /\ promise = h /\ failures < MaxFailures
    /\ failures' = failures + 1
    /\ Resume(FALSE, jar)
    /\ \/ refreshing[h].state = "csrf" /\ refreshing' = [refreshing EXCEPT ![h] = None]
       \/ refreshing[h].state # "csrf" /\ UNCHANGED refreshing
    /\ UNCHANGED server

NobodyWaits(h) ==
    /\ ~Free(refreshing, h) /\ promise # h
    /\ refreshing[h].state \in {"sent", "ok", "refused"}
    /\ refreshing' = [refreshing EXCEPT ![h] = None]
    /\ UNCHANGED <<server, jar, user, call, promise, tick, inFlight, failures>>

-----------------------------------------------------------------------------
(* The timer's tick.                                                       *)
TickStarts(t) ==
    /\ Free(tick, t) /\ user # 0 /\ ~inFlight
    /\ inFlight' = TRUE
    /\ tick' = [u \in Ticks |-> IF u = t THEN [of |-> user, state |-> "first", aborted |-> FALSE]
                                ELSE Abort(tick)[u]]
    /\ refreshAccessToken
    /\ UNCHANGED <<server, jar, user, call, failures>>

TickRetries(t) ==
    /\ ~Free(tick, t) /\ tick[t].state = "pause"
    /\ tick' = [tick EXCEPT ![t].state = "second"]
    /\ refreshAccessToken
    /\ UNCHANGED <<server, jar, user, call, inFlight, failures>>

-----------------------------------------------------------------------------
(* API calls: the pages and their header call while somebody is signed in, *)
(* the login page is shown while nobody is and the tab knows it.           *)
Asked(kinds) == \E c \in Slots : ~Free(call, c) /\ call[c].kind \in kinds

apiFetch(c, kind) ==
    /\ Free(call, c)
    /\ kind = "login" => user = 0 /\ ~Asked({"me", "login"})
    /\ kind # "login" => user # 0
    /\ call' = [call EXCEPT ![c] = Call(kind)]
    /\ UNCHANGED <<server, jar, user, refreshing, promise, tick, inFlight, failures>>

Revoked(s) ==
    /\ session' = [session EXCEPT ![s] = "revoked"]
    /\ token' = [i \in DOMAIN token |->
                   IF token[i].of = s /\ token[i].status \in {"active", "rotated"}
                   THEN [token[i] EXCEPT !.status = "revoked"] ELSE token[i]]

Authenticated(s) == s # 0 /\ session[s] = "active"
Answer(c, state) == call' = [call EXCEPT ![c].state = state]

CallHandled(c) ==
    /\ ~Free(call, c) /\ call[c].state = "sent" /\ call[c].kind # "login"
    /\ IF ~Authenticated(call[c].of) THEN Answer(c, "refused") /\ UNCHANGED server
       ELSE /\ Answer(c, "ok")
            /\ IF call[c].kind = "logout" THEN Revoked(call[c].of) ELSE UNCHANGED server
    /\ UNCHANGED <<jar, user, refreshing, promise, tick, inFlight, failures>>

LoginHandled(c) ==
    /\ ~Free(call, c) /\ call[c].state = "sent" /\ call[c].kind = "login"
    /\ \/ Answer(c, "refused") /\ UNCHANGED server
       \/ \E s \in Sessions :
            /\ session[s] = "none" /\ ~Full
            /\ \A r \in 1..(s - 1) : session[r] # "none"
            /\ session' = [session EXCEPT ![s] = "active"]
            /\ token' = Append(token, [of |-> s, status |-> "active"])
            /\ call' = [call EXCEPT ![c].state = "ok", ![c].of = s]
    /\ UNCHANGED <<jar, user, refreshing, promise, tick, inFlight, failures>>

(* The first 401 of a call asks for a refresh.                             *)
shouldAttemptTokenRefresh(c) == call[c].kind # "login" /\ ~call[c].again

CallRefreshes(c) ==
    /\ ~Free(call, c) /\ call[c].state = "refused" /\ shouldAttemptTokenRefresh(c)
    /\ Answer(c, "waits")
    /\ refreshAccessToken
    /\ UNCHANGED <<server, jar, user, tick, inFlight, failures>>

(* The context waits for its calls: login, logout, switchRole, refreshUser.*)
Ends(c, ok) ==
    /\ call' = [call EXCEPT ![c] = None]
    /\ CASE call[c].kind = "api"    -> sameUser
         [] call[c].kind = "switch" -> IF ok THEN setUser(call[c].of) ELSE sameUser
         [] call[c].kind = "logout" -> clearLocalSession
         [] OTHER                   -> IF ok THEN setUser(call[c].of) ELSE clearLocalSession

CallAnswered(c) ==
    /\ ~Free(call, c)
    /\ \/ call[c].state = "ok" /\ Ends(c, TRUE)
       \/ call[c].state = "refused" /\ ~shouldAttemptTokenRefresh(c) /\ Ends(c, FALSE)
    /\ jar' = IF call[c].state # "ok" THEN jar
              ELSE IF call[c].kind = "logout" THEN NoCookies
              ELSE IF call[c].kind = "login"
              THEN [access |-> call[c].of, live |-> TRUE,
                    refresh |-> CHOOSE i \in DOMAIN token :
                                  /\ token[i].of = call[c].of
                                  /\ \A j \in FamilyOf(call[c].of) : i <= j]
              ELSE jar
    /\ UNCHANGED <<server, refreshing, promise, failures>>

CallFails(c) ==
    /\ ~Free(call, c) /\ call[c].state # "waits" /\ failures < MaxFailures
    /\ failures' = failures + 1
    /\ Ends(c, FALSE)
    /\ UNCHANGED <<server, jar, refreshing, promise>>

-----------------------------------------------------------------------------
(* The access token expires; a password changed, or an administrator ended *)
(* the session, elsewhere; the tab is loaded anew.                         *)
AccessExpires ==
    /\ jar.live
    /\ jar' = [jar EXCEPT !.live = FALSE]
    /\ UNCHANGED <<server, user, call, refreshing, promise, tick, inFlight, failures>>

RevokedElsewhere(s) ==
    /\ session[s] = "active"
    /\ Revoked(s)
    /\ UNCHANGED <<jar, user, call, refreshing, promise, tick, inFlight, failures>>

Reload ==
    /\ user # 0 /\ failures < MaxFailures
    /\ failures' = failures + 1
    /\ user' = 0 /\ promise' = None /\ inFlight' = FALSE
    /\ tick' = [t \in Ticks |-> None]
    /\ \E c \in Slots : call' = [d \in Slots |-> IF d = c THEN Call("me") ELSE None]
    /\ refreshing' = [h \in Handlers |->
                        IF ~Free(refreshing, h) /\ refreshing[h].state = "csrf" THEN None
                        ELSE refreshing[h]]
    /\ UNCHANGED <<server, jar>>

Server(h)   == RefreshRead(h) \/ ReuseCommits(h) \/ RotationCommits(h)
Proceeds(c) == CallHandled(c) \/ LoginHandled(c) \/ CallRefreshes(c) \/ CallAnswered(c)

Next ==
    \/ \E h \in Handlers :
         \/ issueCsrf(h) \/ Server(h) \/ RefreshAnswered(h) \/ RefreshFails(h) \/ NobodyWaits(h)
    \/ \E t \in Ticks : TickStarts(t) \/ TickRetries(t)
    \/ \E c \in Slots :
         \/ \E kind \in Kinds \ {"me"} : apiFetch(c, kind)
         \/ Proceeds(c) \/ CallFails(c)
    \/ \E s \in Sessions : RevokedElsewhere(s)
    \/ AccessExpires \/ Reload

Spec == Init /\ [][Next]_vars

-----------------------------------------------------------------------------
(* Cookies, calls, refreshes and ticks keep to their types, and the shared *)
(* promise always stands for a refresh that is under way.                  *)
TypeOK ==
    /\ session \in [Sessions -> Statuses]
    /\ Len(token) \in 0..MaxTokens
    /\ \A i \in DOMAIN token :
         token[i] \in [of : Sessions, status : {"active", "rotated", "reused", "revoked"}]
    /\ jar \in [access : 0..MaxSessions, live : BOOLEAN, refresh : 0..Len(token)]
    /\ user \in 0..MaxSessions
    /\ call \in [Slots -> Calls \cup {None}]
    /\ refreshing \in [Handlers -> Refreshes \cup {None}]
    /\ promise \in Handlers \cup {None} /\ (promise # None => ~Free(refreshing, promise))
    /\ tick \in [Ticks -> TickType \cup {None}]
    /\ inFlight \in BOOLEAN
    /\ failures \in 0..MaxFailures

(* Unless a request failed, a session has one refresh token that can be    *)
(* used, however many calls and ticks find at once that they need a new    *)
(* one, and no live session is taken for stolen.                           *)
RotationIsSafe ==
    failures = 0 =>
        /\ \A s \in Sessions : Cardinality({i \in FamilyOf(s) : token[i].status = "active"}) <= 1
        /\ \A h \in Handlers : ~Free(refreshing, h) /\ refreshing[h].state = "reused"
                               => session[token[refreshing[h].token].of] # "active"

(* Nobody waits in vain: a call or a tick that waits for a refresh has one *)
(* under way, so the end of that refresh, or its loss, lets it go on.      *)
WaitersAreServed ==
    \/ promise # None
    \/ /\ \A c \in Slots : ~Free(call, c) => call[c].state # "waits"
       /\ \A t \in Ticks : ~Free(tick, t) => tick[t].state = "pause"

(* Nobody is signed out of a live session, unless by the end of a logout   *)
(* or of a refused login, because a request failed, or because the answer  *)
(* to a refresh of the session before came after the login and put that    *)
(* session's cookies back.                                                 *)
StaysSignedIn ==
    [][user # 0 /\ user' = 0 /\ failures' = 0 =>
        \/ session[user] # "active"
        \/ jar.access # user
        \/ \E c \in Slots : call[c] # None /\ call[c].kind \in {"logout", "login"} /\ call'[c] = None]_vars
=============================================================================
