-------------------------- MODULE AuthSessionProofs --------------------------
(***************************************************************************)
(* Proofs about AuthSession for any number of calls, ticks, refreshes at   *)
(* the server, sessions and tokens.                                        *)
(***************************************************************************)
EXTENDS AuthSession, FiniteSetTheorems, TLAPS

TokenRecord == [of : Sessions, status : {"active", "rotated", "reused", "revoked"}]

(* The refreshes that may still make a token.                              *)
Pending == {h \in Handlers : ~Free(refreshing, h)
                             /\ refreshing[h].state \in {"csrf", "sent", "rotates", "reused"}}

TokensSound ==
    /\ token \in Seq(TokenRecord)
    /\ Len(token) + Cardinality(Pending) <= MaxTokens
    /\ \A i \in DOMAIN token : session[token[i].of] # "none"
    /\ \A s \in Sessions : session[s] # "none" =>
         \E i \in FamilyOf(s) : \A j \in FamilyOf(s) : i <= j

RefreshSound(r) ==
    /\ r.token <= Len(token)
    /\ r.state \in {"rotates", "reused", "ok"} => r.token # 0
    /\ r.state # "reused" => r.family = {}
    /\ \A j \in r.family : j \in DOMAIN token /\ token[j].of = token[r.token].of

RefreshesSound == \A h \in Handlers : ~Free(refreshing, h) => RefreshSound(refreshing[h])

(* A login that has been handled and not answered.                         *)
LoggedIn(c) == ~Free(call, c) /\ call[c].kind = "login" /\ call[c].state = "ok"

LoginsSound ==
    \A c \in Slots : LoggedIn(c) => call[c].of \in Sessions /\ session[call[c].of] # "none"

Core == TypeOK /\ TokensSound /\ RefreshesSound /\ LoginsSound

Usable(i) == session[token[i].of] = "active" => token[i].status = "active"

(* Without failures there is one refresh at a time, the one that is shared.*)
OneRefresh == \A h \in Handlers : ~Free(refreshing, h) => h = promise

OneActive ==
    \A i, j \in DOMAIN token :
        token[i].of = token[j].of /\ token[i].status = "active" /\ token[j].status = "active" => i = j

JarSound ==
    jar.refresh # 0 => Usable(jar.refresh) \/ (promise # None /\ refreshing[promise].state = "ok")

HeldSound(r) ==
    /\ r.state \in {"sent", "rotates", "ok"} /\ r.token # 0 => Usable(r.token)
    /\ r.state = "rotates" /\ token[r.token].status # "active" =>
         \A j \in FamilyOf(token[r.token].of) : token[j].status # "active"
    /\ r.state = "reused" => session[token[r.token].of] # "active"

(* Nobody else holds a token of a login that is not answered yet.          *)
LoginIsFresh(c) ==
    /\ \A i \in FamilyOf(call[c].of) : Usable(i)
    /\ jar.refresh # 0 => token[jar.refresh].of # call[c].of
    /\ \A h \in Handlers : ~Free(refreshing, h) /\ refreshing[h].token # 0
                           => token[refreshing[h].token].of # call[c].of
    /\ \A d \in Slots : LoggedIn(d) /\ d # c => call[d].of # call[c].of

Rotates ==
    /\ OneRefresh /\ OneActive /\ JarSound
    /\ \A h \in Handlers : ~Free(refreshing, h) => HeldSound(refreshing[h])
    /\ \A c \in Slots : LoggedIn(c) => LoginIsFresh(c)

Rotation == failures = 0 => Rotates

USE AuthAssumption DEF AuthAssumption

-----------------------------------------------------------------------------
(* The parts of Core that an action leaves alone.                          *)
LEMMA TokensStay ==
    ASSUME TokensSound, UNCHANGED <<server, refreshing>>
    PROVE  TokensSound'
BY DEF TokensSound, server, Pending, FamilyOf, Free

LEMMA RefreshesStay ==
    ASSUME RefreshesSound, UNCHANGED <<server, refreshing>>
    PROVE  RefreshesSound'
BY DEF RefreshesSound, RefreshSound, server, Free

LEMMA TokenFacts ==
    ASSUME Core
    PROVE  /\ Len(token) \in Nat /\ DOMAIN token = 1..Len(token)
           /\ \A i \in DOMAIN token : token[i] \in TokenRecord /\ token[i].of \in Sessions
           /\ IsFiniteSet(Pending) /\ Cardinality(Pending) \in Nat
           /\ Len(token) <= MaxTokens
<1>1. token \in Seq(TokenRecord)
    BY DEF Core, TokensSound
<1>2. IsFiniteSet(Pending) /\ Cardinality(Pending) \in Nat
    BY FS_Subset, FS_CardinalityType DEF Pending
<1>3. Len(token) \in Nat /\ DOMAIN token = 1..Len(token)
    BY <1>1
<1>4. \A i \in DOMAIN token : token[i] \in TokenRecord /\ token[i].of \in Sessions
    <2>1. \A i \in DOMAIN token : token[i] \in TokenRecord
        BY <1>1, <1>3
    <2> QED BY <2>1 DEF TokenRecord
<1>5. Len(token) <= MaxTokens
    BY <1>2, <1>3 DEF Core, TokensSound
<1> QED BY <1>2, <1>3, <1>4, <1>5

LEMMA PendingShrinks ==
    ASSUME Core, Pending' \subseteq Pending, Len(token') = Len(token)
    PROVE  Len(token') + Cardinality(Pending') <= MaxTokens
<1>1. Cardinality(Pending') <= Cardinality(Pending) /\ Cardinality(Pending') \in Nat
    BY TokenFacts, FS_Subset, FS_CardinalityType
<1> QED BY <1>1, TokenFacts DEF Core, TokensSound

(* A refresh is begun while there is room for the token it may make.       *)
LEMMA RoomForOne ==
    ASSUME Core, ~Full
    PROVE  Len(token) + Cardinality(Pending) < MaxTokens
<1> DEFINE Busy == {h \in Handlers : ~Free(refreshing, h)}
<1>1. IsFiniteSet(Busy) /\ Pending \subseteq Busy
    BY FS_Subset DEF Pending
<1>2. Cardinality(Pending) <= Cardinality(Busy) /\ Cardinality(Busy) \in Nat
    BY <1>1, FS_Subset, FS_CardinalityType
<1> QED BY <1>2, TokenFacts DEF Full

Begun == [state |-> "csrf", token |-> 0, family |-> {}]

LEMMA RefreshBegins ==
    ASSUME Core, refreshAccessToken, UNCHANGED server
    PROVE  /\ refreshing' \in [Handlers -> Refreshes \cup {None}]
           /\ promise' \in Handlers /\ ~Free(refreshing', promise')
           /\ TokensSound' /\ RefreshesSound'
<1>1. CASE promise # None /\ UNCHANGED <<promise, refreshing>>
    BY <1>1, TokensStay, RefreshesStay DEF Core, TypeOK, Free
<1>2. ASSUME promise = None, ~Full, NEW h \in Handlers, Free(refreshing, h), promise' = h,
             refreshing' = [refreshing EXCEPT ![h] = Begun]
      PROVE  /\ refreshing' \in [Handlers -> Refreshes \cup {None}]
             /\ promise' \in Handlers /\ ~Free(refreshing', promise')
             /\ TokensSound' /\ RefreshesSound'
    <2>1. Begun \in Refreshes
        BY DEF Begun, Refreshes
    <2>2. refreshing' \in [Handlers -> Refreshes \cup {None}]
        BY <1>2, <2>1 DEF Core, TypeOK
    <2>3. Pending' \subseteq Pending \cup {h}
        BY <1>2, <2>1 DEF Pending, Core, TypeOK, Free
    <2>4. Cardinality(Pending') <= Cardinality(Pending) + 1 /\ Cardinality(Pending') \in Nat
        <3>1. /\ IsFiniteSet(Pending \cup {h})
              /\ Cardinality(Pending \cup {h}) <= Cardinality(Pending) + 1
            <4>1. IsFiniteSet(Pending) /\ Cardinality(Pending) \in Nat
                BY TokenFacts
            <4>2. /\ IsFiniteSet(Pending \cup {h})
                  /\ Cardinality(Pending \cup {h}) =
                       IF h \in Pending THEN Cardinality(Pending) ELSE Cardinality(Pending) + 1
                BY <4>1, FS_AddElement
            <4> QED BY <4>1, <4>2
        <3>2. IsFiniteSet(Pending') /\ Cardinality(Pending') <= Cardinality(Pending \cup {h})
            BY <2>3, <3>1, FS_Subset
        <3>3. Cardinality(Pending') \in Nat /\ Cardinality(Pending \cup {h}) \in Nat
            BY <3>1, <3>2, FS_CardinalityType
        <3> QED BY <3>1, <3>2, <3>3, TokenFacts
    <2>5. TokensSound'
        BY <1>2, <2>4, RoomForOne, TokenFacts DEF Core, TokensSound, server, FamilyOf
    <2>6. RefreshesSound'
        BY <1>2, TokenFacts DEF Core, TypeOK, RefreshesSound, RefreshSound, Begun, server, Free
    <2> QED BY <1>2, <2>1, <2>2, <2>5, <2>6 DEF Core, TypeOK, Free
<1> QED BY <1>1, <1>2 DEF refreshAccessToken, Begun

-----------------------------------------------------------------------------
(* The user, the ticks and the calls of the tab.                           *)
TabTyped ==
    /\ user \in 0..MaxSessions
    /\ call \in [Slots -> Calls \cup {None}]
    /\ tick \in [Ticks -> TickType \cup {None}]
    /\ inFlight \in BOOLEAN

LEMMA AbortTyped ==
    ASSUME NEW ticks \in [Ticks -> TickType \cup {None}]
    PROVE  /\ Abort(ticks) \in [Ticks -> TickType \cup {None}]
           /\ \A t \in Ticks : Abort(ticks)[t] # None =>
                /\ ticks[t] # None /\ Abort(ticks)[t].state = ticks[t].state
                /\ Abort(ticks)[t].of = ticks[t].of /\ Abort(ticks)[t].aborted
BY DEF Abort, TickType

LEMMA UserTyped ==
    ASSUME TypeOK, NEW s \in 0..MaxSessions, setUser(s) \/ sameUser
    PROVE  user' \in 0..MaxSessions /\ tick' \in [Ticks -> TickType \cup {None}] /\ inFlight' \in BOOLEAN
<1>1. CASE setUser(s)
    <2>1. tick' = Abort(tick) /\ Abort(tick) \in [Ticks -> TickType \cup {None}]
        BY <1>1, AbortTyped DEF setUser, TypeOK
    <2> QED BY <1>1, <2>1 DEF setUser
<1>2. CASE sameUser
    BY <1>2 DEF sameUser, TypeOK
<1> QED BY <1>1, <1>2

LEMMA CallMoves ==
    ASSUME call \in [Slots -> Calls \cup {None}], NEW c \in Slots, ~Free(call, c),
           NEW state \in {"sent", "ok", "refused", "waits"}, Answer(c, state)
    PROVE  /\ call' \in [Slots -> Calls \cup {None}] /\ ~Free(call', c)
           /\ call'[c] = [call[c] EXCEPT !.state = state]
           /\ call'[c].kind = call[c].kind /\ call'[c].of = call[c].of /\ call'[c].state = state
           /\ \A d \in Slots \ {c} : call'[d] = call[d]
<1>1. call[c] \in Calls
    BY DEF Free
<1>2. /\ [call[c] EXCEPT !.state = state] \in Calls
      /\ [call[c] EXCEPT !.state = state].kind = call[c].kind
      /\ [call[c] EXCEPT !.state = state].of = call[c].of
      /\ [call[c] EXCEPT !.state = state].state = state
    BY <1>1 DEF Calls
<1> QED BY <1>2 DEF Answer, Free

LEMMA CallEnds ==
    ASSUME Core, NEW c \in Slots, ~Free(call, c), NEW ok \in BOOLEAN, Ends(c, ok), UNCHANGED session
    PROVE  TabTyped' /\ LoginsSound' /\ call' = [call EXCEPT ![c] = None]
<1>1. call[c].of \in 0..MaxSessions
    BY DEF Core, TypeOK, Free, Calls
<1>2. (\E s \in 0..MaxSessions : setUser(s)) \/ sameUser
    BY <1>1 DEF Ends, clearLocalSession
<1>3. user' \in 0..MaxSessions /\ tick' \in [Ticks -> TickType \cup {None}] /\ inFlight' \in BOOLEAN
    BY <1>2, UserTyped DEF Core
<1>4. call' = [call EXCEPT ![c] = None]
    BY DEF Ends
<1>5. LoginsSound'
    BY <1>4 DEF Core, TypeOK, LoginsSound, LoggedIn, Free
<1> QED BY <1>3, <1>4, <1>5 DEF TabTyped, Core, TypeOK

LEMMA ResumedTyped ==
    ASSUME call \in [Slots -> Calls \cup {None}], NEW ok \in BOOLEAN, NEW cookies, cookies.access \in 0..MaxSessions
    PROVE  /\ Resumed(ok, cookies) \in [Slots -> Calls \cup {None}]
           /\ \A c \in Slots : Resumed(ok, cookies)[c] # None =>
                /\ call[c] # None
                /\ Resumed(ok, cookies)[c].kind = call[c].kind
                /\ Resumed(ok, cookies)[c].state # "waits"
                /\ Resumed(ok, cookies)[c].state = "ok" => Resumed(ok, cookies)[c] = call[c]
<1> SUFFICES ASSUME NEW c \in Slots
             PROVE  /\ Resumed(ok, cookies)[c] \in Calls \cup {None}
                    /\ Resumed(ok, cookies)[c] # None =>
                         /\ call[c] # None
                         /\ Resumed(ok, cookies)[c].kind = call[c].kind
                         /\ Resumed(ok, cookies)[c].state # "waits"
                         /\ Resumed(ok, cookies)[c].state = "ok" => Resumed(ok, cookies)[c] = call[c]
    BY DEF Resumed
<1>1. call[c] \in Calls \/ call[c] = None
    OBVIOUS
<1> QED BY <1>1 DEF Resumed, Calls

LEMMA TicksEndTyped ==
    ASSUME tick \in [Ticks -> TickType \cup {None}], NEW ok \in BOOLEAN
    PROVE  /\ TicksEnd(ok) \in [Ticks -> TickType \cup {None}]
           /\ \A t \in Ticks : TicksEnd(ok)[t] # None => tick[t] # None /\ TicksEnd(ok)[t].state = "pause"
<1> SUFFICES ASSUME NEW t \in Ticks
             PROVE  /\ TicksEnd(ok)[t] \in TickType \cup {None}
                    /\ TicksEnd(ok)[t] # None => tick[t] # None /\ TicksEnd(ok)[t].state = "pause"
    BY DEF TicksEnd
<1>1. tick[t] \in TickType \/ tick[t] = None
    OBVIOUS
<1> QED BY <1>1 DEF TicksEnd, TickType

(* All who wait go on: the tab keeps its types, and nobody waits any more. *)
LEMMA AllResume ==
    ASSUME Core, NEW ok \in BOOLEAN, NEW cookies, cookies.access \in 0..MaxSessions, Resume(ok, cookies),
           UNCHANGED session
    PROVE  /\ TabTyped' /\ LoginsSound' /\ promise' = None /\ jar' = cookies
           /\ call' = Resumed(ok, cookies) /\ WaitersAreServed'
<1>1. /\ call' \in [Slots -> Calls \cup {None}]
      /\ \A c \in Slots : ~Free(call', c) =>
           /\ ~Free(call, c) /\ call'[c].kind = call[c].kind /\ call'[c].state # "waits"
           /\ call'[c].state = "ok" => call'[c] = call[c]
    BY ResumedTyped DEF Core, TypeOK, Resume, Free
<1>2. /\ TicksEnd(ok) \in [Ticks -> TickType \cup {None}]
      /\ \A t \in Ticks : TicksEnd(ok)[t] # None => TicksEnd(ok)[t].state = "pause"
    BY TicksEndTyped DEF Core, TypeOK
<1>3. /\ Abort(TicksEnd(ok)) \in [Ticks -> TickType \cup {None}]
      /\ \A t \in Ticks : Abort(TicksEnd(ok))[t] # None => Abort(TicksEnd(ok))[t].state = "pause"
    BY <1>2, AbortTyped
<1>4. user' \in 0..MaxSessions
    BY DEF Resume, Core, TypeOK
<1>7. inFlight' \in BOOLEAN
    BY Zenon DEF Resume
<1>5. /\ tick' \in [Ticks -> TickType \cup {None}]
      /\ \A t \in Ticks : ~Free(tick', t) => tick'[t].state = "pause"
    BY <1>2, <1>3 DEF Resume, Free
<1>6. LoginsSound'
    BY <1>1 DEF Core, LoginsSound, LoggedIn
<1> QED BY <1>1, <1>4, <1>5, <1>6, <1>7 DEF TabTyped, Resume, clearPromise, WaitersAreServed

-----------------------------------------------------------------------------
(* A refresh moves on at the server.                                       *)
Sound == Core /\ WaitersAreServed

LEMMA RefreshMoves ==
    ASSUME Core, NEW h \in Handlers, ~Free(refreshing, h), NEW r \in Refreshes, RefreshSound(r),
           r.state \in {"csrf", "sent", "rotates", "reused"} => h \in Pending,
           refreshing' = [refreshing EXCEPT ![h] = r], UNCHANGED server
    PROVE  /\ refreshing' \in [Handlers -> Refreshes \cup {None}]
           /\ \A g \in Handlers : Free(refreshing', g) <=> Free(refreshing, g)
           /\ TokensSound' /\ RefreshesSound'
<1>1. refreshing' \in [Handlers -> Refreshes \cup {None}]
    BY DEF Core, TypeOK
<1>2. \A g \in Handlers : Free(refreshing', g) <=> Free(refreshing, g)
    BY DEF Core, TypeOK, Free
<1>3. Pending' \subseteq Pending
    BY <1>2 DEF Pending, Core, TypeOK
<1>4. TokensSound'
    BY <1>3, PendingShrinks DEF Core, TokensSound, server, FamilyOf
<1>5. RefreshesSound'
    BY <1>2 DEF Core, TypeOK, RefreshesSound, RefreshSound, server
<1> QED BY <1>1, <1>2, <1>4, <1>5

LEMMA RefreshEnds ==
    ASSUME Core, NEW h \in Handlers, refreshing' = [refreshing EXCEPT ![h] = None], UNCHANGED server
    PROVE  /\ refreshing' \in [Handlers -> Refreshes \cup {None}]
           /\ \A g \in Handlers \ {h} : Free(refreshing', g) <=> Free(refreshing, g)
           /\ TokensSound' /\ RefreshesSound'
<1>1. refreshing' \in [Handlers -> Refreshes \cup {None}]
    BY DEF Core, TypeOK
<1>2. \A g \in Handlers \ {h} : refreshing'[g] = refreshing[g]
    BY DEF Core, TypeOK
<1>3. Pending' \subseteq Pending
    BY <1>2 DEF Pending, Core, TypeOK, Free
<1>4. TokensSound'
    BY <1>3, PendingShrinks DEF Core, TokensSound, server, FamilyOf
<1>5. RefreshesSound'
    BY <1>2 DEF Core, TypeOK, RefreshesSound, RefreshSound, server, Free
<1> QED BY <1>1, <1>2, <1>4, <1>5 DEF Free

LEMMA RefreshFacts ==
    ASSUME Core, NEW h \in Handlers, ~Free(refreshing, h)
    PROVE  /\ refreshing[h] \in Refreshes /\ RefreshSound(refreshing[h])
           /\ refreshing[h].token \in 0..Len(token)
           /\ \A state \in {"csrf", "sent", "rotates", "reused", "ok", "refused"} :
                /\ [refreshing[h] EXCEPT !.state = state] \in Refreshes
                /\ [refreshing[h] EXCEPT !.state = state].state = state
                /\ [refreshing[h] EXCEPT !.state = state].token = refreshing[h].token
                /\ [refreshing[h] EXCEPT !.state = state].family = refreshing[h].family
<1>1. refreshing[h] \in Refreshes /\ RefreshSound(refreshing[h])
    BY DEF Core, TypeOK, RefreshesSound, Free
<1> QED BY <1>1, TokenFacts DEF Refreshes, RefreshSound

(* What a step that stays at the server leaves as it was.                  *)
LEMMA TabStays ==
    ASSUME Sound, UNCHANGED <<session, token, jar, user, call, promise, tick, inFlight, failures>>,
           refreshing' \in [Handlers -> Refreshes \cup {None}],
           promise # None => ~Free(refreshing', promise), TokensSound', RefreshesSound'
    PROVE  Sound'
<1>1. TypeOK'
    BY DEF Sound, Core, TypeOK
<1>2. LoginsSound' /\ WaitersAreServed'
    BY DEF Sound, Core, LoginsSound, LoggedIn, WaitersAreServed, Free
<1> QED BY <1>1, <1>2 DEF Sound, Core

LEMMA issueCsrfStep ==
    ASSUME Sound, NEW h \in Handlers, issueCsrf(h)
    PROVE  Sound'
<1>1. ~Free(refreshing, h) /\ promise \in Handlers
    BY DEF issueCsrf, Sound, Core, TypeOK
<1> DEFINE r == [refreshing[h] EXCEPT !.state = "sent", !.token = jar.refresh]
<1>2. refreshing' = [refreshing EXCEPT ![h] = r]
    BY DEF issueCsrf
<1>3. jar.refresh \in 0..Len(token) /\ jar.refresh \in 0..MaxTokens
    BY TokenFacts DEF Sound, Core, TypeOK
<1>4. refreshing[h] \in Refreshes /\ RefreshSound(refreshing[h]) /\ h \in Pending
    BY <1>1, RefreshFacts DEF issueCsrf, Pending, Sound
<1>5. r \in Refreshes /\ r.state = "sent" /\ r.token = jar.refresh /\ r.family = refreshing[h].family
    BY <1>3, <1>4 DEF Refreshes
<1>6. RefreshSound(r)
    BY <1>3, <1>4, <1>5, TokenFacts DEF RefreshSound, issueCsrf
<1>7. /\ refreshing' \in [Handlers -> Refreshes \cup {None}]
      /\ \A g \in Handlers : Free(refreshing', g) <=> Free(refreshing, g)
      /\ TokensSound' /\ RefreshesSound'
    BY <1>1, <1>2, <1>4, <1>5, <1>6, RefreshMoves DEF issueCsrf, server, Sound
<1> QED BY <1>1, <1>7, TabStays DEF issueCsrf, server

LEMMA RefreshReadStep ==
    ASSUME Sound, NEW h \in Handlers, RefreshRead(h)
    PROVE  Sound'
<1> DEFINE i == refreshing[h].token
           to(state) == [refreshing[h] EXCEPT !.state = state]
           family == FamilyOf(token[i].of)
<1>0. Core /\ ~Free(refreshing, h) /\ refreshing[h].state = "sent" /\ h \in Pending
    BY DEF RefreshRead, Sound, Pending
<1>1. refreshing[h] \in Refreshes /\ RefreshSound(refreshing[h]) /\ i \in 0..Len(token)
    BY <1>0, RefreshFacts
<1>2. PICK r \in Refreshes :
        /\ refreshing' = [refreshing EXCEPT ![h] = r]
        /\ RefreshSound(r) /\ r.state # "csrf"
    <2>1. CASE refreshing' = [refreshing EXCEPT ![h] = to("refused")]
        <3>1. to("refused") \in Refreshes /\ RefreshSound(to("refused")) /\ to("refused").state # "csrf"
            BY <1>0, <1>1 DEF Refreshes, RefreshSound
        <3> QED BY <2>1, <3>1
    <2>2. CASE i # 0 /\ refreshing' = [refreshing EXCEPT ![h] = to("rotates")]
        <3>1. to("rotates") \in Refreshes /\ RefreshSound(to("rotates")) /\ to("rotates").state # "csrf"
            BY <1>0, <1>1, <2>2 DEF Refreshes, RefreshSound
        <3> QED BY <2>2, <3>1
    <2>3. CASE i # 0 /\ refreshing' = [refreshing EXCEPT ![h] = [to("reused") EXCEPT !.family = family]]
        <3> DEFINE r == [to("reused") EXCEPT !.family = family]
        <3>1. family \subseteq DOMAIN token /\ family \in SUBSET (1..MaxTokens)
            BY <1>0, TokenFacts DEF FamilyOf
        <3>2. r \in Refreshes /\ r.state = "reused" /\ r.token = i /\ r.family = family
            BY <1>1, <3>1 DEF Refreshes
        <3>3. RefreshSound(r)
            BY <1>1, <2>3, <3>1, <3>2 DEF RefreshSound, FamilyOf
        <3> QED BY <2>3, <3>2, <3>3
    <2> QED BY <2>1, <2>2, <2>3 DEF RefreshRead
<1>3. /\ refreshing' \in [Handlers -> Refreshes \cup {None}]
      /\ \A g \in Handlers : Free(refreshing', g) <=> Free(refreshing, g)
      /\ TokensSound' /\ RefreshesSound'
    BY <1>0, <1>2, RefreshMoves DEF RefreshRead, server
<1> QED BY <1>3, TabStays DEF RefreshRead, server, Sound, Core, TypeOK

(* Only the status of some tokens of one session changes.                  *)
LEMMA TokensChange ==
    ASSUME Core, token' \in Seq(TokenRecord), Len(token') = Len(token),
           \A i \in DOMAIN token : token'[i].of = token[i].of,
           \A s \in Sessions : session'[s] = "none" <=> session[s] = "none",
           Pending' \subseteq Pending
    PROVE  /\ TokensSound' /\ DOMAIN token' = DOMAIN token
           /\ \A r : RefreshSound(r) /\ r.token \in 0..Len(token) => RefreshSound(r)'
<1>1. DOMAIN token = 1..Len(token) /\ DOMAIN token' = DOMAIN token
    BY TokenFacts
<1>2. \A s : FamilyOf(s)' = FamilyOf(s)
    BY <1>1 DEF FamilyOf
<1>3. \A i \in DOMAIN token : token[i].of \in Sessions
    BY TokenFacts
<1>4. \A i \in DOMAIN token' : session'[token'[i].of] # "none"
    BY <1>1, <1>3 DEF Core, TokensSound
<1>5. \A s \in Sessions : session'[s] # "none" =>
         \E i \in FamilyOf(s)' : \A j \in FamilyOf(s)' : i <= j
    BY <1>2 DEF Core, TokensSound
<1>6. TokensSound'
    BY <1>4, <1>5, PendingShrinks DEF TokensSound
<1>7. ASSUME NEW r, RefreshSound(r), r.token \in 0..Len(token)
      PROVE  RefreshSound(r)'
    BY <1>1, <1>7, TokenFacts DEF RefreshSound
<1> QED BY <1>1, <1>6, <1>7

LEMMA ReuseCommitsStep ==
    ASSUME Sound, NEW h \in Handlers, ReuseCommits(h)
    PROVE  Sound'
<1> DEFINE r == refreshing[h]
           s == token[r.token].of
<1>0. Core /\ ~Free(refreshing, h) /\ r.state = "reused"
    BY DEF ReuseCommits, Sound
<1>1. r \in Refreshes /\ RefreshSound(r) /\ r.token \in 1..Len(token) /\ DOMAIN token = 1..Len(token)
    <2>1. r \in Refreshes /\ RefreshSound(r) /\ r.token \in 0..Len(token)
        BY <1>0, RefreshFacts
    <2>2. r.token # 0
        BY <1>0, <2>1 DEF RefreshSound
    <2> QED BY <1>0, <2>1, <2>2, TokenFacts
<1>2. PICK n \in Refreshes : n = [r EXCEPT !.state = "refused", !.family = {}]
    BY <1>1 DEF Refreshes
<1>14. n.state = "refused" /\ n.token = r.token /\ n.family = {}
    BY <1>1, <1>2 DEF Refreshes
<1>3. s \in Sessions /\ session[s] # "none"
    BY <1>0, <1>1, TokenFacts DEF Core, TokensSound
<1>4. session' = [session EXCEPT ![s] = "compromised"] /\ session' \in [Sessions -> Statuses]
    BY <1>0 DEF ReuseCommits, Core, TypeOK, Statuses
<1>5. \A x \in Sessions : session'[x] = "none" <=> session[x] = "none"
    BY <1>0, <1>3, <1>4 DEF Core, TypeOK
<1>6. /\ token' \in Seq(TokenRecord) /\ Len(token') = Len(token)
      /\ \A i \in DOMAIN token : token'[i].of = token[i].of /\ token'[i] \in TokenRecord
    <2>1. \A i \in DOMAIN token : [token[i] EXCEPT !.status = "reused"] \in TokenRecord
                                  /\ [token[i] EXCEPT !.status = "reused"].of = token[i].of
        BY <1>0, TokenFacts DEF TokenRecord
    <2>2. token' = [i \in 1..Len(token) |->
                      IF i \in r.family THEN [token[i] EXCEPT !.status = "reused"] ELSE token[i]]
        BY <1>0, TokenFacts DEF ReuseCommits
    <2>3. \A i \in 1..Len(token) : token'[i] \in TokenRecord /\ token'[i].of = token[i].of
        BY <1>0, <2>1, <2>2, TokenFacts
    <2>4. Len(token) \in Nat /\ DOMAIN token = 1..Len(token)
        BY <1>0, TokenFacts
    <2> QED BY <2>2, <2>3, <2>4
<1>7. refreshing' = [refreshing EXCEPT ![h] = n]
    BY <1>2 DEF ReuseCommits
<1>8. /\ refreshing' \in [Handlers -> Refreshes \cup {None}]
      /\ \A g \in Handlers : Free(refreshing', g) <=> Free(refreshing, g)
      /\ \A g \in Handlers \ {h} : refreshing'[g] = refreshing[g]
      /\ refreshing'[h] = n
    BY <1>0, <1>2, <1>7 DEF Core, TypeOK, Free
<1>9. Pending' \subseteq Pending
    BY <1>8, <1>14 DEF Pending
<1>10. /\ TokensSound' /\ DOMAIN token' = DOMAIN token
       /\ \A q : RefreshSound(q) /\ q.token \in 0..Len(token) => RefreshSound(q)'
    BY <1>0, <1>5, <1>6, <1>9, TokensChange
<1>11. RefreshesSound'
    <2>1. RefreshSound(n)
        BY <1>1, <1>14 DEF RefreshSound
    <2>2. RefreshSound(n)'
        BY <1>1, <1>14, <1>10, <2>1
    <2>3. \A g \in Handlers \ {h} : ~Free(refreshing, g) => RefreshSound(refreshing[g])'
        BY <1>0, <1>8, <1>10, RefreshFacts
    <2> QED BY <1>8, <2>2, <2>3 DEF RefreshesSound
<1>12. TypeOK'
    <2>1. /\ user' \in 0..MaxSessions /\ failures' \in 0..MaxFailures /\ inFlight' \in BOOLEAN
          /\ call' \in [Slots -> Calls \cup {None}] /\ tick' \in [Ticks -> TickType \cup {None}]
          /\ promise' \in Handlers \cup {None} /\ (promise' # None => ~Free(refreshing', promise'))
        BY <1>0, <1>8 DEF ReuseCommits, Core, TypeOK
    <2>2. jar' \in [access : 0..MaxSessions, live : BOOLEAN, refresh : 0..Len(token')]
        BY <1>0, <1>6 DEF ReuseCommits, Core, TypeOK
    <2>3. /\ Len(token') \in 0..MaxTokens
          /\ \A i \in DOMAIN token' :
               token'[i] \in [of : Sessions, status : {"active", "rotated", "reused", "revoked"}]
        BY <1>0, <1>6, <1>10, TokenFacts DEF TokenRecord
    <2> QED BY <1>4, <1>8, <2>1, <2>2, <2>3 DEF TypeOK
<1>13. LoginsSound' /\ WaitersAreServed'
    BY <1>5 DEF ReuseCommits, Sound, Core, LoginsSound, LoggedIn, WaitersAreServed, Free
<1> QED BY <1>10, <1>11, <1>12, <1>13 DEF Sound, Core

(* A token is added to those of a session that has some, or is the first.  *)
LEMMA TokensGrow ==
    ASSUME Core, NEW new \in TokenRecord, NEW old \in Seq(TokenRecord), token' = Append(old, new),
           Len(old) = Len(token), \A i \in DOMAIN token : old[i].of = token[i].of,
           \A s \in Sessions : session'[s] = "none" <=> session[s] = "none" /\ s # new.of
    PROVE  /\ token' \in Seq(TokenRecord) /\ Len(token') = Len(token) + 1
           /\ DOMAIN token' = 1..(Len(token) + 1)
           /\ \A i \in DOMAIN token : token'[i] = old[i] /\ token'[i].of = token[i].of
           /\ token'[Len(token) + 1] = new
           /\ \A i \in DOMAIN token' : token'[i] \in TokenRecord /\ session'[token'[i].of] # "none"
           /\ \A s \in Sessions : session'[s] # "none" =>
                \E i \in FamilyOf(s)' : \A j \in FamilyOf(s)' : i <= j
           /\ \A r : RefreshSound(r) /\ r.token \in 0..Len(token) => RefreshSound(r)'
<1>1. DOMAIN token = 1..Len(token) /\ Len(token) \in Nat
    BY TokenFacts
<1>2. /\ token' \in Seq(TokenRecord) /\ Len(token') = Len(token) + 1
      /\ DOMAIN token' = 1..(Len(token) + 1)
    BY <1>1
<1>3. /\ \A i \in DOMAIN token : token'[i] = old[i] /\ token'[i].of = token[i].of
      /\ token'[Len(token) + 1] = new
    BY <1>1
<1>4. \A i \in DOMAIN token' : token'[i] \in TokenRecord /\ token'[i].of \in Sessions
    <2>1. \A i \in DOMAIN token' : token'[i] \in TokenRecord
        BY <1>2
    <2> QED BY <2>1 DEF TokenRecord
<1>5. \A i \in DOMAIN token : session[token[i].of] # "none" /\ token[i].of \in Sessions
    BY TokenFacts DEF Core, TokensSound
<1>6. \A i \in DOMAIN token' : session'[token'[i].of] # "none"
    BY <1>1, <1>2, <1>3, <1>4, <1>5
<1>7. ASSUME NEW s \in Sessions, session'[s] # "none"
      PROVE  \E i \in FamilyOf(s)' : \A j \in FamilyOf(s)' : i <= j
    <2>1. \A j \in FamilyOf(s)' : j \in FamilyOf(s) \/ (j = Len(token) + 1 /\ s = new.of)
        BY <1>1, <1>2, <1>3 DEF FamilyOf
    <2>2. FamilyOf(s) \subseteq FamilyOf(s)' /\ FamilyOf(s) \subseteq 1..Len(token)
        BY <1>1, <1>2, <1>3 DEF FamilyOf
    <2>3. CASE session[s] # "none"
        <3>1. PICK i \in FamilyOf(s) : \A j \in FamilyOf(s) : i <= j
            BY <2>3 DEF Core, TokensSound
        <3> QED BY <1>1, <2>1, <2>2, <3>1
    <2>4. CASE session[s] = "none"
        <3>1. s = new.of /\ FamilyOf(s) = {}
            BY <1>5, <1>7, <2>4 DEF FamilyOf
        <3>2. Len(token) + 1 \in FamilyOf(s)'
            BY <1>1, <1>2, <1>3, <3>1 DEF FamilyOf
        <3> QED BY <1>1, <2>1, <3>1, <3>2
    <2> QED BY <2>3, <2>4
<1>8. ASSUME NEW r, RefreshSound(r), r.token \in 0..Len(token)
      PROVE  RefreshSound(r)'
    BY <1>1, <1>2, <1>3, <1>8 DEF RefreshSound
<1> QED BY <1>2, <1>3, <1>4, <1>6, <1>7, <1>8

LEMMA RotationCommitsStep ==
    ASSUME Sound, NEW h \in Handlers, RotationCommits(h)
    PROVE  Sound'
<1> DEFINE r == refreshing[h]
           old == [token EXCEPT ![r.token].status = "rotated"]
           new == [of |-> token[r.token].of, status |-> "active"]
<1>0. Core /\ ~Free(refreshing, h) /\ r.state = "rotates" /\ h \in Pending
    BY DEF RotationCommits, Sound, Pending
<1>1. r \in Refreshes /\ RefreshSound(r) /\ r.token \in 1..Len(token) /\ DOMAIN token = 1..Len(token)
    <2>1. r \in Refreshes /\ RefreshSound(r) /\ r.token \in 0..Len(token)
        BY <1>0, RefreshFacts
    <2>2. r.token # 0
        BY <1>0, <2>1 DEF RefreshSound
    <2> QED BY <1>0, <2>1, <2>2, TokenFacts
<1>2. /\ old \in Seq(TokenRecord) /\ Len(old) = Len(token)
      /\ \A i \in DOMAIN token : old[i].of = token[i].of
    <2>1. \A i \in 1..Len(token) : old[i] \in TokenRecord /\ old[i].of = token[i].of
        BY <1>0, <1>1, TokenFacts DEF TokenRecord
    <2>2. token \in Seq(TokenRecord)
        BY <1>0 DEF Core, TokensSound
    <2> QED BY <1>1, <2>1, <2>2
<1>3. new \in TokenRecord /\ session[new.of] # "none"
    BY <1>0, <1>1, TokenFacts DEF TokenRecord, Core, TokensSound
<1>4. token' = Append(old, new) /\ session' = session
    BY DEF RotationCommits
<1>17. \A s \in Sessions : session'[s] = "none" <=> session[s] = "none" /\ s # new.of
    BY <1>3, <1>4
<1> HIDE DEF old, new
<1>5. /\ token' \in Seq(TokenRecord) /\ Len(token') = Len(token) + 1
      /\ \A i \in DOMAIN token' : token'[i] \in TokenRecord /\ session'[token'[i].of] # "none"
      /\ \A s \in Sessions : session'[s] # "none" =>
           \E i \in FamilyOf(s)' : \A j \in FamilyOf(s)' : i <= j
      /\ \A q : RefreshSound(q) /\ q.token \in 0..Len(token) => RefreshSound(q)'
      /\ DOMAIN token' = 1..(Len(token) + 1)
      /\ \A i \in DOMAIN token : token'[i].of = token[i].of
      /\ token'[Len(token) + 1] = new
    BY <1>0, <1>2, <1>3, <1>4, <1>17, TokensGrow
<1>6. Cardinality(Pending) >= 1 /\ Cardinality(Pending \ {h}) = Cardinality(Pending) - 1
      /\ IsFiniteSet(Pending \ {h}) /\ Cardinality(Pending) \in Nat
    <2>1. IsFiniteSet(Pending) /\ Cardinality(Pending) \in Nat
        BY <1>0, TokenFacts
    <2>2. /\ IsFiniteSet(Pending \ {h})
          /\ Cardinality(Pending \ {h}) =
               IF h \in Pending THEN Cardinality(Pending) - 1 ELSE Cardinality(Pending)
        BY <2>1, FS_RemoveElement
    <2>3. Cardinality(Pending \ {h}) \in Nat
        BY <2>2, FS_CardinalityType
    <2> QED BY <1>0, <2>1, <2>2, <2>3
<1>7. Len(token) + 1 \in 0..MaxTokens
    BY <1>0, <1>6, TokenFacts DEF Core, TokensSound
<1>8. PICK n \in Refreshes : n = [r EXCEPT !.state = "ok", !.token = Len(token) + 1]
    BY <1>1, <1>7 DEF Refreshes
<1>9. n.state = "ok" /\ n.token = Len(token) + 1 /\ n.family = {}
    BY <1>0, <1>1, <1>8 DEF Refreshes, RefreshSound
<1>10. refreshing' = [refreshing EXCEPT ![h] = n]
    BY <1>4, <1>5, <1>8 DEF RotationCommits, old, new
<1>11. /\ refreshing' \in [Handlers -> Refreshes \cup {None}]
       /\ \A g \in Handlers : Free(refreshing', g) <=> Free(refreshing, g)
       /\ \A g \in Handlers \ {h} : refreshing'[g] = refreshing[g]
       /\ refreshing'[h] = n
    BY <1>0, <1>8, <1>10 DEF Core, TypeOK, Free
<1>12. Pending' \subseteq Pending \ {h}
    BY <1>9, <1>11 DEF Pending
<1>13. TokensSound'
    <2>1. Cardinality(Pending') <= Cardinality(Pending \ {h}) /\ Cardinality(Pending') \in Nat
        BY <1>6, <1>12, FS_Subset, FS_CardinalityType
    <2>2. Len(token') + Cardinality(Pending') <= MaxTokens
        BY <1>0, <1>5, <1>6, <2>1, TokenFacts DEF Core, TokensSound
    <2> QED BY <1>5, <2>2 DEF TokensSound
<1>14. RefreshesSound'
    <2>1. RefreshSound(n)'
        BY <1>0, <1>5, <1>9, TokenFacts DEF RefreshSound, new
    <2>2. \A g \in Handlers \ {h} : ~Free(refreshing, g) => RefreshSound(refreshing[g])'
        BY <1>0, <1>5, <1>11, RefreshFacts
    <2> QED BY <1>11, <2>1, <2>2 DEF RefreshesSound
<1>15. TypeOK'
    <2>1. /\ user' \in 0..MaxSessions /\ failures' \in 0..MaxFailures /\ inFlight' \in BOOLEAN
          /\ call' \in [Slots -> Calls \cup {None}] /\ tick' \in [Ticks -> TickType \cup {None}]
          /\ promise' \in Handlers \cup {None} /\ (promise' # None => ~Free(refreshing', promise'))
          /\ session' \in [Sessions -> Statuses]
        BY <1>0, <1>11 DEF RotationCommits, Core, TypeOK
    <2>2. jar' \in [access : 0..MaxSessions, live : BOOLEAN, refresh : 0..Len(token')]
        <3>1. jar \in [access : 0..MaxSessions, live : BOOLEAN, refresh : 0..Len(token)]
            BY <1>0 DEF Core, TypeOK
        <3>2. 0..Len(token) \subseteq 0..Len(token')
            BY <1>0, <1>5, TokenFacts
        <3> QED BY <3>1, <3>2 DEF RotationCommits
    <2>3. /\ Len(token') \in 0..MaxTokens
          /\ \A i \in DOMAIN token' :
               token'[i] \in [of : Sessions, status : {"active", "rotated", "reused", "revoked"}]
        BY <1>5, <1>7 DEF TokenRecord
    <2> QED BY <1>11, <2>1, <2>2, <2>3 DEF TypeOK
<1>16. LoginsSound' /\ WaitersAreServed'
    BY DEF RotationCommits, Sound, Core, LoginsSound, LoggedIn, WaitersAreServed, Free
<1> QED BY <1>13, <1>14, <1>15, <1>16 DEF Sound, Core

-----------------------------------------------------------------------------
(* A refresh reaches the tab, or is lost.                                  *)
LEMMA TypeParts ==
    ASSUME TabTyped', TokensSound', session' \in [Sessions -> Statuses], token' \in Seq(TokenRecord),
           jar' \in [access : 0..MaxSessions, live : BOOLEAN, refresh : 0..Len(token')],
           refreshing' \in [Handlers -> Refreshes \cup {None}],
           promise' \in Handlers \cup {None}, promise' # None => ~Free(refreshing', promise'),
           failures' \in 0..MaxFailures
    PROVE  TypeOK'
<1>1. Len(token') \in Nat /\ DOMAIN token' = 1..Len(token')
    OBVIOUS
<1>2. \A i \in DOMAIN token' : token'[i] \in TokenRecord
    BY <1>1
<1>3. IsFiniteSet(Pending') /\ Cardinality(Pending') \in Nat
    BY FS_Subset, FS_CardinalityType DEF Pending
<1>4. Len(token') \in 0..MaxTokens
    BY <1>1, <1>3 DEF TokensSound
<1> QED BY <1>2, <1>4 DEF TypeOK, TabTyped, TokenRecord

LEMMA RefreshAnsweredStep ==
    ASSUME Sound, NEW h \in Handlers, RefreshAnswered(h)
    PROVE  Sound'
<1> DEFINE i == refreshing[h].token
           cookies == [access |-> token[i].of, live |-> TRUE, refresh |-> i]
<1>0. Core /\ ~Free(refreshing, h) /\ UNCHANGED server /\ token \in Seq(TokenRecord)
    BY DEF RefreshAnswered, Sound, Core, TypeOK, TokensSound
<1>1. RefreshSound(refreshing[h]) /\ i \in 0..Len(token)
    BY <1>0, RefreshFacts
<1>2. PICK ok \in BOOLEAN, c \in [access : 0..MaxSessions, live : BOOLEAN, refresh : 0..Len(token)] :
        Resume(ok, c)
    <2>1. CASE refreshing[h].state = "ok" /\ Resume(TRUE, cookies)
        <3>1. i \in 1..Len(token)
            BY <1>1, <2>1 DEF RefreshSound
        <3>2. token[i].of \in 0..MaxSessions
            BY <1>0, <3>1, TokenFacts DEF Sessions
        <3> QED BY <1>1, <2>1, <3>2
    <2>2. CASE Resume(FALSE, jar)
        BY <1>0, <2>2 DEF Core, TypeOK
    <2> QED BY <2>1, <2>2 DEF RefreshAnswered
<1>3. TabTyped' /\ LoginsSound' /\ promise' = None /\ jar' = c /\ WaitersAreServed'
    BY <1>0, <1>2, AllResume DEF server
<1>4. refreshing' \in [Handlers -> Refreshes \cup {None}] /\ TokensSound' /\ RefreshesSound'
    BY <1>0, RefreshEnds DEF RefreshAnswered
<1>5. TypeOK'
    BY <1>0, <1>2, <1>3, <1>4, TypeParts DEF RefreshAnswered, server, Core, TypeOK
<1> QED BY <1>3, <1>4, <1>5 DEF Sound, Core

LEMMA RefreshFailsStep ==
    ASSUME Sound, NEW h \in Handlers, RefreshFails(h)
    PROVE  Sound'
<1>0. Core /\ UNCHANGED server /\ token \in Seq(TokenRecord) /\ Resume(FALSE, jar)
    BY DEF RefreshFails, Sound, Core, TokensSound
<1>1. jar \in [access : 0..MaxSessions, live : BOOLEAN, refresh : 0..Len(token)]
    BY <1>0 DEF Core, TypeOK
<1>2. TabTyped' /\ LoginsSound' /\ promise' = None /\ jar' = jar /\ WaitersAreServed'
    BY <1>0, <1>1, AllResume DEF server
<1>3. refreshing' \in [Handlers -> Refreshes \cup {None}] /\ TokensSound' /\ RefreshesSound'
    <2>1. CASE refreshing' = [refreshing EXCEPT ![h] = None]
        BY <1>0, <2>1, RefreshEnds
    <2>2. CASE UNCHANGED refreshing
        BY <1>0, <2>2, TokensStay, RefreshesStay DEF Core, TypeOK
    <2> QED BY <2>1, <2>2 DEF RefreshFails
<1>4. failures' \in 0..MaxFailures
    BY <1>0 DEF RefreshFails, Core, TypeOK
<1>5. TypeOK'
    BY <1>0, <1>1, <1>2, <1>3, <1>4, TypeParts DEF server, Core, TypeOK
<1> QED BY <1>2, <1>3, <1>5 DEF Sound, Core

LEMMA NobodyWaitsStep ==
    ASSUME Sound, NEW h \in Handlers, NobodyWaits(h)
    PROVE  Sound'
<1>1. /\ refreshing' \in [Handlers -> Refreshes \cup {None}]
      /\ \A g \in Handlers \ {h} : Free(refreshing', g) <=> Free(refreshing, g)
      /\ TokensSound' /\ RefreshesSound'
    BY RefreshEnds DEF NobodyWaits, Sound
<1>2. promise # None => ~Free(refreshing', promise)
    BY <1>1 DEF NobodyWaits, Sound, Core, TypeOK
<1> QED BY <1>1, <1>2, TabStays DEF NobodyWaits, server

-----------------------------------------------------------------------------
(* Ticks and calls.  Who begins to wait has the shared promise.            *)
LEMMA Begins ==
    ASSUME Sound, refreshAccessToken, UNCHANGED <<server, jar, failures>>, TabTyped', LoginsSound'
    PROVE  Sound'
<1>1. /\ refreshing' \in [Handlers -> Refreshes \cup {None}]
      /\ promise' \in Handlers /\ ~Free(refreshing', promise')
      /\ TokensSound' /\ RefreshesSound'
    BY RefreshBegins DEF Sound
<1>2. token \in Seq(TokenRecord)
    BY DEF Sound, Core, TokensSound
<1>3. TypeOK'
    BY <1>1, <1>2, TypeParts DEF Sound, Core, TypeOK, server
<1>4. promise' # None
    BY <1>1
<1> QED BY <1>1, <1>3, <1>4 DEF Sound, Core, WaitersAreServed

LEMMA TickStartsStep ==
    ASSUME Sound, NEW t \in Ticks, TickStarts(t)
    PROVE  Sound'
<1>1. [of |-> user, state |-> "first", aborted |-> FALSE] \in TickType
    BY DEF TickStarts, Sound, Core, TypeOK, TickType, Sessions
<1>2. Abort(tick) \in [Ticks -> TickType \cup {None}]
    BY AbortTyped DEF Sound, Core, TypeOK
<1>3. TabTyped'
    BY <1>1, <1>2 DEF TickStarts, Sound, Core, TypeOK, TabTyped
<1>4. LoginsSound'
    BY DEF TickStarts, server, Sound, Core, LoginsSound, LoggedIn, Free
<1> QED BY <1>3, <1>4, Begins DEF TickStarts

LEMMA TickRetriesStep ==
    ASSUME Sound, NEW t \in Ticks, TickRetries(t)
    PROVE  Sound'
<1>1. tick[t] \in TickType
    BY DEF TickRetries, Sound, Core, TypeOK, Free
<1>2. [tick[t] EXCEPT !.state = "second"] \in TickType
    BY <1>1 DEF TickType
<1>3. TabTyped'
    BY <1>2 DEF TickRetries, Sound, Core, TypeOK, TabTyped
<1>4. LoginsSound'
    BY DEF TickRetries, server, Sound, Core, LoginsSound, LoggedIn, Free
<1> QED BY <1>3, <1>4, Begins DEF TickRetries

LEMMA CallRefreshesStep ==
    ASSUME Sound, NEW c \in Slots, CallRefreshes(c)
    PROVE  Sound'
<1>1. /\ call' \in [Slots -> Calls \cup {None}] /\ ~Free(call', c) /\ call'[c].state = "waits"
      /\ \A d \in Slots \ {c} : call'[d] = call[d]
    BY CallMoves DEF CallRefreshes, Sound, Core, TypeOK
<1>2. TabTyped'
    BY <1>1 DEF CallRefreshes, Sound, Core, TypeOK, TabTyped
<1>3. LoginsSound'
    BY <1>1 DEF CallRefreshes, server, Sound, Core, LoginsSound, LoggedIn, Free
<1> QED BY <1>2, <1>3, Begins DEF CallRefreshes

(* A session is revoked with its tokens.                                   *)
LEMMA Revoking ==
    ASSUME Core, NEW s \in Sessions, session[s] # "none", Revoked(s), UNCHANGED refreshing
    PROVE  /\ session' \in [Sessions -> Statuses] /\ token' \in Seq(TokenRecord)
           /\ Len(token') = Len(token) /\ TokensSound' /\ RefreshesSound'
           /\ \A x \in Sessions : session'[x] = "none" <=> session[x] = "none"
<1>1. session' \in [Sessions -> Statuses] /\ \A x \in Sessions : session'[x] = "none" <=> session[x] = "none"
    BY DEF Revoked, Core, TypeOK, Statuses
<1>2. /\ token' \in Seq(TokenRecord) /\ Len(token') = Len(token)
      /\ \A i \in DOMAIN token : token'[i].of = token[i].of
    <2>1. \A i \in DOMAIN token : [token[i] EXCEPT !.status = "revoked"] \in TokenRecord
                                  /\ [token[i] EXCEPT !.status = "revoked"].of = token[i].of
        BY TokenFacts DEF TokenRecord
    <2>2. token' = [i \in 1..Len(token) |->
                      IF token[i].of = s /\ token[i].status \in {"active", "rotated"}
                      THEN [token[i] EXCEPT !.status = "revoked"] ELSE token[i]]
        BY TokenFacts DEF Revoked
    <2>3. \A i \in 1..Len(token) : token'[i] \in TokenRecord /\ token'[i].of = token[i].of
        BY <2>1, <2>2, TokenFacts
    <2>4. Len(token) \in Nat /\ DOMAIN token = 1..Len(token)
        BY TokenFacts
    <2> QED BY <2>2, <2>3, <2>4
<1>3. Pending' \subseteq Pending
    BY DEF Pending, Free
<1>4. /\ TokensSound' /\ DOMAIN token' = DOMAIN token
      /\ \A q : RefreshSound(q) /\ q.token \in 0..Len(token) => RefreshSound(q)'
    BY <1>1, <1>2, <1>3, TokensChange
<1>5. RefreshesSound'
    BY <1>4, RefreshFacts DEF RefreshesSound, Free
<1> QED BY <1>1, <1>2, <1>4, <1>5

(* What a step of the server's sessions leaves as it was.                  *)
LEMMA PromiseStays ==
    ASSUME Sound, UNCHANGED <<jar, refreshing, promise, failures>>, TabTyped', LoginsSound',
           session' \in [Sessions -> Statuses], token' \in Seq(TokenRecord), Len(token) <= Len(token'),
           TokensSound', RefreshesSound'
    PROVE  TypeOK' /\ Core'
<1>1. 0..Len(token) \subseteq 0..Len(token')
    BY TokenFacts DEF Sound
<1>2. jar' \in [access : 0..MaxSessions, live : BOOLEAN, refresh : 0..Len(token')]
    BY <1>1 DEF Sound, Core, TypeOK
<1>3. TypeOK'
    BY <1>2, TypeParts DEF Sound, Core, TypeOK, Free
<1> QED BY <1>3 DEF Core

LEMMA CallIsTyped ==
    ASSUME Sound, NEW c \in Slots, ~Free(call, c)
    PROVE  call[c] \in Calls /\ call[c].of \in 0..MaxSessions /\ call[c].kind \in Kinds
BY DEF Sound, Core, TypeOK, Free, Calls

LEMMA apiFetchStep ==
    ASSUME Sound, NEW c \in Slots, NEW kind \in Kinds \ {"me"}, apiFetch(c, kind)
    PROVE  Sound'
<1>1. Call(kind) \in Calls /\ Call(kind).state = "sent"
    BY DEF Call, Calls, Sound, Core, TypeOK
<1>2. /\ call' \in [Slots -> Calls \cup {None}]
      /\ \A d \in Slots : call'[d] = call[d] \/ call'[d].state = "sent"
    BY <1>1 DEF apiFetch, Sound, Core, TypeOK
<1>3. LoginsSound' /\ WaitersAreServed'
    BY <1>2 DEF apiFetch, server, Sound, Core, LoginsSound, LoggedIn, Free, WaitersAreServed
<1>4. TokensSound' /\ RefreshesSound'
    BY TokensStay, RefreshesStay DEF apiFetch, Sound, Core
<1>5. TypeOK'
    BY <1>2 DEF apiFetch, server, Sound, Core, TypeOK, Free
<1> QED BY <1>3, <1>4, <1>5 DEF Sound, Core

LEMMA CallHandledStep ==
    ASSUME Sound, NEW c \in Slots, CallHandled(c)
    PROVE  Sound'
<1>0. ~Free(call, c) /\ call[c].kind # "login" /\ Core
    BY DEF CallHandled, Sound
<1>1. PICK state \in {"ok", "refused"} : Answer(c, state)
    BY DEF CallHandled
<1>2. /\ call' \in [Slots -> Calls \cup {None}] /\ call'[c].kind = call[c].kind /\ call'[c].state = state
      /\ \A d \in Slots \ {c} : call'[d] = call[d]
    BY <1>0, <1>1, CallMoves DEF Core, TypeOK
<1>3. /\ session' \in [Sessions -> Statuses] /\ token' \in Seq(TokenRecord)
      /\ Len(token') = Len(token) /\ TokensSound' /\ RefreshesSound'
      /\ \A x \in Sessions : session'[x] = "none" <=> session[x] = "none"
    <2>1. CASE UNCHANGED server
        BY <1>0, <2>1, TokensStay, RefreshesStay DEF CallHandled, server, Core, TypeOK, TokensSound
    <2>2. CASE Authenticated(call[c].of) /\ Revoked(call[c].of)
        <3>1. call[c].of \in Sessions /\ session[call[c].of] # "none"
            BY <1>0, <2>2, CallIsTyped DEF Authenticated, Sessions
        <3> QED BY <1>0, <2>2, <3>1, Revoking DEF CallHandled
    <2> QED BY <2>1, <2>2 DEF CallHandled
<1>4. TabTyped'
    BY <1>0, <1>2 DEF CallHandled, Core, TypeOK, TabTyped
<1>5. LoginsSound' /\ WaitersAreServed'
    BY <1>0, <1>1, <1>2, <1>3 DEF CallHandled, Sound, Core, LoginsSound, LoggedIn, WaitersAreServed, Free
<1>6. Core'
    BY <1>0, <1>3, <1>4, <1>5, TokenFacts, PromiseStays DEF CallHandled
<1> QED BY <1>5, <1>6 DEF Sound

LEMMA LoginHandledStep ==
    ASSUME Sound, NEW c \in Slots, LoginHandled(c)
    PROVE  Sound'
<1>0. ~Free(call, c) /\ Core
    BY DEF LoginHandled, Sound
<1>1. CASE Answer(c, "refused") /\ UNCHANGED server
    <2>1. /\ call' \in [Slots -> Calls \cup {None}] /\ call'[c].state = "refused"
          /\ \A d \in Slots \ {c} : call'[d] = call[d]
        BY <1>0, <1>1, CallMoves DEF Core, TypeOK
    <2>2. LoginsSound' /\ WaitersAreServed'
        BY <1>1, <2>1 DEF LoginHandled, server, Sound, Core, LoginsSound, LoggedIn, Free, WaitersAreServed
    <2>3. TokensSound' /\ RefreshesSound'
        BY <1>1, TokensStay, RefreshesStay DEF LoginHandled, Sound, Core
    <2>4. TypeOK'
        BY <1>1, <2>1 DEF LoginHandled, server, Sound, Core, TypeOK, Free
    <2> QED BY <2>2, <2>3, <2>4 DEF Sound, Core
<1>2. ASSUME NEW s \in Sessions, session[s] = "none", ~Full,
             session' = [session EXCEPT ![s] = "active"],
             token' = Append(token, [of |-> s, status |-> "active"]),
             call' = [call EXCEPT ![c].state = "ok", ![c].of = s]
      PROVE  Sound'
    <2> DEFINE new == [of |-> s, status |-> "active"]
    <2>1. /\ session' \in [Sessions -> Statuses] /\ session'[s] = "active"
          /\ \A x \in Sessions : session'[x] = "none" <=> session[x] = "none" /\ x # s
        BY <1>0, <1>2 DEF Core, TypeOK, Statuses
    <2>2. new \in TokenRecord /\ new.of = s /\ token \in Seq(TokenRecord)
        BY <1>0 DEF TokenRecord, Core, TokensSound
    <2> HIDE DEF new
    <2>3. /\ token' \in Seq(TokenRecord) /\ Len(token') = Len(token) + 1
          /\ \A i \in DOMAIN token' : session'[token'[i].of] # "none"
          /\ \A x \in Sessions : session'[x] # "none" =>
                \E i \in FamilyOf(x)' : \A j \in FamilyOf(x)' : i <= j
          /\ \A r : RefreshSound(r) /\ r.token \in 0..Len(token) => RefreshSound(r)'
        <3>1. token' = Append(token, new)
            BY <1>2 DEF new
        <3> QED BY <1>0, <2>1, <2>2, <3>1, TokensGrow
    <2>4. TokensSound'
        <3>1. Pending' = Pending
            BY DEF LoginHandled, Pending, Free
        <3>2. Len(token') + Cardinality(Pending') <= MaxTokens
            BY <1>0, <1>2, <2>3, <3>1, RoomForOne, TokenFacts
        <3> QED BY <2>3, <3>2 DEF TokensSound
    <2>5. RefreshesSound'
        BY <1>0, <2>3, RefreshFacts DEF LoginHandled, RefreshesSound, Free
    <2>6. /\ call' \in [Slots -> Calls \cup {None}] /\ call'[c].state = "ok" /\ call'[c].of = s
          /\ \A d \in Slots \ {c} : call'[d] = call[d]
        <3>1. call[c] \in Calls
            BY <1>0, CallIsTyped
        <3>2. [call[c] EXCEPT !.state = "ok", !.of = s] \in Calls
            <4>1. s \in 0..MaxSessions
                BY DEF Sessions
            <4> QED BY <3>1, <4>1 DEF Calls
        <3>3. call' = [call EXCEPT ![c] = [call[c] EXCEPT !.state = "ok", !.of = s]]
            BY <1>2
        <3>4. call \in [Slots -> Calls \cup {None}]
            BY <1>0 DEF Core, TypeOK
        <3>5. [call[c] EXCEPT !.state = "ok", !.of = s].state = "ok" /\ [call[c] EXCEPT !.state = "ok", !.of = s].of = s
            BY <3>1 DEF Calls
        <3> QED BY <3>2, <3>3, <3>4, <3>5
    <2>7. TabTyped'
        BY <1>0, <2>6 DEF LoginHandled, Core, TypeOK, TabTyped
    <2>8. LoginsSound' /\ WaitersAreServed'
        BY <2>1, <2>6 DEF LoginHandled, Sound, Core, LoginsSound, LoggedIn, WaitersAreServed, Free
    <2>9. Core'
        BY <1>0, <2>1, <2>3, <2>4, <2>5, <2>7, <2>8, TokenFacts, PromiseStays DEF LoginHandled
    <2> QED BY <2>8, <2>9 DEF Sound
<1> QED BY <1>1, <1>2 DEF LoginHandled

LEMMA CallAnsweredStep ==
    ASSUME Sound, NEW c \in Slots, CallAnswered(c)
    PROVE  Sound'
<1>0. ~Free(call, c) /\ Core /\ UNCHANGED <<session, token, refreshing, promise, failures>>
    BY DEF CallAnswered, Sound, server
<1>1. TabTyped' /\ LoginsSound' /\ call' = [call EXCEPT ![c] = None]
    BY <1>0, CallEnds DEF CallAnswered
<1>2. TokensSound' /\ RefreshesSound'
    BY <1>0, TokensStay, RefreshesStay DEF Core, server
<1>3. jar' \in [access : 0..MaxSessions, live : BOOLEAN, refresh : 0..Len(token)]
    <2> DEFINE s == call[c].of
    <2>1. CASE jar' = jar
        BY <1>0, <2>1 DEF Core, TypeOK
    <2>2. CASE jar' = NoCookies
        BY <1>0, <2>2, TokenFacts DEF NoCookies
    <2>3. ASSUME LoggedIn(c),
                 jar' = [access |-> s, live |-> TRUE,
                         refresh |-> CHOOSE i \in DOMAIN token :
                                       token[i].of = s /\ \A j \in FamilyOf(s) : i <= j]
          PROVE  jar' \in [access : 0..MaxSessions, live : BOOLEAN, refresh : 0..Len(token)]
        <3>1. s \in Sessions /\ s \in 0..MaxSessions /\ session[s] # "none"
            BY <1>0, <2>3 DEF Core, LoginsSound, Sessions
        <3>2. \E i \in DOMAIN token : token[i].of = s /\ \A j \in FamilyOf(s) : i <= j
            BY <1>0, <3>1 DEF Core, TokensSound, FamilyOf
        <3>3. (CHOOSE i \in DOMAIN token : token[i].of = s /\ \A j \in FamilyOf(s) : i <= j)
                \in DOMAIN token
            BY <3>2
        <3> QED BY <1>0, <2>3, <3>1, <3>3, TokenFacts
    <2> QED BY <1>0, <2>1, <2>2, <2>3 DEF CallAnswered, LoggedIn
<1>4. TypeOK'
    BY <1>0, <1>1, <1>2, <1>3, TypeParts DEF Core, TypeOK, TokensSound, Free
<1>5. WaitersAreServed'
    <2>1. \A d \in Slots : call'[d] = call[d] \/ call'[d] = None
        BY <1>0, <1>1 DEF Core, TypeOK
    <2>2. tick' = tick \/ tick' = Abort(tick)
        BY DEF CallAnswered, Ends, clearLocalSession, sameUser, setUser
    <2>3. \A t \in Ticks : Abort(tick)[t] # None => tick[t] # None /\ Abort(tick)[t].state = tick[t].state
        BY <1>0, AbortTyped DEF Core, TypeOK
    <2> QED BY <1>0, <2>1, <2>2, <2>3 DEF Sound, WaitersAreServed, Free
<1> QED BY <1>1, <1>2, <1>4, <1>5 DEF Sound, Core

LEMMA CallFailsStep ==
    ASSUME Sound, NEW c \in Slots, CallFails(c)
    PROVE  Sound'
<1>0. ~Free(call, c) /\ Core /\ UNCHANGED <<session, token, jar, refreshing, promise>>
    BY DEF CallFails, Sound, server
<1>1. TabTyped' /\ LoginsSound' /\ call' = [call EXCEPT ![c] = None]
    BY <1>0, CallEnds DEF CallFails
<1>2. TokensSound' /\ RefreshesSound'
    BY <1>0, TokensStay, RefreshesStay DEF Core, server
<1>3. failures' \in 0..MaxFailures
    BY <1>0 DEF CallFails, Core, TypeOK
<1>4. TypeOK'
    BY <1>0, <1>1, <1>2, <1>3, TypeParts DEF Core, TypeOK, TokensSound, Free
<1>5. WaitersAreServed'
    <2>1. \A d \in Slots : call'[d] = call[d] \/ call'[d] = None
        BY <1>0, <1>1 DEF Core, TypeOK
    <2>2. tick' = tick \/ tick' = Abort(tick)
        BY DEF CallFails, Ends, clearLocalSession, sameUser, setUser
    <2>3. \A t \in Ticks : Abort(tick)[t] # None => tick[t] # None /\ Abort(tick)[t].state = tick[t].state
        BY <1>0, AbortTyped DEF Core, TypeOK
    <2> QED BY <1>0, <2>1, <2>2, <2>3 DEF Sound, WaitersAreServed, Free
<1> QED BY <1>1, <1>2, <1>4, <1>5 DEF Sound, Core

LEMMA RevokedElsewhereStep ==
    ASSUME Sound, NEW s \in Sessions, RevokedElsewhere(s)
    PROVE  Sound'
<1>1. /\ session' \in [Sessions -> Statuses] /\ token' \in Seq(TokenRecord)
      /\ Len(token') = Len(token) /\ TokensSound' /\ RefreshesSound'
      /\ \A x \in Sessions : session'[x] = "none" <=> session[x] = "none"
    BY Revoking DEF RevokedElsewhere, Sound
<1>2. TabTyped' /\ WaitersAreServed'
    BY DEF RevokedElsewhere, Sound, Core, TypeOK, TabTyped, WaitersAreServed, Free
<1>3. LoginsSound'
    BY <1>1 DEF RevokedElsewhere, Sound, Core, LoginsSound, LoggedIn, Free
<1>4. Core'
    BY <1>1, <1>2, <1>3, TokenFacts, PromiseStays DEF RevokedElsewhere, Sound
<1> QED BY <1>2, <1>4 DEF Sound

LEMMA AccessExpiresStep ==
    ASSUME Sound, AccessExpires
    PROVE  Sound'
<1>1. TokensSound' /\ RefreshesSound'
    BY TokensStay, RefreshesStay DEF AccessExpires, Sound, Core
<1>2. LoginsSound' /\ WaitersAreServed'
    BY DEF AccessExpires, server, Sound, Core, LoginsSound, LoggedIn, WaitersAreServed, Free
<1>3. TypeOK'
    BY DEF AccessExpires, server, Sound, Core, TypeOK, Free
<1> QED BY <1>1, <1>2, <1>3 DEF Sound, Core

LEMMA ReloadStep ==
    ASSUME Sound, Reload
    PROVE  Sound'
<1>0. Core /\ UNCHANGED <<session, token, jar>>
    BY DEF Reload, Sound, server
<1>1. Call("me") \in Calls /\ Call("me").state = "sent"
    BY <1>0 DEF Call, Calls, Kinds, Core, TypeOK
<1>2. /\ call' \in [Slots -> Calls \cup {None}]
      /\ \A d \in Slots : call'[d] = None \/ call'[d].state = "sent"
    BY <1>1 DEF Reload
<1>10. failures' \in 0..MaxFailures
    BY <1>0 DEF Reload, Core, TypeOK
<1>11. user' = 0 /\ promise' = None /\ inFlight' = FALSE /\ tick' = [t \in Ticks |-> None]
    BY DEF Reload
<1>12. inFlight' \in BOOLEAN
    BY <1>11, Zenon
<1>13. user' \in 0..MaxSessions /\ tick' \in [Ticks -> TickType \cup {None}]
    BY <1>11
<1>3. TabTyped'
    BY <1>2, <1>12, <1>13 DEF TabTyped
<1>4. /\ refreshing' \in [Handlers -> Refreshes \cup {None}]
      /\ \A h \in Handlers : refreshing'[h] = None \/ refreshing'[h] = refreshing[h]
    BY <1>0 DEF Reload, Core, TypeOK
<1>5. Pending' \subseteq Pending
    BY <1>4 DEF Pending, Free
<1>6. TokensSound'
    BY <1>0, <1>5, PendingShrinks DEF Core, TokensSound, FamilyOf
<1>7. RefreshesSound'
    BY <1>0, <1>4 DEF Core, RefreshesSound, RefreshSound, Free
<1>8. TypeOK'
    BY <1>0, <1>3, <1>4, <1>6, <1>10, <1>11, TypeParts DEF Core, TypeOK, TokensSound
<1>9. LoginsSound' /\ WaitersAreServed'
    BY <1>2, <1>11 DEF LoginsSound, LoggedIn, WaitersAreServed, Free
<1> QED BY <1>6, <1>7, <1>8, <1>9 DEF Sound, Core

LEMMA InitSound == Init => Sound
<1> SUFFICES ASSUME Init PROVE Sound
    OBVIOUS
<1>1. 1 \in Sessions /\ DOMAIN token = {1} /\ Len(token) = 1 /\ token[1] = [of |-> 1, status |-> "active"]
    BY DEF Init, Sessions
<1>2. token \in Seq(TokenRecord)
    BY <1>1 DEF Init, TokenRecord
<1>3. Pending = {}
    BY DEF Init, Pending, Free
<1>4. TokensSound
    BY <1>1, <1>2, <1>3, FS_EmptySet DEF Init, TokensSound, FamilyOf
<1>5. RefreshesSound
    BY DEF Init, RefreshesSound, Free
<1>6. Call("me") \in Calls /\ Call("me").state = "sent"
    BY <1>1 DEF Init, Call, Calls, Kinds
<1>7. /\ call \in [Slots -> Calls \cup {None}]
      /\ \A d \in Slots : call[d] = None \/ call[d].state = "sent"
    BY <1>6 DEF Init
<1>8. LoginsSound /\ WaitersAreServed
    BY <1>7 DEF Init, LoginsSound, LoggedIn, WaitersAreServed, Free
<1>9. TypeOK
    <2>1. session \in [Sessions -> Statuses]
        BY DEF Init, Statuses
    <2>2. Len(token) \in 0..MaxTokens /\ \A i \in DOMAIN token : token[i] \in TokenRecord
        BY <1>1 DEF TokenRecord
    <2>3. jar \in [access : 0..MaxSessions, live : BOOLEAN, refresh : 0..Len(token)]
        BY <1>1 DEF Init
    <2>5. inFlight \in BOOLEAN
        BY Zenon DEF Init
    <2>4. /\ user \in 0..MaxSessions /\ promise = None
          /\ failures \in 0..MaxFailures
          /\ refreshing \in [Handlers -> Refreshes \cup {None}]
          /\ tick \in [Ticks -> TickType \cup {None}]
        BY DEF Init
    <2> QED BY <1>7, <2>1, <2>2, <2>3, <2>4, <2>5 DEF TypeOK, TokenRecord
<1> QED BY <1>4, <1>5, <1>8, <1>9 DEF Sound, Core

(* What is on the disk and in the tab is typed, and who waits is served.   *)
LEMMA SoundStep == Sound /\ [Next]_vars => Sound'
<1> SUFFICES ASSUME Sound, [Next]_vars PROVE Sound'
    OBVIOUS
<1>1. CASE UNCHANGED vars
    <2>1. TokensSound' /\ RefreshesSound'
        BY <1>1, TokensStay, RefreshesStay DEF vars, server, Sound, Core
    <2>2. UNCHANGED <<session, token, jar, user, call, promise, tick, inFlight, failures>>
        BY <1>1 DEF vars
    <2> QED BY <1>1, <2>1, <2>2, TabStays DEF vars, Sound, Core, TypeOK
<1>2. ASSUME NEW h \in Handlers,
             issueCsrf(h) \/ Server(h) \/ RefreshAnswered(h) \/ RefreshFails(h) \/ NobodyWaits(h)
      PROVE  Sound'
    BY <1>2, issueCsrfStep, RefreshReadStep, ReuseCommitsStep, RotationCommitsStep,
       RefreshAnsweredStep, RefreshFailsStep, NobodyWaitsStep DEF Server
<1>3. ASSUME NEW t \in Ticks, TickStarts(t) \/ TickRetries(t) PROVE Sound'
    BY <1>3, TickStartsStep, TickRetriesStep
<1>4. ASSUME NEW c \in Slots,
             (\E kind \in Kinds \ {"me"} : apiFetch(c, kind)) \/ Proceeds(c) \/ CallFails(c)
      PROVE  Sound'
    BY <1>4, apiFetchStep, CallHandledStep, LoginHandledStep, CallRefreshesStep,
       CallAnsweredStep, CallFailsStep DEF Proceeds
<1>5. ASSUME NEW s \in Sessions, RevokedElsewhere(s) PROVE Sound'
    BY <1>5, RevokedElsewhereStep
<1>6. CASE AccessExpires \/ Reload
    BY <1>6, AccessExpiresStep, ReloadStep
<1> QED BY <1>1, <1>2, <1>3, <1>4, <1>5, <1>6 DEF Next

-----------------------------------------------------------------------------
(* Rotation.  A step of it begins and ends without a failure.              *)
LEMMA JarFacts ==
    ASSUME Sound
    PROVE  /\ jar.refresh \in 0..Len(token) /\ DOMAIN token = 1..Len(token) /\ Len(token) \in Nat
           /\ jar.refresh # 0 => jar.refresh \in DOMAIN token
           /\ failures \in 0..MaxFailures
           /\ promise # None => promise \in Handlers /\ ~Free(refreshing, promise)
BY TokenFacts DEF Sound, Core, TypeOK

LEMMA ClientSteps ==
    ASSUME Sound, Rotates, UNCHANGED <<session, token, jar>>,
           UNCHANGED <<refreshing, promise>> \/ refreshAccessToken,
           \A c \in Slots : LoggedIn(c)' => LoggedIn(c) /\ call'[c] = call[c]
    PROVE  Rotates'
<1>1. CASE UNCHANGED <<refreshing, promise>>
    <2>1. OneRefresh' /\ OneActive' /\ JarSound'
        BY <1>1 DEF Rotates, OneRefresh, OneActive, JarSound, Usable, Free
    <2>2. \A h \in Handlers : ~Free(refreshing', h) => HeldSound(refreshing[h])'
        BY <1>1 DEF Rotates, HeldSound, Usable, FamilyOf, Free
    <2>3. \A c \in Slots : LoggedIn(c)' => LoginIsFresh(c)'
        BY <1>1 DEF Rotates, LoginIsFresh, Usable, FamilyOf, Free
    <2> QED BY <2>1, <2>2, <2>3 DEF Rotates
<1>2. ASSUME promise = None, NEW h \in Handlers, Free(refreshing, h), promise' = h,
             refreshing' = [refreshing EXCEPT ![h] = Begun]
      PROVE  Rotates'
    <2>1. \A g \in Handlers : Free(refreshing, g)
        BY <1>2 DEF Rotates, OneRefresh
    <2>2. refreshing'[h] = Begun /\ \A g \in Handlers \ {h} : Free(refreshing', g)
        BY <1>2, <2>1 DEF Sound, Core, TypeOK, Free
    <2>3. OneRefresh' /\ OneActive' /\ JarSound'
        BY <1>2, <2>2 DEF Rotates, OneRefresh, OneActive, JarSound, Usable
    <2>4. \A g \in Handlers : ~Free(refreshing', g) => HeldSound(refreshing[g])'
        BY <2>2 DEF HeldSound, Begun
    <2>5. \A c \in Slots : LoggedIn(c)' => LoginIsFresh(c)'
        BY <2>2 DEF Rotates, LoginIsFresh, Usable, FamilyOf, Begun
    <2> QED BY <2>3, <2>4, <2>5 DEF Rotates
<1> QED BY <1>1, <1>2 DEF refreshAccessToken, Begun

LEMMA HandlerSteps ==
    ASSUME Sound, Rotates, NEW h \in Handlers, ~Free(refreshing, h), NEW r \in Refreshes,
           refreshing' = [refreshing EXCEPT ![h] = r],
           UNCHANGED <<session, token, jar, call, promise>>,
           refreshing[h].state # "ok", HeldSound(r),
           r.token \in {0, refreshing[h].token, jar.refresh}
    PROVE  Rotates'
<1>1. /\ refreshing'[h] = r /\ ~Free(refreshing', h)
      /\ \A g \in Handlers \ {h} : refreshing'[g] = refreshing[g]
    BY DEF Sound, Core, TypeOK, Free
<1>2. h = promise
    BY DEF Rotates, OneRefresh
<1>3. OneRefresh' /\ OneActive'
    BY <1>1, <1>2 DEF Rotates, OneRefresh, OneActive, Free
<1>4. JarSound'
    BY <1>2 DEF Rotates, JarSound, Usable
<1>5. \A g \in Handlers : ~Free(refreshing', g) => HeldSound(refreshing[g])'
    <2>1. HeldSound(r)'
        BY DEF HeldSound, Usable, FamilyOf
    <2>2. \A g \in Handlers \ {h} : Free(refreshing', g)
        BY <1>1, <1>2 DEF Rotates, OneRefresh, Free
    <2> QED BY <1>1, <2>1, <2>2
<1>6. \A c \in Slots : LoggedIn(c)' => LoginIsFresh(c)'
    BY <1>1 DEF Rotates, LoginIsFresh, LoggedIn, Usable, FamilyOf, Free
<1> QED BY <1>3, <1>4, <1>5, <1>6 DEF Rotates

LEMMA issueCsrfRotates ==
    ASSUME Sound, Rotates, NEW h \in Handlers, issueCsrf(h)
    PROVE  Rotates'
<1>1. ~Free(refreshing, h) /\ promise = h /\ refreshing[h].state = "csrf"
    BY JarFacts DEF issueCsrf
<1>2. jar.refresh \in 0..MaxTokens
    BY JarFacts, TokenFacts DEF Sound
<1>3. PICK r \in Refreshes : r = [refreshing[h] EXCEPT !.state = "sent", !.token = jar.refresh]
    BY <1>1, <1>2, RefreshFacts DEF Sound, Refreshes
<1>4. r.state = "sent" /\ r.token = jar.refresh
    BY <1>1, <1>3, RefreshFacts DEF Sound, Refreshes
<1>5. HeldSound(r)
    BY <1>1, <1>4 DEF Rotates, JarSound, HeldSound
<1> QED BY <1>1, <1>3, <1>4, <1>5, HandlerSteps DEF issueCsrf, server

LEMMA RefreshReadRotates ==
    ASSUME Sound, Rotates, NEW h \in Handlers, RefreshRead(h)
    PROVE  Rotates'
<1> DEFINE q == refreshing[h]
<1>1. ~Free(refreshing, h) /\ q.state = "sent" /\ q \in Refreshes /\ q.token \in 0..Len(token)
    BY RefreshFacts DEF RefreshRead, Sound
<1>2. HeldSound(q)
    BY <1>1 DEF Rotates
<1>3. PICK r \in Refreshes : /\ refreshing' = [refreshing EXCEPT ![h] = r]
                             /\ r.token = q.token /\ HeldSound(r)
    <2>1. CASE refreshing' = [refreshing EXCEPT ![h] = [q EXCEPT !.state = "refused"]]
        <3>1. PICK r \in Refreshes : r = [q EXCEPT !.state = "refused"]
            BY <1>1 DEF Refreshes
        <3>2. r.token = q.token /\ r.state = "refused"
            BY <1>1, <3>1 DEF Refreshes
        <3> QED BY <2>1, <3>1, <3>2 DEF HeldSound
    <2>2. CASE /\ q.token # 0 /\ token[q.token].status = "active"
               /\ refreshing' = [refreshing EXCEPT ![h] = [q EXCEPT !.state = "rotates"]]
        <3>1. PICK r \in Refreshes : r = [q EXCEPT !.state = "rotates"]
            BY <1>1 DEF Refreshes
        <3>2. r.token = q.token /\ r.state = "rotates"
            BY <1>1, <3>1 DEF Refreshes
        <3> QED BY <2>2, <3>1, <3>2 DEF HeldSound, Usable
    <2>3. CASE /\ q.token # 0 /\ token[q.token].status # "active"
               /\ refreshing' = [refreshing EXCEPT ![h] =
                    [[q EXCEPT !.state = "reused"] EXCEPT !.family = FamilyOf(token[q.token].of)]]
        <3>0. FamilyOf(token[q.token].of) \in SUBSET (1..MaxTokens)
            BY TokenFacts DEF Sound, FamilyOf
        <3>1. PICK r \in Refreshes :
                r = [[q EXCEPT !.state = "reused"] EXCEPT !.family = FamilyOf(token[q.token].of)]
            BY <1>1, <3>0 DEF Refreshes
        <3>2. r.token = q.token /\ r.state = "reused"
            BY <1>1, <3>1 DEF Refreshes
        <3>3. session[token[q.token].of] # "active"
            BY <1>1, <1>2, <2>3 DEF HeldSound, Usable
        <3> QED BY <2>3, <3>1, <3>2, <3>3 DEF HeldSound
    <2> QED BY <1>1, <2>1, <2>2, <2>3 DEF RefreshRead
<1> QED BY <1>1, <1>3, HandlerSteps DEF RefreshRead, server

(* A reuse that is noticed closes a session that was closed already.       *)
LEMMA ReuseCommitsRotates ==
    ASSUME Sound, Rotates, NEW h \in Handlers, ReuseCommits(h)
    PROVE  Rotates'
<1> DEFINE q == refreshing[h]
           s == token[q.token].of
<1>1. ~Free(refreshing, h) /\ q.state = "reused" /\ q \in Refreshes /\ RefreshSound(q)
    BY RefreshFacts DEF ReuseCommits, Sound
<1>2. q.token \in DOMAIN token /\ session[s] # "active" /\ s \in Sessions
    <2>1. q.token # 0 /\ q.token \in 0..Len(token) /\ session[s] # "active"
        BY <1>1, RefreshFacts DEF RefreshSound, Rotates, HeldSound, Sound
    <2> QED BY <2>1, TokenFacts DEF Sound
<1>3. h = promise /\ promise' = promise
    BY <1>1 DEF Rotates, OneRefresh, ReuseCommits
<1>4. \A x \in Sessions : session'[x] = "active" => session[x] = "active" /\ x # s
    BY <1>2 DEF ReuseCommits, Sound, Core, TypeOK
<1>5. /\ DOMAIN token' = DOMAIN token
      /\ \A i \in DOMAIN token : token'[i].of = token[i].of
      /\ \A i \in DOMAIN token : token'[i].status = "active" => token[i].status = "active"
      /\ \A i \in DOMAIN token : token[i].of # s => token'[i] = token[i]
    <2>1. \A i \in DOMAIN token : token[i] \in TokenRecord
        BY TokenFacts DEF Sound
    <2>2. \A i \in q.family : token[i].of = s
        BY <1>1 DEF RefreshSound
    <2>3. token' = [i \in DOMAIN token |->
                      IF i \in q.family THEN [token[i] EXCEPT !.status = "reused"] ELSE token[i]]
        BY DEF ReuseCommits
    <2> QED BY <2>1, <2>2, <2>3 DEF TokenRecord
<1>6. \A i \in DOMAIN token : Usable(i) => Usable(i)'
    <2>1. \A i \in DOMAIN token : token[i].of \in Sessions
        BY TokenFacts DEF Sound
    <2> QED BY <1>4, <1>5, <2>1 DEF Usable
<1>7. PICK r \in Refreshes : r = [q EXCEPT !.state = "refused", !.family = {}]
    BY <1>1 DEF Refreshes
<1>8. r.state = "refused" /\ r.token = q.token
    BY <1>1, <1>7 DEF Refreshes
<1>9. refreshing'[h] = r /\ \A g \in Handlers \ {h} : refreshing'[g] = refreshing[g]
    BY <1>7 DEF ReuseCommits, Sound, Core, TypeOK
<1>10. OneRefresh' /\ OneActive'
    BY <1>3, <1>5, <1>9 DEF Rotates, OneRefresh, OneActive, Free
<1>11. JarSound'
    <2>1. jar.refresh # 0 => Usable(jar.refresh) /\ jar.refresh \in DOMAIN token
        BY <1>1, <1>3, JarFacts DEF Rotates, JarSound
    <2>2. jar' = jar
        BY DEF ReuseCommits
    <2>3. jar.refresh # 0 =>
            (session'[token'[jar.refresh].of] = "active" => token'[jar.refresh].status = "active")
        BY <1>6, <2>1 DEF Usable
    <2> QED BY <2>2, <2>3 DEF JarSound, Usable
<1>12. \A g \in Handlers : ~Free(refreshing', g) => HeldSound(refreshing[g])'
    <2>1. HeldSound(r)'
        BY <1>8 DEF HeldSound
    <2>2. \A g \in Handlers \ {h} : Free(refreshing', g)
        BY <1>3, <1>9 DEF Rotates, OneRefresh, Free
    <2> QED BY <1>9, <2>1, <2>2
<1>13. \A c \in Slots : LoggedIn(c)' => LoginIsFresh(c)'
    <2> SUFFICES ASSUME NEW c \in Slots, LoggedIn(c)'
                 PROVE  LoginIsFresh(c)'
        OBVIOUS
    <2>1. call' = call /\ jar' = jar
        BY DEF ReuseCommits
    <2>2. LoggedIn(c) /\ LoginIsFresh(c) /\ \A d \in Slots : LoggedIn(d)' <=> LoggedIn(d)
        BY <2>1 DEF Rotates, LoggedIn, Free
    <2>3. FamilyOf(call[c].of)' = FamilyOf(call[c].of) /\ FamilyOf(call[c].of) \subseteq DOMAIN token
        BY <1>5, <2>1 DEF FamilyOf
    <2>4. \A i \in FamilyOf(call[c].of) : Usable(i)'
        BY <1>6, <2>2, <2>3 DEF LoginIsFresh
    <2>5. jar'.refresh # 0 => token'[jar'.refresh].of # call'[c].of
        BY <1>5, <2>1, <2>2, JarFacts DEF LoginIsFresh
    <2>6. \A g \in Handlers : ~Free(refreshing', g) /\ refreshing'[g].token # 0
                              => token'[refreshing'[g].token].of # call'[c].of
        <3>1. \A g \in Handlers \ {h} : Free(refreshing', g)
            BY <1>3, <1>9 DEF Rotates, OneRefresh, Free
        <3>2. token'[r.token].of # call'[c].of
            <4>1. q.token # 0
                BY <1>1 DEF RefreshSound
            <4> QED BY <1>1, <1>2, <1>5, <1>8, <2>1, <2>2, <4>1 DEF LoginIsFresh
        <3> QED BY <1>9, <3>1, <3>2
    <2> QED BY <2>1, <2>2, <2>3, <2>4, <2>5, <2>6 DEF LoginIsFresh
<1> QED BY <1>10, <1>11, <1>12, <1>13 DEF Rotates

LEMMA RotationCommitsRotates ==
    ASSUME Sound, Rotates, NEW h \in Handlers, RotationCommits(h)
    PROVE  Rotates'
<1> DEFINE q == refreshing[h]
           s == token[q.token].of
           last == Len(token) + 1
<1>1. ~Free(refreshing, h) /\ q.state = "rotates" /\ q \in Refreshes /\ RefreshSound(q) /\ HeldSound(q)
    BY RefreshFacts DEF RotationCommits, Sound, Rotates
<1>2. q.token \in DOMAIN token /\ DOMAIN token = 1..Len(token) /\ Len(token) \in Nat
    <2>1. q.token # 0 /\ q.token \in 0..Len(token)
        BY <1>1, RefreshFacts DEF RefreshSound, Sound
    <2> QED BY <2>1, TokenFacts DEF Sound
<1>3. h = promise /\ UNCHANGED <<session, jar, call, promise>>
    BY <1>1 DEF Rotates, OneRefresh, RotationCommits
<1>4. /\ DOMAIN token' = 1..last
      /\ \A i \in DOMAIN token : token'[i].of = token[i].of
      /\ \A i \in DOMAIN token \ {q.token} : token'[i] = token[i]
      /\ token'[q.token].status = "rotated"
      /\ token'[last].of = s /\ token'[last].status = "active"
    <2> DEFINE old == [token EXCEPT ![q.token].status = "rotated"]
               new == [of |-> s, status |-> "active"]
    <2>1. token \in Seq(TokenRecord) /\ \A i \in DOMAIN token : token[i] \in TokenRecord
        BY TokenFacts DEF Sound, Core, TokensSound
    <2>2. /\ DOMAIN old = DOMAIN token /\ old[q.token].status = "rotated"
          /\ \A i \in DOMAIN token : old[i] \in TokenRecord /\ old[i].of = token[i].of
          /\ \A i \in DOMAIN token \ {q.token} : old[i] = token[i]
        BY <1>2, <2>1 DEF TokenRecord
    <2>3. old \in Seq(TokenRecord) /\ Len(old) = Len(token)
        BY <1>2, <2>1, <2>2
    <2>4. token' = Append(old, new)
        BY DEF RotationCommits
    <2>5. new.of = s /\ new.status = "active"
        OBVIOUS
    <2> HIDE DEF old, new
    <2> QED BY <1>2, <2>2, <2>3, <2>4, <2>5
<1>15. Len(token') = last /\ last \in 0..MaxTokens
    <2>1. token' \in Seq(TokenRecord) /\ Len(token') \in 0..MaxTokens
        BY RotationCommitsStep DEF Sound, Core, TypeOK, TokensSound
    <2>2. DOMAIN token' = 1..Len(token') /\ Len(token') \in Nat
        BY <2>1
    <2>3. Len(token') = last
        BY <1>2, <1>4, <2>2
    <2> QED BY <2>1, <2>3
<1>5. PICK r \in Refreshes : /\ r = [q EXCEPT !.state = "ok", !.token = last]
                             /\ r.state = "ok" /\ r.token = last
    <2>1. [q EXCEPT !.state = "ok", !.token = last] \in Refreshes
        BY <1>1, <1>15 DEF Refreshes
    <2>2. [q EXCEPT !.state = "ok", !.token = last].state = "ok"
        BY <1>1 DEF Refreshes
    <2>3. [q EXCEPT !.state = "ok", !.token = last].token = last
        BY <1>1 DEF Refreshes
    <2> QED BY <2>1, <2>2, <2>3
<1>6. refreshing'[h] = r /\ \A g \in Handlers \ {h} : refreshing'[g] = refreshing[g]
    BY <1>5, <1>15 DEF RotationCommits, Sound, Core, TypeOK
<1>7. \A g \in Handlers \ {h} : Free(refreshing', g)
    BY <1>3, <1>6 DEF Rotates, OneRefresh, Free
<1>8. \A i \in DOMAIN token : i # q.token /\ Usable(i) => Usable(i)'
    BY <1>3, <1>4 DEF Usable
<1>9. OneRefresh'
    BY <1>3, <1>7 DEF OneRefresh
<1>10. OneActive'
    <2>1. \A j \in DOMAIN token : j # q.token /\ token[j].of = s => token[j].status # "active"
        BY <1>1, <1>2 DEF Rotates, OneActive, HeldSound, FamilyOf
    <2> SUFFICES ASSUME NEW i \in DOMAIN token', NEW j \in DOMAIN token',
                        token'[i].of = token'[j].of,
                        token'[i].status = "active", token'[j].status = "active"
                 PROVE  i = j
        BY DEF OneActive
    <2>2. CASE i \in DOMAIN token /\ j \in DOMAIN token
        BY <1>4, <2>2 DEF Rotates, OneActive
    <2>3. CASE i = last \/ j = last
        BY <1>2, <1>4, <2>1, <2>3
    <2> QED BY <1>2, <1>4, <2>2, <2>3
<1>11. JarSound'
    BY <1>3, <1>5, <1>6, JarFacts, RotationCommitsStep DEF JarSound, RotationCommits
<1>12. \A g \in Handlers : ~Free(refreshing', g) => HeldSound(refreshing[g])'
    <2>1. HeldSound(r)'
        BY <1>4, <1>5 DEF HeldSound, Usable
    <2> QED BY <1>6, <1>7, <2>1
<1>13. \A c \in Slots : LoggedIn(c)' => LoginIsFresh(c)'
    <2> SUFFICES ASSUME NEW c \in Slots, LoggedIn(c)'
                 PROVE  LoginIsFresh(c)'
        OBVIOUS
    <2>1. LoggedIn(c) /\ LoginIsFresh(c) /\ \A d \in Slots : LoggedIn(d)' <=> LoggedIn(d)
        BY <1>3 DEF Rotates, LoggedIn, Free
    <2>2. s # call[c].of
        <3>1. q.token # 0
            BY <1>2
        <3> QED BY <1>1, <2>1, <3>1 DEF LoginIsFresh
    <2>3. FamilyOf(call[c].of)' = FamilyOf(call[c].of) /\ FamilyOf(call[c].of) \subseteq DOMAIN token \ {q.token}
        BY <1>2, <1>3, <1>4, <2>2 DEF FamilyOf
    <2>4. \A i \in FamilyOf(call[c].of) : Usable(i)'
        BY <1>8, <2>1, <2>3 DEF LoginIsFresh
    <2>5. jar'.refresh # 0 => token'[jar'.refresh].of # call'[c].of
        BY <1>3, <1>4, <2>1, JarFacts DEF LoginIsFresh
    <2>6. \A g \in Handlers : ~Free(refreshing', g) /\ refreshing'[g].token # 0
                              => token'[refreshing'[g].token].of # call'[c].of
        <3>1. token'[r.token].of # call'[c].of
            BY <1>3, <1>4, <1>5, <2>2
        <3> QED BY <1>6, <1>7, <3>1
    <2> QED BY <1>3, <2>1, <2>3, <2>4, <2>5, <2>6 DEF LoginIsFresh
<1> QED BY <1>9, <1>10, <1>11, <1>12, <1>13 DEF Rotates

LEMMA RefreshAnsweredRotates ==
    ASSUME Sound, Rotates, NEW h \in Handlers, RefreshAnswered(h)
    PROVE  Rotates'
<1> DEFINE q == refreshing[h]
<1>1. ~Free(refreshing, h) /\ h = promise /\ q.state \in {"ok", "refused"}
    BY JarFacts DEF RefreshAnswered
<1>2. RefreshSound(q) /\ HeldSound(q) /\ q.token \in 0..Len(token)
    BY <1>1, RefreshFacts DEF Rotates, Sound
<1>3. promise' = None /\ UNCHANGED <<session, token>> /\ \A g \in Handlers : Free(refreshing', g)
    BY <1>1 DEF RefreshAnswered, Resume, clearPromise, server, Rotates, OneRefresh, Free, Sound, Core, TypeOK
<1>4. OneRefresh' /\ OneActive'
    BY <1>3 DEF Rotates, OneRefresh, OneActive
<1>5. \/ jar' = jar /\ q.state = "refused"
      \/ jar'.refresh = q.token /\ q.state = "ok" /\ q.token # 0
    <2>1. CASE q.state = "ok"
        <3>1. jar' = [access |-> token[q.token].of, live |-> TRUE, refresh |-> q.token]
            BY <2>1 DEF RefreshAnswered, Resume
        <3> QED BY <1>2, <2>1, <3>1 DEF RefreshSound
    <2>2. CASE q.state = "refused"
        BY <2>2 DEF RefreshAnswered, Resume
    <2> QED BY <1>1, <2>1, <2>2
<1>6. JarSound'
    BY <1>1, <1>2, <1>3, <1>5 DEF Rotates, JarSound, HeldSound, Usable
<1>7. \A c \in Slots : LoggedIn(c)' => LoggedIn(c) /\ call'[c] = call[c]
    <2>1. PICK ok \in BOOLEAN, cookies \in [access : 0..MaxSessions, live : BOOLEAN, refresh : Nat] :
            call' = Resumed(ok, cookies)
        <3>1. CASE q.state = "ok"
            <4>1. q.token \in DOMAIN token /\ q.token \in Nat
                BY <1>2, <3>1, TokenFacts DEF RefreshSound, Sound
            <4>2. token[q.token].of \in 0..MaxSessions
                BY <4>1, TokenFacts DEF Sound, Sessions
            <4>3. [access |-> token[q.token].of, live |-> TRUE, refresh |-> q.token]
                    \in [access : 0..MaxSessions, live : BOOLEAN, refresh : Nat]
                BY <4>1, <4>2
            <4> QED BY <3>1, <4>3 DEF RefreshAnswered, Resume
        <3>2. CASE q.state = "refused"
            <4>1. jar \in [access : 0..MaxSessions, live : BOOLEAN, refresh : Nat]
                BY DEF Sound, Core, TypeOK
            <4> QED BY <3>2, <4>1 DEF RefreshAnswered, Resume
        <3> QED BY <1>1, <3>1, <3>2
    <2>2. call \in [Slots -> Calls \cup {None}]
        BY DEF Sound, Core, TypeOK
    <2>3. \A c \in Slots : call'[c] # None =>
            call[c] # None /\ call'[c].kind = call[c].kind /\ (call'[c].state = "ok" => call'[c] = call[c])
        BY <2>1, <2>2, ResumedTyped
    <2> QED BY <2>3 DEF LoggedIn, Free
<1>8. \A c \in Slots : LoggedIn(c)' => LoginIsFresh(c)'
    BY <1>1, <1>3, <1>5, <1>7 DEF Rotates, LoginIsFresh, Usable, FamilyOf
<1> QED BY <1>3, <1>4, <1>6, <1>8 DEF Rotates

LEMMA NobodyWaitsRotates ==
    ASSUME Rotates, NEW h \in Handlers, NobodyWaits(h)
    PROVE  FALSE
BY DEF NobodyWaits, Rotates, OneRefresh

(* The calls that have logged in, and the sessions of them, are the same.  *)
LoginsStay == \A c \in Slots : LoggedIn(c)' => LoggedIn(c) /\ call'[c].of = call[c].of

(* Other cookies: those kept, or of a token that may be used and is of no  *)
(* login that is not answered.                                             *)
LEMMA JarChanges ==
    ASSUME Sound, Rotates, UNCHANGED <<session, token, refreshing, promise>>, LoginsStay,
           NEW i, jar'.refresh = i,
           \/ i = jar.refresh
           \/ i # 0 => Usable(i) /\ \A c \in Slots : LoggedIn(c)' => token[i].of # call[c].of
    PROVE  Rotates'
<1>1. OneRefresh' /\ OneActive'
    BY DEF Rotates, OneRefresh, OneActive, Free
<1>2. JarSound'
    BY DEF Rotates, JarSound, Usable
<1>3. \A h \in Handlers : ~Free(refreshing', h) => HeldSound(refreshing[h])'
    BY DEF Rotates, HeldSound, Usable, FamilyOf, Free
<1>4. \A c \in Slots : LoggedIn(c)' => LoginIsFresh(c)'
    <2> SUFFICES ASSUME NEW c \in Slots, LoggedIn(c)'
                 PROVE  LoginIsFresh(c)'
        OBVIOUS
    <2>1. LoggedIn(c) /\ LoginIsFresh(c) /\ call'[c].of = call[c].of
        BY DEF Rotates, LoginsStay
    <2>2. FamilyOf(call[c].of)' = FamilyOf(call[c].of)
        BY <2>1 DEF FamilyOf
    <2>3. \A j \in FamilyOf(call[c].of) : Usable(j)'
        BY <2>1 DEF LoginIsFresh, Usable
    <2>4. jar'.refresh # 0 => token'[jar'.refresh].of # call'[c].of
        BY <2>1 DEF LoginIsFresh
    <2>5. \A h \in Handlers : ~Free(refreshing', h) /\ refreshing'[h].token # 0
                              => token'[refreshing'[h].token].of # call'[c].of
        BY <2>1 DEF LoginIsFresh, Free
    <2>6. \A d \in Slots : LoggedIn(d)' /\ d # c => call'[d].of # call'[c].of
        BY <2>1 DEF LoginIsFresh, LoginsStay
    <2> QED BY <2>1, <2>2, <2>3, <2>4, <2>5, <2>6 DEF LoginIsFresh
<1> QED BY <1>1, <1>2, <1>3, <1>4 DEF Rotates

LEMMA CallAnsweredRotates ==
    ASSUME Sound, Rotates, NEW c \in Slots, CallAnswered(c)
    PROVE  Rotates'
<1>1. /\ ~Free(call, c) /\ call' = [call EXCEPT ![c] = None]
      /\ UNCHANGED <<session, token, refreshing, promise>>
    BY DEF CallAnswered, Ends, server
<1>2. Free(call', c) /\ \A d \in Slots \ {c} : call'[d] = call[d]
    BY <1>1 DEF Sound, Core, TypeOK, Free
<1>3. LoginsStay
    BY <1>2 DEF LoginsStay, LoggedIn, Free
<1>4. CASE jar' = jar
    BY <1>1, <1>3, <1>4, JarChanges
<1>5. CASE jar' = NoCookies
    BY <1>1, <1>3, <1>5, JarChanges DEF NoCookies
<1>6. CASE jar' # jar /\ jar' # NoCookies
    <2> DEFINE s == call[c].of
    <2>1. LoggedIn(c)
        BY <1>1, <1>6 DEF CallAnswered, LoggedIn
    <2>2. s \in Sessions /\ session[s] # "none"
        BY <2>1 DEF Sound, Core, LoginsSound
    <2>3. \E i \in DOMAIN token : token[i].of = s /\ \A j \in FamilyOf(s) : i <= j
        BY <2>2 DEF Sound, Core, TokensSound, FamilyOf
    <2>4. PICK i : i = CHOOSE k \in DOMAIN token : token[k].of = s /\ \A j \in FamilyOf(s) : k <= j
        OBVIOUS
    <2>5. i \in FamilyOf(s)
        BY <2>3, <2>4 DEF FamilyOf
    <2>6. jar'.refresh = i
        BY <1>6, <2>1, <2>4 DEF CallAnswered, LoggedIn
    <2>7. LoginIsFresh(c)
        BY <2>1 DEF Rotates
    <2>8. Usable(i) /\ token[i].of = s
        BY <2>5, <2>7 DEF LoginIsFresh, FamilyOf
    <2>9. \A d \in Slots : LoggedIn(d)' => token[i].of # call[d].of
        BY <1>2, <1>3, <2>7, <2>8 DEF LoginIsFresh, LoginsStay, LoggedIn
    <2> QED BY <1>1, <1>3, <2>6, <2>8, <2>9, JarChanges
<1> QED BY <1>4, <1>5, <1>6

(* A session that is revoked loses all of its active tokens.               *)
LEMMA RevokedRotates ==
    ASSUME Sound, Rotates, NEW s \in Sessions, session[s] = "active", Revoked(s),
           UNCHANGED <<jar, refreshing, promise>>, LoginsStay
    PROVE  Rotates'
<1>1. /\ DOMAIN token' = DOMAIN token /\ DOMAIN token = 1..Len(token) /\ Len(token) \in Nat
      /\ \A i \in DOMAIN token : token'[i].of = token[i].of
      /\ \A i \in DOMAIN token : token'[i].status = "active" => token'[i] = token[i]
      /\ \A i \in DOMAIN token : token[i].of = s => token'[i].status # "active"
      /\ \A i \in DOMAIN token : token[i].of # s => token'[i] = token[i]
    <2>1. \A i \in DOMAIN token : token[i] \in TokenRecord
        BY TokenFacts DEF Sound
    <2> QED BY <2>1, TokenFacts DEF Revoked, TokenRecord, Sound
<1>2. \A x \in Sessions : session'[x] = "active" => session[x] = "active" /\ x # s
    BY DEF Revoked, Sound, Core, TypeOK
<1>3. \A i \in DOMAIN token : token[i].of \in Sessions
    BY TokenFacts DEF Sound
<1>4. \A i \in DOMAIN token : Usable(i) => Usable(i)'
    BY <1>1, <1>2, <1>3 DEF Usable
<1>5. OneRefresh' /\ OneActive'
    BY <1>1 DEF Rotates, OneRefresh, OneActive, Free
<1>6. JarSound'
    <2>1. jar.refresh # 0 => jar.refresh \in DOMAIN token
        BY JarFacts
    <2>2. jar.refresh # 0 /\ Usable(jar.refresh) =>
            (session'[token'[jar.refresh].of] = "active" => token'[jar.refresh].status = "active")
        BY <1>4, <2>1 DEF Usable
    <2> QED BY <2>2 DEF Rotates, JarSound, Usable
<1>7. \A h \in Handlers : ~Free(refreshing', h) => HeldSound(refreshing[h])'
    <2> SUFFICES ASSUME NEW h \in Handlers, ~Free(refreshing, h)
                 PROVE  HeldSound(refreshing[h])'
        BY DEF Free
    <2>1. PICK r : r = refreshing[h]
        OBVIOUS
    <2>2. HeldSound(r) /\ RefreshSound(r) /\ r.token \in 0..Len(token)
        BY <2>1, RefreshFacts DEF Rotates, Sound
    <2>3. r.token # 0 => r.token \in DOMAIN token
        BY <1>1, <2>2
    <2>4. r.state \in {"sent", "rotates", "ok"} /\ r.token # 0 => Usable(r.token)'
        BY <1>4, <2>2, <2>3 DEF HeldSound
    <2>5. r.state = "rotates" /\ token'[r.token].status # "active" =>
            \A j \in FamilyOf(token[r.token].of)' : token'[j].status # "active"
        <3> SUFFICES ASSUME r.state = "rotates", token'[r.token].status # "active",
                            NEW j \in FamilyOf(token[r.token].of)'
                     PROVE  token'[j].status # "active"
            OBVIOUS
        <3>1. r.token \in DOMAIN token
            BY <2>2, <2>3 DEF RefreshSound
        <3>3. token'[r.token].of = token[r.token].of
            BY <1>1, <3>1
        <3>2. j \in FamilyOf(token[r.token].of) /\ j \in DOMAIN token /\ token[j].of = token[r.token].of
            BY <1>1, <3>3 DEF FamilyOf
        <3> QED BY <1>1, <2>2, <3>1, <3>2 DEF HeldSound
    <2>6. r.state = "reused" => session'[token'[r.token].of] # "active"
        BY <1>1, <1>2, <1>3, <2>2, <2>3 DEF HeldSound, RefreshSound
    <2>7. r.state \in {"sent", "rotates", "reused", "ok"} /\ r.token # 0 => token'[r.token].of = token[r.token].of
        BY <1>1, <2>3
    <2>8. r.state = "rotates" => r.token # 0
        BY <2>2 DEF RefreshSound
    <2>9. HeldSound(r)'
        BY <2>4, <2>5, <2>6, <2>7, <2>8 DEF HeldSound
    <2> QED BY <2>1, <2>9
<1>8. \A c \in Slots : LoggedIn(c)' => LoginIsFresh(c)'
    <2> SUFFICES ASSUME NEW c \in Slots, LoggedIn(c)'
                 PROVE  LoginIsFresh(c)'
        OBVIOUS
    <2>1. LoggedIn(c) /\ LoginIsFresh(c) /\ call'[c].of = call[c].of
        BY DEF Rotates, LoginsStay
    <2>2. FamilyOf(call[c].of)' = FamilyOf(call[c].of) /\ FamilyOf(call[c].of) \subseteq DOMAIN token
        BY <1>1, <2>1 DEF FamilyOf
    <2>3. \A j \in FamilyOf(call[c].of) : Usable(j)'
        BY <1>4, <2>1, <2>2 DEF LoginIsFresh
    <2>4. jar'.refresh # 0 => token'[jar'.refresh].of # call'[c].of
        BY <1>1, <2>1, JarFacts DEF LoginIsFresh
    <2>5. \A h \in Handlers : ~Free(refreshing', h) /\ refreshing'[h].token # 0
                              => token'[refreshing'[h].token].of # call'[c].of
        <3> SUFFICES ASSUME NEW h \in Handlers, ~Free(refreshing, h), refreshing[h].token # 0
                     PROVE  token'[refreshing[h].token].of # call[c].of
            BY <2>1 DEF Free
        <3>1. refreshing[h].token \in DOMAIN token
            <4>1. refreshing[h].token \in 0..Len(token)
                BY RefreshFacts DEF Sound
            <4> QED BY <1>1, <4>1
        <3> QED BY <1>1, <2>1, <3>1 DEF LoginIsFresh
    <2>6. \A d \in Slots : LoggedIn(d)' /\ d # c => call'[d].of # call'[c].of
        BY <2>1 DEF LoginIsFresh, LoginsStay
    <2> QED BY <2>1, <2>2, <2>3, <2>4, <2>5, <2>6 DEF LoginIsFresh
<1> QED BY <1>5, <1>6, <1>7, <1>8 DEF Rotates

LEMMA CallHandledRotates ==
    ASSUME Sound, Rotates, NEW c \in Slots, CallHandled(c)
    PROVE  Rotates'
<1>1. /\ call' \in [Slots -> Calls \cup {None}] /\ ~Free(call, c) /\ ~Free(call', c)
      /\ call'[c].kind = call[c].kind /\ call[c].kind # "login"
      /\ \A d \in Slots \ {c} : call'[d] = call[d]
    <2>1. PICK state \in {"ok", "refused"} : Answer(c, state)
        BY DEF CallHandled
    <2> QED BY <2>1, CallMoves DEF CallHandled, Sound, Core, TypeOK
<1>2. \A d \in Slots : LoggedIn(d)' => LoggedIn(d) /\ call'[d] = call[d]
    BY <1>1 DEF LoggedIn, Free
<1>3. CASE UNCHANGED server
    BY <1>2, <1>3, ClientSteps DEF CallHandled, server
<1>4. CASE Revoked(call[c].of) /\ Authenticated(call[c].of)
    <2>1. call[c].of \in Sessions /\ session[call[c].of] = "active"
        BY <1>1, <1>4, CallIsTyped DEF Authenticated, Sessions
    <2> QED BY <1>2, <1>4, <2>1, RevokedRotates DEF CallHandled, LoginsStay
<1> QED BY <1>3, <1>4 DEF CallHandled

(* The token of a new login is the only one of its session.                *)
LEMMA LoginHandledRotates ==
    ASSUME Sound, Rotates, NEW c \in Slots, LoginHandled(c)
    PROVE  Rotates'
<1>0. /\ ~Free(call, c) /\ call[c] \in Calls /\ call[c].kind = "login" /\ call[c].state = "sent"
      /\ UNCHANGED <<jar, refreshing, promise>>
    BY CallIsTyped DEF LoginHandled
<1>1. CASE Answer(c, "refused") /\ UNCHANGED server
    <2>1. /\ call' \in [Slots -> Calls \cup {None}] /\ call'[c].state = "refused"
          /\ \A d \in Slots \ {c} : call'[d] = call[d]
        BY <1>0, <1>1, CallMoves DEF Sound, Core, TypeOK
    <2>2. \A d \in Slots : LoggedIn(d)' => LoggedIn(d) /\ call'[d] = call[d]
        BY <2>1 DEF LoggedIn, Free
    <2> QED BY <1>0, <1>1, <2>2, ClientSteps DEF server
<1>2. ASSUME NEW s \in Sessions, session[s] = "none", session' = [session EXCEPT ![s] = "active"],
             token' = Append(token, [of |-> s, status |-> "active"]),
             call' = [call EXCEPT ![c].state = "ok", ![c].of = s]
      PROVE  Rotates'
    <2> DEFINE last == Len(token) + 1
    <2>1. /\ DOMAIN token = 1..Len(token) /\ Len(token) \in Nat /\ token \in Seq(TokenRecord)
          /\ \A i \in DOMAIN token : token[i].of \in Sessions /\ session[token[i].of] # "none"
        BY TokenFacts DEF Sound, Core, TokensSound
    <2>2. /\ DOMAIN token' = 1..last /\ \A i \in DOMAIN token : token'[i] = token[i] /\ token[i].of # s
          /\ token'[last].of = s /\ token'[last].status = "active"
        <3> DEFINE new == [of |-> s, status |-> "active"]
        <3>1. new \in TokenRecord /\ new.of = s /\ new.status = "active"
            BY DEF TokenRecord
        <3>2. token' = Append(token, new)
            BY <1>2
        <3> HIDE DEF new
        <3>3. DOMAIN token' = 1..last /\ token'[last] = new /\ \A i \in DOMAIN token : token'[i] = token[i]
            BY <2>1, <3>1, <3>2
        <3>4. \A i \in DOMAIN token : token[i].of # s
            BY <1>2, <2>1
        <3> QED BY <3>1, <3>3, <3>4
    <2>3. session'[s] = "active" /\ \A x \in Sessions \ {s} : session'[x] = session[x]
        BY <1>2 DEF Sound, Core, TypeOK
    <2>4. \A i \in DOMAIN token : Usable(i) => Usable(i)'
        BY <2>1, <2>2, <2>3 DEF Usable
    <2>5. call'[c].of = s /\ ~Free(call', c) /\ \A d \in Slots \ {c} : call'[d] = call[d]
        <3> DEFINE answered == [call[c] EXCEPT !.state = "ok", !.of = s]
        <3>1. answered \in Calls
            <4>1. s \in 0..MaxSessions
                BY DEF Sessions
            <4> QED BY <1>0, <4>1 DEF Calls
        <3>2. answered.of = s
            BY <1>0 DEF Calls
        <3> QED BY <1>2, <3>1, <3>2 DEF Sound, Core, TypeOK, Free
    <2>6. OneRefresh'
        BY <1>0 DEF Rotates, OneRefresh, Free
    <2>7. OneActive'
        <3> SUFFICES ASSUME NEW i \in DOMAIN token', NEW j \in DOMAIN token',
                            token'[i].of = token'[j].of,
                            token'[i].status = "active", token'[j].status = "active"
                     PROVE  i = j
            BY DEF OneActive
        <3>1. CASE i \in DOMAIN token /\ j \in DOMAIN token
            BY <2>2, <3>1 DEF Rotates, OneActive
        <3>2. CASE i = last \/ j = last
            BY <2>1, <2>2, <3>2
        <3> QED BY <2>1, <2>2, <3>1, <3>2
    <2>8. JarSound'
        <3>1. jar.refresh # 0 => jar.refresh \in DOMAIN token
            BY JarFacts
        <3>2. jar.refresh # 0 /\ Usable(jar.refresh) =>
                (session'[token'[jar.refresh].of] = "active" => token'[jar.refresh].status = "active")
            BY <2>4, <3>1 DEF Usable
        <3> QED BY <1>0, <3>2 DEF Rotates, JarSound, Usable
    <2>9. \A h \in Handlers : ~Free(refreshing', h) => HeldSound(refreshing[h])'
        <3> SUFFICES ASSUME NEW h \in Handlers, ~Free(refreshing, h)
                     PROVE  HeldSound(refreshing[h])'
            BY <1>0 DEF Free
        <3>1. PICK r : r = refreshing[h]
            OBVIOUS
        <3>2. HeldSound(r) /\ RefreshSound(r) /\ r.token \in 0..Len(token)
            BY <3>1, RefreshFacts DEF Rotates, Sound
        <3>3. r.token # 0 => r.token \in DOMAIN token /\ token'[r.token] = token[r.token] /\ token[r.token].of # s
            BY <2>1, <2>2, <3>2
        <3>4. r.state \in {"sent", "rotates", "ok"} /\ r.token # 0 => Usable(r.token)'
            BY <2>4, <3>2, <3>3 DEF HeldSound
        <3>5. r.state = "rotates" /\ token'[r.token].status # "active" =>
                \A j \in FamilyOf(token[r.token].of)' : token'[j].status # "active"
            <4> SUFFICES ASSUME r.state = "rotates", token'[r.token].status # "active",
                                NEW j \in FamilyOf(token[r.token].of)'
                         PROVE  token'[j].status # "active"
                OBVIOUS
            <4>1. r.token # 0
                BY <3>2 DEF RefreshSound
            <4>2. j \in DOMAIN token' /\ token'[j].of = token[r.token].of
                BY <3>3, <4>1 DEF FamilyOf
            <4>3. j \in DOMAIN token /\ j \in FamilyOf(token[r.token].of)
                BY <2>1, <2>2, <3>3, <4>1, <4>2 DEF FamilyOf
            <4> QED BY <2>2, <3>2, <3>3, <4>1, <4>3 DEF HeldSound
        <3>6. r.state = "reused" => session'[token'[r.token].of] # "active"
            BY <2>1, <2>3, <3>2, <3>3 DEF HeldSound, RefreshSound
        <3>7. r.state = "rotates" => r.token # 0
            BY <3>2 DEF RefreshSound
        <3>8. HeldSound(r)'
            BY <3>3, <3>4, <3>5, <3>6, <3>7 DEF HeldSound
        <3>9. refreshing'[h] = r
            BY <1>0, <3>1
        <3> QED BY <3>8, <3>9
    <2>10. \A h \in Handlers : ~Free(refreshing, h) /\ refreshing[h].token # 0 => refreshing[h].token \in DOMAIN token
        <3>1. \A h \in Handlers : ~Free(refreshing, h) => refreshing[h].token \in 0..Len(token)
            BY RefreshFacts DEF Sound
        <3> QED BY <2>1, <3>1
    <2>11. LoginIsFresh(c)'
        <3>1. \A i \in FamilyOf(s)' : Usable(i)'
            BY <2>1, <2>2 DEF FamilyOf, Usable
        <3>2. jar'.refresh # 0 => token'[jar'.refresh].of # s
            BY <1>0, <2>2, JarFacts
        <3>3. \A h \in Handlers : ~Free(refreshing', h) /\ refreshing'[h].token # 0
                                  => token'[refreshing'[h].token].of # s
            BY <1>0, <2>2, <2>10 DEF Free
        <3>4. \A d \in Slots : LoggedIn(d)' /\ d # c => call'[d].of # s
            <4>1. \A d \in Slots : LoggedIn(d) => call[d].of # s
                BY <1>2 DEF Sound, Core, LoginsSound
            <4> QED BY <2>5, <4>1 DEF LoggedIn, Free
        <3> QED BY <2>5, <3>1, <3>2, <3>3, <3>4 DEF LoginIsFresh
    <2>12. ASSUME NEW d \in Slots \ {c}, LoggedIn(d)'
           PROVE  LoginIsFresh(d)'
        <3>1. LoggedIn(d) /\ LoginIsFresh(d) /\ call'[d] = call[d] /\ call[d].of # s
            BY <1>2, <2>5, <2>12 DEF Rotates, LoggedIn, Free, Sound, Core, LoginsSound
        <3>2. FamilyOf(call[d].of)' = FamilyOf(call[d].of) /\ FamilyOf(call[d].of) \subseteq DOMAIN token
            BY <2>1, <2>2, <3>1 DEF FamilyOf
        <3>3. \A i \in FamilyOf(call[d].of) : Usable(i)'
            BY <2>4, <3>1, <3>2 DEF LoginIsFresh
        <3>4. jar'.refresh # 0 => token'[jar'.refresh].of # call'[d].of
            BY <1>0, <2>2, <3>1, JarFacts DEF LoginIsFresh
        <3>5. \A h \in Handlers : ~Free(refreshing', h) /\ refreshing'[h].token # 0
                                  => token'[refreshing'[h].token].of # call'[d].of
            BY <1>0, <2>2, <2>10, <3>1 DEF LoginIsFresh, Free
        <3>6. \A e \in Slots : LoggedIn(e)' /\ e # d => call'[e].of # call'[d].of
            BY <2>5, <3>1 DEF LoginIsFresh, LoggedIn, Free
        <3> QED BY <3>1, <3>2, <3>3, <3>4, <3>5, <3>6 DEF LoginIsFresh
    <2> QED BY <2>6, <2>7, <2>8, <2>9, <2>11, <2>12 DEF Rotates
<1> QED BY <1>1, <1>2 DEF LoginHandled

(* Rotation through every step.                                            *)
LEMMA FailuresCount ==
    ASSUME [Next]_vars
    PROVE  failures' = failures \/ failures' = failures + 1
<1>1. CASE UNCHANGED vars
    BY <1>1 DEF vars
<1>2. ASSUME NEW h \in Handlers, Server(h) \/ issueCsrf(h) \/ RefreshAnswered(h) \/ RefreshFails(h) \/ NobodyWaits(h)
      PROVE  failures' = failures \/ failures' = failures + 1
    BY <1>2 DEF Server, RefreshRead, ReuseCommits, RotationCommits, issueCsrf, RefreshAnswered, RefreshFails, NobodyWaits
<1>3. ASSUME NEW t \in Ticks, TickStarts(t) \/ TickRetries(t)
      PROVE  failures' = failures \/ failures' = failures + 1
    BY <1>3 DEF TickStarts, TickRetries
<1>4. ASSUME NEW c \in Slots,
             (\E kind \in Kinds \ {"me"} : apiFetch(c, kind)) \/ Proceeds(c) \/ CallFails(c)
      PROVE  failures' = failures \/ failures' = failures + 1
    BY <1>4 DEF apiFetch, Proceeds, CallHandled, LoginHandled, CallRefreshes, CallAnswered, CallFails
<1>5. ASSUME NEW s \in Sessions, RevokedElsewhere(s)
      PROVE  failures' = failures \/ failures' = failures + 1
    BY <1>5 DEF RevokedElsewhere
<1>6. CASE AccessExpires \/ Reload
    BY <1>6 DEF AccessExpires, Reload
<1> QED BY <1>1, <1>2, <1>3, <1>4, <1>5, <1>6 DEF Next

LEMMA RotationStep == Sound /\ Rotation /\ [Next]_vars => Rotation'
<1> SUFFICES ASSUME Sound, Rotation, [Next]_vars, failures' = 0
             PROVE  Rotates'
    BY DEF Rotation
<1>0. failures = 0 /\ Rotates
    BY FailuresCount, JarFacts DEF Rotation
<1>1. CASE UNCHANGED vars
    <2>1. \A c \in Slots : LoggedIn(c)' => LoggedIn(c) /\ call'[c] = call[c]
        BY <1>1 DEF vars, LoggedIn, Free
    <2> QED BY <1>0, <1>1, <2>1, ClientSteps DEF vars
<1>2. ASSUME NEW h \in Handlers,
             issueCsrf(h) \/ Server(h) \/ RefreshAnswered(h) \/ RefreshFails(h) \/ NobodyWaits(h)
      PROVE  Rotates'
    <2>1. ~RefreshFails(h)
        BY <1>0 DEF RefreshFails
    <2> QED BY <1>0, <1>2, <2>1, issueCsrfRotates, RefreshReadRotates, ReuseCommitsRotates,
               RotationCommitsRotates, RefreshAnsweredRotates, NobodyWaitsRotates DEF Server
<1>3. ASSUME NEW t \in Ticks, TickStarts(t) \/ TickRetries(t)
      PROVE  Rotates'
    <2>1. UNCHANGED <<session, token, jar, call>> /\ refreshAccessToken
        BY <1>3 DEF TickStarts, TickRetries, server
    <2>2. \A c \in Slots : LoggedIn(c)' => LoggedIn(c) /\ call'[c] = call[c]
        BY <2>1 DEF LoggedIn, Free
    <2> QED BY <1>0, <2>1, <2>2, ClientSteps
<1>4. ASSUME NEW c \in Slots, NEW kind \in Kinds \ {"me"}, apiFetch(c, kind)
      PROVE  Rotates'
    <2>1. \A d \in Slots : LoggedIn(d)' => LoggedIn(d) /\ call'[d] = call[d]
        BY <1>4 DEF apiFetch, Call, LoggedIn, Free, Sound, Core, TypeOK
    <2> QED BY <1>0, <1>4, <2>1, ClientSteps DEF apiFetch, server
<1>5. ASSUME NEW c \in Slots, CallRefreshes(c)
      PROVE  Rotates'
    <2>1. call'[c].state = "waits" /\ \A d \in Slots \ {c} : call'[d] = call[d]
        BY <1>5, CallMoves DEF CallRefreshes, Sound, Core, TypeOK
    <2>2. \A d \in Slots : LoggedIn(d)' => LoggedIn(d) /\ call'[d] = call[d]
        BY <2>1 DEF LoggedIn, Free
    <2> QED BY <1>0, <1>5, <2>2, ClientSteps DEF CallRefreshes, server
<1>6. ASSUME NEW c \in Slots, Proceeds(c) \/ CallFails(c)
      PROVE  Rotates'
    <2>1. ~CallFails(c)
        BY <1>0 DEF CallFails
    <2> QED BY <1>0, <1>5, <1>6, <2>1, CallHandledRotates, LoginHandledRotates, CallAnsweredRotates DEF Proceeds
<1>7. ASSUME NEW s \in Sessions, RevokedElsewhere(s)
      PROVE  Rotates'
    <2>1. LoginsStay
        BY <1>7 DEF RevokedElsewhere, LoginsStay, LoggedIn, Free
    <2> QED BY <1>0, <1>7, <2>1, RevokedRotates DEF RevokedElsewhere
<1>8. CASE AccessExpires
    <2>1. LoginsStay /\ jar'.refresh = jar.refresh
        BY <1>8 DEF AccessExpires, LoginsStay, LoggedIn, Free, Sound, Core, TypeOK
    <2> QED BY <1>0, <1>8, <2>1, JarChanges DEF AccessExpires, server
<1>9. CASE Reload
    BY <1>0, <1>9 DEF Reload
<1> QED BY <1>1, <1>2, <1>3, <1>4, <1>6, <1>7, <1>8, <1>9 DEF Next

LEMMA InitRotation == Init => Rotation
<1> SUFFICES ASSUME Init PROVE Rotates
    BY DEF Rotation
<1>1. DOMAIN token = {1} /\ token[1].of = 1 /\ token[1].status = "active" /\ jar.refresh = 1
    BY DEF Init
<1>2. OneRefresh /\ OneActive /\ JarSound
    BY <1>1 DEF Init, OneRefresh, OneActive, JarSound, Usable, Free
<1>3. \A c \in Slots : ~LoggedIn(c)
    BY DEF Init, LoggedIn, Call, Free
<1>4. \A h \in Handlers : Free(refreshing, h)
    BY DEF Init, Free
<1> QED BY <1>2, <1>3, <1>4 DEF Rotates

(* At most one token of a session is active.                               *)
LEMMA AtMostOne ==
    ASSUME OneActive, NEW s
    PROVE  Cardinality({i \in FamilyOf(s) : token[i].status = "active"}) <= 1
<1> DEFINE Active == {i \in FamilyOf(s) : token[i].status = "active"}
<1>1. \A i, j \in Active : i = j
    BY DEF OneActive, FamilyOf
<1> SUFFICES Cardinality(Active) <= 1
    OBVIOUS
<1> HIDE DEF Active
<1>2. CASE Active = {}
    <2>1. Cardinality(Active) = 0
        BY <1>2, FS_EmptySet, Zenon
    <2> QED BY <2>1
<1>3. CASE Active # {}
    <2>3. PICK i : i \in Active
        BY <1>3
    <2>1. Active = {i}
        BY <1>1, <2>3
    <2>2. Cardinality({i}) = 1
        BY FS_Singleton, Zenon
    <2> QED BY <2>1, <2>2
<1> QED BY <1>2, <1>3

-----------------------------------------------------------------------------
(* The inductive invariant holds of every behaviour.                       *)
THEOREM Invariant == Spec => [](Sound /\ Rotation)
<1>1. Init => Sound /\ Rotation
    BY InitSound, InitRotation
<1>2. Sound /\ Rotation /\ [Next]_vars => (Sound /\ Rotation)'
    BY SoundStep, RotationStep
<1> QED BY <1>1, <1>2, PTL DEF Spec

(* Cookies, calls, refreshes and ticks keep to their types, and the shared *)
(* promise of the tab always stands for a refresh that is under way.       *)
THEOREM TypeCorrect == Spec => []TypeOK
<1>1. Sound => TypeOK
    BY DEF Sound, Core
<1> QED BY <1>1, Invariant, PTL

(* Nobody waits in vain: a call or a tick that waits for a refresh has one *)
(* under way, however calls, ticks, logins, lost answers and reloads mix.  *)
THEOREM WaitersServed == Spec => []WaitersAreServed
<1>1. Sound => WaitersAreServed
    BY DEF Sound
<1> QED BY <1>1, Invariant, PTL

(* Unless a request failed, a session has one refresh token that can be    *)
(* used and no live session is taken for stolen.                           *)
THEOREM RotationSafe == Spec => []RotationIsSafe
<1>1. Sound /\ Rotation => RotationIsSafe
    <2> SUFFICES ASSUME Rotates
                 PROVE  /\ \A s \in Sessions : Cardinality({i \in FamilyOf(s) : token[i].status = "active"}) <= 1
                        /\ \A h \in Handlers : ~Free(refreshing, h) /\ refreshing[h].state = "reused"
                                               => session[token[refreshing[h].token].of] # "active"
        BY DEF Rotation, RotationIsSafe
    <2>1. \A s \in Sessions : Cardinality({i \in FamilyOf(s) : token[i].status = "active"}) <= 1
        BY AtMostOne DEF Rotates
    <2>2. \A h \in Handlers : ~Free(refreshing, h) /\ refreshing[h].state = "reused"
                              => session[token[refreshing[h].token].of] # "active"
        BY DEF Rotates, HeldSound
    <2> QED BY <2>1, <2>2
<1> QED BY <1>1, Invariant, PTL

-----------------------------------------------------------------------------
(* Who stays signed in.  A refresh that a tick may sign out over has been  *)
(* begun since the user signed in, so it holds a token of the session in   *)
(* the cookies; and the server refuses that only of a session that ended.  *)
AskedAlone ==
    \A c \in Slots : ~Free(call, c) /\ call[c].kind = "me" =>
        user = 0 /\ \A d \in Slots \ {c} : Free(call, d)

Known(s) == s \in Sessions /\ session[s] # "none"

AnswersKnown == \A c \in Slots : ~Free(call, c) /\ call[c].state = "ok" => Known(call[c].of)

JarOfOne == jar.access # 0 => jar.refresh # 0 /\ token[jar.refresh].of = jar.access

Identity == AnswersKnown /\ JarOfOne /\ (user # 0 => Known(user))

(* A refresh that the live session of the user can only win.               *)
Renews(r) ==
    r.state = "csrf" \/ /\ r.state \in {"sent", "rotates", "ok"}
                        /\ r.token # 0 /\ token[r.token].of = user

(* A tick that signs the user out, or may, when its second attempt fails.  *)
Insists(t) == ~Free(tick, t) /\ tick[t].state \in {"pause", "second"} /\ ~tick[t].aborted

SignedIn == user # 0 /\ session[user] = "active" /\ jar.access = user

Insisted == (\E t \in Ticks : Insists(t)) /\ promise # None /\ SignedIn => Renews(refreshing[promise])

Signed == failures = 0 => AskedAlone /\ Insisted

(* Tokens and sessions are never forgotten, and none revives.              *)
Kept ==
    /\ \A i \in DOMAIN token : i \in DOMAIN token' /\ token'[i].of = token[i].of
    /\ \A s \in Sessions : session[s] # "none" =>
         session'[s] # "none" /\ (session'[s] = "active" => session[s] = "active")

LEMMA KeptByServer ==
    ASSUME Sound, UNCHANGED server
    PROVE  Kept
BY DEF Kept, server

LEMMA KeptByRevocation ==
    ASSUME Sound, NEW s \in Sessions, session[s] # "none", Revoked(s)
    PROVE  Kept
<1>1. \A x \in Sessions : session'[x] = IF x = s THEN "revoked" ELSE session[x]
    BY DEF Revoked, Sound, Core, TypeOK
<1>2. \A i \in DOMAIN token : i \in DOMAIN token' /\ token'[i].of = token[i].of
    BY TokenFacts DEF Revoked, Sound, TokenRecord
<1> QED BY <1>1, <1>2 DEF Kept

LEMMA KeptByReuse ==
    ASSUME Sound, NEW h \in Handlers, ReuseCommits(h)
    PROVE  Kept
<1>1. PICK r : r = refreshing[h]
    OBVIOUS
<1>2. RefreshSound(r) /\ r.state = "reused" /\ r.token \in 0..Len(token)
    BY <1>1, RefreshFacts DEF ReuseCommits, Sound
<1>3. r.token \in DOMAIN token
    BY <1>2, TokenFacts DEF RefreshSound, Sound
<1>4. PICK s : s = token[r.token].of
    OBVIOUS
<1>5. s \in Sessions
    BY <1>3, <1>4, TokenFacts DEF Sound
<1>6. session' = [session EXCEPT ![s] = "compromised"]
    BY <1>1, <1>4 DEF ReuseCommits
<1>7. \A x \in Sessions : session'[x] = IF x = s THEN "compromised" ELSE session[x]
    BY <1>5, <1>6 DEF Sound, Core, TypeOK
<1>8. \A i \in DOMAIN token : i \in DOMAIN token' /\ token'[i].of = token[i].of
    BY TokenFacts DEF ReuseCommits, Sound, TokenRecord
<1> QED BY <1>7, <1>8 DEF Kept

LEMMA KeptByRotation ==
    ASSUME Sound, NEW h \in Handlers, RotationCommits(h)
    PROVE  /\ Kept /\ UNCHANGED session
           /\ refreshing'[h].state = "ok" /\ refreshing'[h].token # 0
           /\ token'[refreshing'[h].token].of = token[refreshing[h].token].of
<1>1. PICK r : r = refreshing[h]
    OBVIOUS
<1>2. r \in Refreshes /\ RefreshSound(r) /\ r.state = "rotates" /\ r.token \in 0..Len(token) /\ r # None
    BY <1>1, RefreshFacts DEF RotationCommits, Sound, Free
<1>3. r.token \in DOMAIN token
    BY <1>2, TokenFacts DEF RefreshSound, Sound
<1>4. PICK old : old = [token EXCEPT ![r.token].status = "rotated"]
    OBVIOUS
<1>5. PICK new : new = [of |-> token[r.token].of, status |-> "active"]
    OBVIOUS
<1>6. token' = Append(old, new) /\ refreshing' = [refreshing EXCEPT ![h].state = "ok", ![h].token = Len(token')]
    BY <1>1, <1>4, <1>5 DEF RotationCommits
<1>7. token \in Seq(TokenRecord) /\ Len(token) \in Nat /\ DOMAIN token = 1..Len(token)
    BY TokenFacts DEF Sound, Core, TokensSound
<1>8. token[r.token] \in TokenRecord
    BY <1>3, TokenFacts DEF Sound
<1>9. [token[r.token] EXCEPT !.status = "rotated"] \in TokenRecord
    BY <1>8 DEF TokenRecord
<1>10. old \in Seq(TokenRecord) /\ Len(old) = Len(token) /\ \A i \in DOMAIN token : old[i].of = token[i].of
    <2>1. \A i \in 1..Len(token) : old[i] \in TokenRecord /\ old[i].of = token[i].of
        <3>1. \A i \in 1..Len(token) : token[i] \in TokenRecord
            BY TokenFacts DEF Sound
        <3>2. [token[r.token] EXCEPT !.status = "rotated"].of = token[r.token].of
            BY <1>8 DEF TokenRecord
        <3> QED BY <1>3, <1>4, <1>7, <1>9, <3>1, <3>2
    <2> QED BY <1>3, <1>4, <1>7, <2>1
<1>11. new \in TokenRecord /\ new.of = token[r.token].of
    BY <1>5, <1>8 DEF TokenRecord
<1>12. /\ DOMAIN token' = 1..(Len(token) + 1) /\ Len(token') = Len(token) + 1
       /\ \A i \in DOMAIN token : token'[i] = old[i]
       /\ token'[Len(token) + 1] = new
    BY <1>6, <1>7, <1>10, <1>11
<1>13. \A i \in DOMAIN token : i \in DOMAIN token' /\ token'[i].of = token[i].of
    BY <1>7, <1>10, <1>12
<1>14. refreshing'[h] = [r EXCEPT !.state = "ok", !.token = Len(token) + 1]
    BY <1>1, <1>6, <1>12 DEF Sound, Core, TypeOK
<1>15. refreshing'[h].state = "ok" /\ refreshing'[h].token = Len(token) + 1
    BY <1>2, <1>14 DEF Refreshes
<1>16. UNCHANGED session
    BY DEF RotationCommits
<1> QED BY <1>1, <1>7, <1>11, <1>12, <1>13, <1>15, <1>16 DEF Kept

LEMMA KeptByLogin ==
    ASSUME Sound, NEW c \in Slots, LoginHandled(c)
    PROVE  Kept
<1>1. CASE UNCHANGED server
    BY <1>1, KeptByServer
<1>2. ASSUME NEW s \in Sessions, session[s] = "none", session' = [session EXCEPT ![s] = "active"],
             token' = Append(token, [of |-> s, status |-> "active"])
      PROVE  Kept
    <2>1. PICK new : new = [of |-> s, status |-> "active"]
        OBVIOUS
    <2>2. new \in TokenRecord /\ token' = Append(token, new) /\ token \in Seq(TokenRecord)
        BY <1>2, <2>1 DEF TokenRecord, Sound, Core, TokensSound
    <2>3. \A i \in DOMAIN token : i \in DOMAIN token' /\ token'[i] = token[i]
        BY <2>2
    <2>4. \A x \in Sessions \ {s} : session'[x] = session[x]
        BY <1>2 DEF Sound, Core, TypeOK
    <2> QED BY <1>2, <2>3, <2>4 DEF Kept
<1> QED BY <1>1, <1>2 DEF LoginHandled

LEMMA KeptByCall ==
    ASSUME Sound, NEW c \in Slots, CallHandled(c)
    PROVE  Kept
<1>1. CASE UNCHANGED server
    BY <1>1, KeptByServer
<1>2. CASE Authenticated(call[c].of) /\ Revoked(call[c].of)
    <2>1. call[c].of \in Sessions /\ session[call[c].of] # "none"
        BY <1>2, CallIsTyped DEF Authenticated, CallHandled, Sessions
    <2> QED BY <1>2, <2>1, KeptByRevocation
<1> QED BY <1>1, <1>2 DEF CallHandled

LEMMA AlwaysKept ==
    ASSUME Sound, [Next]_vars
    PROVE  Kept
<1>1. CASE UNCHANGED vars
    BY <1>1, KeptByServer DEF vars, server
<1>2. ASSUME NEW h \in Handlers,
             issueCsrf(h) \/ RefreshRead(h) \/ RefreshAnswered(h) \/ RefreshFails(h) \/ NobodyWaits(h)
      PROVE  Kept
    BY <1>2, KeptByServer DEF issueCsrf, RefreshRead, RefreshAnswered, RefreshFails, NobodyWaits
<1>3. ASSUME NEW t \in Ticks, TickStarts(t) \/ TickRetries(t)
      PROVE  Kept
    BY <1>3, KeptByServer DEF TickStarts, TickRetries
<1>4. ASSUME NEW c \in Slots,
             (\E kind \in Kinds \ {"me"} : apiFetch(c, kind)) \/ CallRefreshes(c) \/ CallAnswered(c) \/ CallFails(c)
      PROVE  Kept
    BY <1>4, KeptByServer DEF apiFetch, CallRefreshes, CallAnswered, CallFails
<1>5. ASSUME NEW s \in Sessions, RevokedElsewhere(s)
      PROVE  Kept
    BY <1>5, KeptByRevocation DEF RevokedElsewhere
<1>6. CASE AccessExpires \/ Reload
    BY <1>6, KeptByServer DEF AccessExpires, Reload
<1> QED BY <1>1, <1>2, <1>3, <1>4, <1>5, <1>6, KeptByReuse, KeptByRotation, KeptByLogin, KeptByCall
        DEF Next, Server, Proceeds

(* What a call that ends does to who is signed in.                         *)
LEMMA EndsUser ==
    ASSUME Sound, NEW c \in Slots, ~Free(call, c), NEW ok \in BOOLEAN, Ends(c, ok)
    PROVE  /\ call' = [call EXCEPT ![c] = None]
           /\ sameUser \/ setUser(0) \/ (ok /\ setUser(call[c].of))
           /\ call[c].kind = "api" => sameUser
           /\ call[c].kind = "switch" => sameUser \/ (ok /\ setUser(call[c].of))
           /\ ok /\ call[c].kind = "login" => setUser(call[c].of)
           /\ call[c].kind = "logout" => user' = 0
<1>1. call[c].kind \in Kinds
    BY CallIsTyped
<1>2. CASE call[c].kind = "api"
    BY <1>2 DEF Ends
<1>3. CASE call[c].kind = "switch"
    BY <1>3 DEF Ends
<1>4. CASE call[c].kind = "logout"
    BY <1>4 DEF Ends, clearLocalSession, sameUser, setUser
<1>5. CASE call[c].kind \in {"me", "login"}
    BY <1>5 DEF Ends, clearLocalSession
<1> QED BY <1>1, <1>2, <1>3, <1>4, <1>5 DEF Kinds

(* The user changes by a call that ends, a refused refresh or a reload.    *)
LEMMA UserMoves ==
    ASSUME Sound, [Next]_vars
    PROVE  \/ user' \in {user, 0}
           \/ \E c \in Slots : ~Free(call, c) /\ call[c].state = "ok" /\ user' = call[c].of
<1>1. CASE UNCHANGED vars
    BY <1>1 DEF vars
<1>2. ASSUME NEW h \in Handlers, issueCsrf(h) \/ Server(h) \/ NobodyWaits(h)
      PROVE  user' = user
    BY <1>2 DEF Server, RefreshRead, ReuseCommits, RotationCommits, issueCsrf, NobodyWaits
<1>3. ASSUME NEW h \in Handlers, RefreshAnswered(h) \/ RefreshFails(h)
      PROVE  user' \in {user, 0}
    BY <1>3 DEF RefreshAnswered, RefreshFails, Resume
<1>4. ASSUME NEW t \in Ticks, TickStarts(t) \/ TickRetries(t)
      PROVE  user' = user
    BY <1>4 DEF TickStarts, TickRetries
<1>5. ASSUME NEW c \in Slots,
             (\E kind \in Kinds \ {"me"} : apiFetch(c, kind)) \/ CallHandled(c) \/ LoginHandled(c) \/ CallRefreshes(c)
      PROVE  user' = user
    BY <1>5 DEF apiFetch, CallHandled, LoginHandled, CallRefreshes
<1>6. ASSUME NEW c \in Slots, CallAnswered(c)
      PROVE  user' \in {user, 0} \/ (~Free(call, c) /\ call[c].state = "ok" /\ user' = call[c].of)
    <2>1. ~Free(call, c)
        BY <1>6 DEF CallAnswered
    <2>2. CASE call[c].state = "ok" /\ Ends(c, TRUE)
        BY <2>1, <2>2, EndsUser DEF sameUser, setUser
    <2>3. CASE Ends(c, FALSE)
        BY <2>1, <2>3, EndsUser DEF sameUser, setUser
    <2> QED BY <1>6, <2>2, <2>3 DEF CallAnswered
<1>7. ASSUME NEW c \in Slots, CallFails(c)
      PROVE  user' \in {user, 0}
    <2>1. ~Free(call, c) /\ Ends(c, FALSE)
        BY <1>7 DEF CallFails
    <2> QED BY <2>1, EndsUser DEF sameUser, setUser
<1>8. ASSUME NEW s \in Sessions, RevokedElsewhere(s)
      PROVE  user' = user
    BY <1>8 DEF RevokedElsewhere
<1>9. CASE AccessExpires \/ Reload
    BY <1>9 DEF AccessExpires, Reload
<1> QED BY <1>1, <1>2, <1>3, <1>4, <1>5, <1>6, <1>7, <1>8, <1>9 DEF Next, Proceeds

LEMMA UserKnownStep ==
    ASSUME Sound, Identity, [Next]_vars, user' # 0
    PROVE  Known(user)'
<1>1. Kept
    BY AlwaysKept
<1>2. CASE user' \in {user, 0}
    BY <1>1, <1>2 DEF Identity, Known, Kept
<1>3. ASSUME NEW c \in Slots, ~Free(call, c), call[c].state = "ok", user' = call[c].of
      PROVE  Known(user)'
    BY <1>1, <1>3 DEF Identity, AnswersKnown, Known, Kept
<1> QED BY <1>2, <1>3, UserMoves

(* A call that the server has answered well names a session.               *)
LEMMA AnswersStay ==
    ASSUME Sound, AnswersKnown, Kept,
           \A d \in Slots : ~Free(call', d) /\ call'[d].state = "ok" => ~Free(call, d) /\ call'[d] = call[d]
    PROVE  AnswersKnown'
BY DEF AnswersKnown, Known, Kept

LEMMA OneAnswered ==
    ASSUME Sound, AnswersKnown, Kept, NEW c \in Slots, \A d \in Slots \ {c} : call'[d] = call[d],
           ~Free(call', c) /\ call'[c].state = "ok" => Known(call[c].of)'
    PROVE  AnswersKnown'
BY DEF AnswersKnown, Known, Kept, Free

LEMMA CallHandledKnown ==
    ASSUME Sound, AnswersKnown, NEW c \in Slots, CallHandled(c)
    PROVE  AnswersKnown'
<1>0. Kept
    BY KeptByCall
<1>1. ~Free(call, c) /\ call \in [Slots -> Calls \cup {None}]
    BY DEF CallHandled, Sound, Core, TypeOK
<1>2. CASE ~Authenticated(call[c].of)
    <2>1. call'[c].state = "refused" /\ \A d \in Slots \ {c} : call'[d] = call[d]
        BY <1>1, <1>2, CallMoves DEF CallHandled
    <2> QED BY <1>0, <2>1, OneAnswered
<1>3. CASE Authenticated(call[c].of)
    <2>1. call'[c].of = call[c].of /\ \A d \in Slots \ {c} : call'[d] = call[d]
        BY <1>1, <1>3, CallMoves DEF CallHandled
    <2>2. call[c].of \in Sessions /\ session[call[c].of] # "none"
        BY <1>1, <1>3, CallIsTyped DEF Authenticated, Sessions
    <2>3. Known(call[c].of)'
        <3>1. call'[c].of \in Sessions /\ session'[call'[c].of] # "none"
            BY <1>0, <2>1, <2>2 DEF Kept
        <3> QED BY <3>1 DEF Known
    <2> QED BY <1>0, <2>1, <2>3, OneAnswered DEF Known
<1> QED BY <1>2, <1>3

LEMMA LoginHandledKnown ==
    ASSUME Sound, AnswersKnown, NEW c \in Slots, LoginHandled(c)
    PROVE  AnswersKnown'
<1>0. Kept
    BY KeptByLogin
<1>1. ~Free(call, c) /\ call \in [Slots -> Calls \cup {None}] /\ call[c] \in Calls
    BY CallIsTyped DEF LoginHandled, Sound, Core, TypeOK
<1>2. CASE Answer(c, "refused")
    <2>1. call'[c].state = "refused" /\ \A d \in Slots \ {c} : call'[d] = call[d]
        BY <1>1, <1>2, CallMoves
    <2> QED BY <1>0, <2>1, OneAnswered
<1>3. ASSUME NEW s \in Sessions, session' = [session EXCEPT ![s] = "active"],
             call' = [call EXCEPT ![c].state = "ok", ![c].of = s]
      PROVE  AnswersKnown'
    <2>1. call'[c] = [call[c] EXCEPT !.state = "ok", !.of = s] /\ \A d \in Slots \ {c} : call'[d] = call[d]
        BY <1>1, <1>3
    <2>2. call'[c].of = s
        BY <1>1, <2>1 DEF Calls
    <2>3. session'[s] = "active"
        BY <1>3 DEF Sound, Core, TypeOK
    <2>4. Known(call[c].of)'
        BY <2>2, <2>3 DEF Known
    <2> QED BY <1>0, <2>1, <2>4, OneAnswered
<1> QED BY <1>2, <1>3 DEF LoginHandled

LEMMA AnswersKnownStep ==
    ASSUME Sound, AnswersKnown, [Next]_vars
    PROVE  AnswersKnown'
<1>0. Kept /\ call \in [Slots -> Calls \cup {None}]
    BY AlwaysKept DEF Sound, Core, TypeOK
<1>1. CASE UNCHANGED call
    BY <1>0, <1>1, AnswersStay
<1>2. ASSUME NEW h \in Handlers, RefreshAnswered(h) \/ RefreshFails(h)
      PROVE  AnswersKnown'
    <2>1. PICK ok \in BOOLEAN : \E cookies : call' = Resumed(ok, cookies)
        <3>1. CASE \E cookies : Resume(TRUE, cookies)
            BY <3>1 DEF Resume
        <3>2. CASE \E cookies : Resume(FALSE, cookies)
            BY <3>2 DEF Resume
        <3> QED BY <1>2, <3>1, <3>2 DEF RefreshAnswered, RefreshFails
    <2>2. ASSUME NEW d \in Slots, ~Free(call', d), call'[d].state = "ok"
          PROVE  ~Free(call, d) /\ call'[d] = call[d]
        <3>1. call[d] = None \/ call[d] \in Calls
            BY <1>0
        <3>2. PICK cookies : call' = Resumed(ok, cookies)
            BY <2>1
        <3> QED BY <2>2, <3>1, <3>2 DEF Resumed, Free, Calls
    <2> QED BY <1>0, <2>2, AnswersStay
<1>3. ASSUME NEW c \in Slots, NEW kind \in Kinds \ {"me"}, apiFetch(c, kind)
      PROVE  AnswersKnown'
    <2>1. call'[c].state = "sent" /\ \A d \in Slots \ {c} : call'[d] = call[d]
        BY <1>0, <1>3 DEF apiFetch, Call
    <2> QED BY <1>0, <2>1, OneAnswered
<1>4. ASSUME NEW c \in Slots, CallRefreshes(c)
      PROVE  AnswersKnown'
    <2>1. call'[c].state = "waits" /\ \A d \in Slots \ {c} : call'[d] = call[d]
        BY <1>0, <1>4, CallMoves DEF CallRefreshes
    <2> QED BY <1>0, <2>1, OneAnswered
<1>5. ASSUME NEW c \in Slots, CallAnswered(c) \/ CallFails(c)
      PROVE  AnswersKnown'
    <2>1. call' = [call EXCEPT ![c] = None]
        BY <1>5 DEF CallAnswered, CallFails, Ends
    <2>2. Free(call', c) /\ \A d \in Slots \ {c} : call'[d] = call[d]
        BY <1>0, <2>1 DEF Free
    <2> QED BY <1>0, <2>2, OneAnswered
<1>6. CASE Reload
    <2>1. \A d \in Slots : call'[d] = None \/ call'[d].state = "sent"
        BY <1>6 DEF Reload, Call
    <2> QED BY <1>0, <2>1, AnswersStay DEF Free
<1>7. CASE UNCHANGED vars
    BY <1>1, <1>7 DEF vars
<1>8. ASSUME NEW h \in Handlers, issueCsrf(h) \/ Server(h) \/ NobodyWaits(h)
      PROVE  UNCHANGED call
    BY <1>8 DEF Server, RefreshRead, ReuseCommits, RotationCommits, issueCsrf, NobodyWaits
<1>9. ASSUME NEW t \in Ticks, TickStarts(t) \/ TickRetries(t)
      PROVE  UNCHANGED call
    BY <1>9 DEF TickStarts, TickRetries
<1>10. ASSUME NEW s \in Sessions, RevokedElsewhere(s)
      PROVE  UNCHANGED call
    BY <1>10 DEF RevokedElsewhere
<1>11. CASE AccessExpires
    BY <1>1, <1>11 DEF AccessExpires
<1> QED BY <1>1, <1>2, <1>3, <1>4, <1>5, <1>6, <1>7, <1>8, <1>9, <1>10, <1>11,
           CallHandledKnown, LoginHandledKnown DEF Next, Proceeds

(* The two cookies are of one session.                                     *)
LEMMA JarStays ==
    ASSUME Sound, JarOfOne, Kept, jar'.access = jar.access, jar'.refresh = jar.refresh
    PROVE  JarOfOne'
BY JarFacts DEF JarOfOne, Kept

(* What an answer to a call does to the cookies.                           *)
LEMMA CookiesOf ==
    ASSUME Sound, NEW c \in Slots, CallAnswered(c)
    PROVE  \/ jar' = jar
           \/ call[c].kind = "logout" /\ jar' = NoCookies
           \/ call[c].kind = "login" /\ setUser(call[c].of) /\ JarOfOne'
<1>1. ~Free(call, c) /\ UNCHANGED <<session, token>>
    BY DEF CallAnswered, server
<1>2. CASE LoggedIn(c)
    <2>1. PICK s : s = call[c].of
        OBVIOUS
    <2>2. s \in Sessions /\ session[s] # "none"
        BY <1>2, <2>1 DEF Sound, Core, LoginsSound
    <2>3. \E i \in DOMAIN token : token[i].of = s /\ \A j \in FamilyOf(s) : i <= j
        BY <2>2 DEF Sound, Core, TokensSound, FamilyOf
    <2>4. PICK i : i = CHOOSE k \in DOMAIN token : token[k].of = s /\ \A j \in FamilyOf(s) : k <= j
        OBVIOUS
    <2>5. i \in DOMAIN token /\ token[i].of = s
        BY <2>3, <2>4
    <2>6. jar' = [access |-> s, live |-> TRUE, refresh |-> i]
        BY <1>2, <2>1, <2>4 DEF CallAnswered, LoggedIn
    <2>7. jar'.access = s /\ jar'.refresh = i /\ i # 0
        BY <2>5, <2>6, TokenFacts DEF Sound
    <2>8. JarOfOne'
        BY <1>1, <2>5, <2>7 DEF JarOfOne
    <2>9. setUser(call[c].of)
        BY <1>1, <1>2, EndsUser DEF CallAnswered, LoggedIn
    <2> QED BY <1>2, <2>8, <2>9 DEF LoggedIn
<1>3. CASE ~LoggedIn(c)
    BY <1>1, <1>3 DEF CallAnswered, LoggedIn
<1> QED BY <1>2, <1>3

LEMMA JarOfOneStep ==
    ASSUME Sound, JarOfOne, [Next]_vars
    PROVE  JarOfOne'
<1>0. Kept
    BY AlwaysKept
<1>1. CASE UNCHANGED jar
    BY <1>0, <1>1, JarStays
<1>2. ASSUME NEW h \in Handlers, RefreshAnswered(h)
      PROVE  JarOfOne'
    <2>1. PICK i : i = refreshing[h].token
        OBVIOUS
    <2>2. ~Free(refreshing, h)
        BY <1>2, JarFacts DEF RefreshAnswered
    <2>3. CASE refreshing[h].state = "ok"
        <3>1. jar' = [access |-> token[i].of, live |-> TRUE, refresh |-> i] /\ UNCHANGED token
            BY <1>2, <2>1, <2>3 DEF RefreshAnswered, Resume, server
        <3>2. i # 0
            BY <2>1, <2>2, <2>3, RefreshFacts DEF RefreshSound, Sound
        <3>3. jar'.access = token[i].of /\ jar'.refresh = i
            BY <3>1
        <3> QED BY <3>1, <3>2, <3>3 DEF JarOfOne
    <2>4. CASE refreshing[h].state # "ok"
        BY <1>1, <1>2, <2>4 DEF RefreshAnswered, Resume
    <2> QED BY <2>3, <2>4
<1>3. ASSUME NEW h \in Handlers, RefreshFails(h)
      PROVE  UNCHANGED jar
    BY <1>3 DEF RefreshFails, Resume
<1>4. ASSUME NEW c \in Slots, CallAnswered(c)
      PROVE  JarOfOne'
    <2>1. CASE jar' = jar
        BY <1>1, <2>1, Zenon
    <2>2. CASE jar' = NoCookies
        <3>1. jar'.access = 0
            BY <2>2 DEF NoCookies
        <3> QED BY <3>1 DEF JarOfOne
    <2> QED BY <1>4, <2>1, <2>2, CookiesOf
<1>5. CASE AccessExpires
    <2>1. jar'.access = jar.access /\ jar'.refresh = jar.refresh
        BY <1>5 DEF AccessExpires, Sound, Core, TypeOK
    <2> QED BY <1>0, <2>1, JarStays
<1>6. CASE UNCHANGED vars
    BY <1>1, <1>6 DEF vars
<1>7. ASSUME NEW h \in Handlers, issueCsrf(h) \/ Server(h) \/ NobodyWaits(h)
      PROVE  UNCHANGED jar
    BY <1>7 DEF Server, RefreshRead, ReuseCommits, RotationCommits, issueCsrf, NobodyWaits
<1>8. ASSUME NEW t \in Ticks, TickStarts(t) \/ TickRetries(t)
      PROVE  UNCHANGED jar
    BY <1>8 DEF TickStarts, TickRetries
<1>9. ASSUME NEW c \in Slots,
             \/ \E kind \in Kinds \ {"me"} : apiFetch(c, kind)
             \/ CallHandled(c) \/ LoginHandled(c) \/ CallRefreshes(c) \/ CallFails(c)
      PROVE  UNCHANGED jar
    BY <1>9 DEF apiFetch, CallHandled, LoginHandled, CallRefreshes, CallFails
<1>10. ASSUME NEW s \in Sessions, RevokedElsewhere(s)
      PROVE  UNCHANGED jar
    BY <1>10 DEF RevokedElsewhere
<1>11. CASE Reload
    BY <1>1, <1>11 DEF Reload
<1> QED BY <1>1, <1>2, <1>3, <1>4, <1>5, <1>6, <1>7, <1>8, <1>9, <1>10, <1>11 DEF Next, Proceeds

LEMMA IdentityStep ==
    ASSUME Sound, Identity, [Next]_vars
    PROVE  Identity'
BY AnswersKnownStep, JarOfOneStep, UserKnownStep DEF Identity

-----------------------------------------------------------------------------
(* Without failures a tab asks who it is before it does anything else.     *)
LEMMA AskedAloneStays ==
    ASSUME Sound, AskedAlone, user # 0 => user' # 0 \/ \A c \in Slots : ~Free(call, c) => call[c].kind # "me",
           user = 0 => user' = 0,
           \A c \in Slots : ~Free(call', c) => ~Free(call, c) /\ call'[c].kind = call[c].kind
    PROVE  AskedAlone'
BY DEF AskedAlone, Free

LEMMA OneCallMoves ==
    ASSUME Sound, NEW c \in Slots, ~Free(call, c), \A d \in Slots \ {c} : call'[d] = call[d],
           Free(call', c) \/ call'[c].kind = call[c].kind
    PROVE  \A d \in Slots : ~Free(call', d) => ~Free(call, d) /\ call'[d].kind = call[d].kind
BY DEF Free

LEMMA AskedAloneStep ==
    ASSUME Sound, AskedAlone, [Next]_vars, UNCHANGED failures
    PROVE  AskedAlone'
<1>0. call \in [Slots -> Calls \cup {None}] /\ failures \in Nat
    BY DEF Sound, Core, TypeOK
<1>1. CASE UNCHANGED <<call, user>>
    BY <1>1 DEF AskedAlone, Free
<1>2. ASSUME NEW h \in Handlers, RefreshAnswered(h)
      PROVE  AskedAlone'
    <2>1. PICK ok \in BOOLEAN : \E cookies : Resume(ok, cookies)
        BY <1>2 DEF RefreshAnswered
    <2>2. user' \in {user, 0} /\ \E cookies : call' = Resumed(ok, cookies)
        BY <2>1 DEF Resume
    <2>3. ASSUME NEW c \in Slots, ~Free(call', c)
          PROVE  ~Free(call, c) /\ call'[c].kind = call[c].kind
        <3>1. call[c] = None \/ call[c] \in Calls
            BY <1>0
        <3>2. PICK cookies : call' = Resumed(ok, cookies)
            BY <2>2
        <3> QED BY <2>3, <3>1, <3>2 DEF Resumed, Free, Calls
    <2> QED BY <2>2, <2>3 DEF AskedAlone, Free
<1>3. ASSUME NEW c \in Slots, NEW kind \in Kinds \ {"me"}, apiFetch(c, kind)
      PROVE  AskedAlone'
    <2>1. call'[c].kind = kind /\ (\A d \in Slots \ {c} : call'[d] = call[d]) /\ user' = user /\ Free(call, c)
        BY <1>0, <1>3 DEF apiFetch, Call
    <2>2. ~Asked({"me"})
        BY <1>3 DEF apiFetch, Asked, AskedAlone
    <2> QED BY <2>1, <2>2 DEF AskedAlone, Asked, Free
<1>4. ASSUME NEW c \in Slots, CallHandled(c) \/ CallRefreshes(c)
      PROVE  AskedAlone'
    <2>1. PICK state \in {"sent", "ok", "refused", "waits"} : Answer(c, state)
        BY <1>4 DEF CallHandled, CallRefreshes
    <2>2. ~Free(call, c) /\ user' = user
        BY <1>4 DEF CallHandled, CallRefreshes
    <2>3. call'[c].kind = call[c].kind /\ \A d \in Slots \ {c} : call'[d] = call[d]
        BY <1>0, <2>1, <2>2, CallMoves
    <2> QED BY <2>2, <2>3, OneCallMoves, AskedAloneStays
<1>5. ASSUME NEW c \in Slots, LoginHandled(c)
      PROVE  AskedAlone'
    <2>1. ~Free(call, c) /\ user' = user /\ call[c] \in Calls
        BY <1>5, CallIsTyped DEF LoginHandled
    <2>2. call'[c].kind = call[c].kind /\ \A d \in Slots \ {c} : call'[d] = call[d]
        <3>1. CASE Answer(c, "refused")
            BY <1>0, <2>1, <3>1, CallMoves
        <3>2. ASSUME NEW s, call' = [call EXCEPT ![c].state = "ok", ![c].of = s]
              PROVE  call'[c].kind = call[c].kind /\ \A d \in Slots \ {c} : call'[d] = call[d]
            BY <1>0, <2>1, <3>2 DEF Calls
        <3> QED BY <1>5, <3>1, <3>2 DEF LoginHandled
    <2> QED BY <2>1, <2>2, OneCallMoves, AskedAloneStays
<1>6. ASSUME NEW c \in Slots, CallAnswered(c)
      PROVE  AskedAlone'
    <2>1. ~Free(call, c) /\ call' = [call EXCEPT ![c] = None]
        BY <1>6 DEF CallAnswered, Ends
    <2>2. Free(call', c) /\ \A d \in Slots \ {c} : call'[d] = call[d]
        BY <1>0, <2>1 DEF Free
    <2> QED BY <2>1, <2>2 DEF AskedAlone, Free
<1>7. ASSUME NEW h \in Handlers, issueCsrf(h) \/ Server(h) \/ NobodyWaits(h)
      PROVE  UNCHANGED <<call, user>>
    BY <1>7 DEF Server, RefreshRead, ReuseCommits, RotationCommits, issueCsrf, NobodyWaits
<1>8. ASSUME NEW t \in Ticks, TickStarts(t) \/ TickRetries(t)
      PROVE  UNCHANGED <<call, user>>
    BY <1>8 DEF TickStarts, TickRetries
<1>9. ASSUME NEW s \in Sessions, RevokedElsewhere(s)
      PROVE  UNCHANGED <<call, user>>
    BY <1>9 DEF RevokedElsewhere
<1>10. CASE AccessExpires \/ UNCHANGED vars
    BY <1>1, <1>10 DEF AccessExpires, vars
<1>11. /\ \A h \in Handlers : ~RefreshFails(h)
       /\ \A c \in Slots : ~CallFails(c)
       /\ ~Reload
    <2>1. failures' # failures + 1
        BY <1>0
    <2>2. \A h \in Handlers : ~RefreshFails(h)
        BY <2>1 DEF RefreshFails
    <2>3. \A c \in Slots : ~CallFails(c)
        BY <2>1 DEF CallFails
    <2>4. ~Reload
        BY <2>1 DEF Reload
    <2> QED BY <2>2, <2>3, <2>4
<1> QED BY <1>1, <1>2, <1>3, <1>4, <1>5, <1>6, <1>7, <1>8, <1>9, <1>10, <1>11 DEF Next, Proceeds

-----------------------------------------------------------------------------
(* The refresh a tick waits for is of the user that is signed in.          *)
LEMMA SignedInBefore ==
    ASSUME Sound, Identity, Kept, SignedIn', user' = user, jar'.access = jar.access
    PROVE  SignedIn /\ user \in Sessions
BY DEF SignedIn, Identity, Known, Kept

LEMMA RenewsStill ==
    ASSUME Sound, Kept, NEW h \in Handlers, ~Free(refreshing, h), Renews(refreshing[h]), user' = user,
           refreshing'[h] = refreshing[h]
    PROVE  Renews(refreshing[h])'
<1>1. refreshing[h].token \in 0..Len(token)
    BY RefreshFacts DEF Sound
<1>2. refreshing[h].token # 0 => refreshing[h].token \in DOMAIN token
    BY <1>1, TokenFacts DEF Sound
<1> QED BY <1>2 DEF Renews, Kept

LEMMA InsistedStays ==
    ASSUME Sound, Identity, Kept, Insisted, UNCHANGED <<user, promise>>, jar'.access = jar.access,
           promise # None => refreshing'[promise] = refreshing[promise],
           (\E t \in Ticks : Insists(t)') => \E t \in Ticks : Insists(t)
    PROVE  Insisted'
<1> SUFFICES ASSUME \E t \in Ticks : Insists(t)', promise # None, SignedIn'
             PROVE  Renews(refreshing[promise])'
    BY DEF Insisted
<1>1. SignedIn
    BY SignedInBefore
<1>2. Renews(refreshing[promise]) /\ promise \in Handlers /\ ~Free(refreshing, promise)
    BY <1>1, JarFacts DEF Insisted
<1>3. PICK h \in Handlers : h = promise
    BY <1>2
<1>4. Renews(refreshing[h])'
    BY <1>2, <1>3, RenewsStill
<1>5. refreshing'[promise'] = refreshing'[h]
    BY <1>3
<1> QED BY <1>4, <1>5 DEF Renews

LEMMA RefreshIsBegun ==
    ASSUME Sound, Identity, Kept, Insisted, UNCHANGED <<user, jar>>, refreshAccessToken,
           promise # None => ((\E t \in Ticks : Insists(t)') => \E t \in Ticks : Insists(t))
    PROVE  Insisted'
<1>1. CASE promise # None /\ UNCHANGED <<promise, refreshing>>
    BY <1>1, InsistedStays
<1>2. ASSUME NEW h \in Handlers, promise' = h, refreshing' = [refreshing EXCEPT ![h] = Begun]
      PROVE  Insisted'
    <2>1. refreshing'[promise'] = Begun
        BY <1>2 DEF Sound, Core, TypeOK
    <2>2. refreshing'[promise'].state = "csrf"
        BY <2>1 DEF Begun
    <2> QED BY <2>2 DEF Insisted, Renews
<1> QED BY <1>1, <1>2 DEF refreshAccessToken, Begun

LEMMA issueCsrfInsisted ==
    ASSUME Sound, Identity, NEW h \in Handlers, issueCsrf(h)
    PROVE  Insisted'
<1> SUFFICES ASSUME SignedIn'
             PROVE  Renews(refreshing[promise])'
    BY DEF Insisted
<1>1. promise' = h /\ UNCHANGED <<session, token, jar, user>> /\ ~Free(refreshing, h)
    BY JarFacts DEF issueCsrf, server
<1>2. jar.access = user /\ user # 0
    BY <1>1 DEF SignedIn
<1>3. jar.refresh # 0 /\ token[jar.refresh].of = user
    BY <1>2 DEF Identity, JarOfOne
<1>4. refreshing[h] \in Refreshes
    BY <1>1, RefreshFacts DEF Sound
<1>5. refreshing'[h] = [refreshing[h] EXCEPT !.state = "sent", !.token = jar.refresh]
    BY DEF issueCsrf, Sound, Core, TypeOK
<1>6. refreshing'[h].state = "sent" /\ refreshing'[h].token = jar.refresh
    BY <1>4, <1>5 DEF Refreshes
<1> QED BY <1>1, <1>3, <1>6 DEF Renews

(* A token of the live session of the user is usable, so it is rotated.    *)
LEMMA RefreshReadInsisted ==
    ASSUME Sound, Identity, Rotates, Insisted, NEW h \in Handlers, RefreshRead(h)
    PROVE  Insisted'
<1> SUFFICES ASSUME \E t \in Ticks : Insists(t)', promise' # None, SignedIn'
             PROVE  Renews(refreshing[promise])'
    BY DEF Insisted
<1>1. /\ ~Free(refreshing, h) /\ refreshing[h].state = "sent"
      /\ UNCHANGED <<session, token, jar, user, promise, tick>>
    BY DEF RefreshRead, server
<1>2. h = promise /\ HeldSound(refreshing[h])
    BY <1>1 DEF Rotates, OneRefresh
<1>3. SignedIn /\ promise # None /\ \E t \in Ticks : Insists(t)
    BY <1>1 DEF SignedIn, Insists, Free
<1>4. PICK i : i = refreshing[h].token
    OBVIOUS
<1>5. i # 0 /\ token[i].of = user
    BY <1>1, <1>2, <1>3, <1>4 DEF Insisted, Renews
<1>6. Usable(i) /\ session[user] = "active"
    BY <1>1, <1>2, <1>3, <1>4, <1>5 DEF HeldSound, SignedIn
<1>7. token[i].status = "active"
    BY <1>5, <1>6 DEF Usable
<1>8. refreshing' = [refreshing EXCEPT ![h].state = "rotates"]
    BY <1>4, <1>5, <1>6, <1>7 DEF RefreshRead
<1>9. refreshing'[h] = [refreshing[h] EXCEPT !.state = "rotates"]
    BY <1>8 DEF Sound, Core, TypeOK
<1>10. refreshing'[h].state = "rotates" /\ refreshing'[h].token = i
    BY <1>1, <1>4, <1>9, RefreshFacts DEF Sound
<1> QED BY <1>1, <1>2, <1>5, <1>10 DEF Renews

LEMMA ReuseCommitsInsisted ==
    ASSUME Sound, Identity, Rotates, Insisted, NEW h \in Handlers, ReuseCommits(h)
    PROVE  Insisted'
<1> SUFFICES ASSUME \E t \in Ticks : Insists(t)', promise' # None, SignedIn'
             PROVE  FALSE
    BY DEF Insisted
<1>1. ~Free(refreshing, h) /\ refreshing[h].state = "reused" /\ UNCHANGED <<jar, user, promise, tick>>
    BY DEF ReuseCommits
<1>2. h = promise
    BY <1>1 DEF Rotates, OneRefresh
<1>3. SignedIn
    BY <1>1, KeptByReuse, SignedInBefore
<1>4. \E t \in Ticks : Insists(t)
    BY <1>1 DEF Insists, Free
<1> QED BY <1>1, <1>2, <1>3, <1>4 DEF Insisted, Renews

LEMMA RotationCommitsInsisted ==
    ASSUME Sound, Identity, Rotates, Insisted, NEW h \in Handlers, RotationCommits(h)
    PROVE  Insisted'
<1> SUFFICES ASSUME \E t \in Ticks : Insists(t)', promise' # None, SignedIn'
             PROVE  Renews(refreshing[promise])'
    BY DEF Insisted
<1>1. ~Free(refreshing, h) /\ refreshing[h].state = "rotates" /\ UNCHANGED <<jar, user, promise, tick>>
    BY DEF RotationCommits
<1>2. h = promise
    BY <1>1 DEF Rotates, OneRefresh
<1>3. SignedIn
    BY <1>1, KeptByRotation, SignedInBefore
<1>4. \E t \in Ticks : Insists(t)
    BY <1>1 DEF Insists, Free
<1>5. token[refreshing[h].token].of = user
    BY <1>1, <1>2, <1>3, <1>4 DEF Insisted, Renews
<1> QED BY <1>1, <1>2, <1>5, KeptByRotation DEF Renews

LEMMA TickStartsInsisted ==
    ASSUME Sound, NEW t \in Ticks, TickStarts(t)
    PROVE  Insisted'
<1>1. ASSUME NEW u \in Ticks
      PROVE  ~Insists(u)'
    <2>1. CASE u = t
        <3>1. tick'[u] = [of |-> user, state |-> "first", aborted |-> FALSE]
            BY <2>1 DEF TickStarts
        <3>2. tick'[u].state = "first"
            BY <3>1
        <3> QED BY <3>2 DEF Insists
    <2>2. CASE u # t
        <3>1. tick'[u] = Abort(tick)[u]
            BY <2>2 DEF TickStarts
        <3>2. Abort(tick)[u] # None => Abort(tick)[u].aborted
            BY AbortTyped DEF Sound, Core, TypeOK
        <3> QED BY <3>1, <3>2 DEF Insists, Free
    <2> QED BY <2>1, <2>2
<1> QED BY <1>1 DEF Insisted

LEMMA TickRetriesInsisted ==
    ASSUME Sound, Identity, Insisted, NEW t \in Ticks, TickRetries(t)
    PROVE  Insisted'
<1>1. /\ UNCHANGED <<user, jar>> /\ refreshAccessToken /\ Kept
      /\ ~Free(tick, t) /\ tick[t].state = "pause" /\ tick[t] \in TickType
    BY KeptByServer DEF TickRetries, Sound, Core, TypeOK, Free
<1>2. \A u \in Ticks : Insists(u)' => Insists(u)
    <2>1. \A u \in Ticks \ {t} : tick'[u] = tick[u]
        BY DEF TickRetries, Sound, Core, TypeOK
    <2>2. tick'[t] = [tick[t] EXCEPT !.state = "second"]
        BY DEF TickRetries, Sound, Core, TypeOK
    <2>3. tick'[t].aborted = tick[t].aborted
        BY <1>1, <2>2 DEF TickType
    <2> QED BY <1>1, <2>1, <2>3 DEF Insists, Free
<1> QED BY <1>1, <1>2, RefreshIsBegun

(* A user who changes is waited for by no tick that may sign out.          *)
LEMMA NobodyInsists ==
    ASSUME Sound, NEW s, setUser(s)
    PROVE  \A t \in Ticks : ~Insists(t)'
<1>1. tick' = Abort(tick)
    BY DEF setUser
<1>2. \A t \in Ticks : Abort(tick)[t] # None => Abort(tick)[t].aborted
    BY AbortTyped DEF Sound, Core, TypeOK
<1> QED BY <1>1, <1>2 DEF Insists, Free

LEMMA CallAnsweredInsisted ==
    ASSUME Sound, Identity, Insisted, NEW c \in Slots, CallAnswered(c)
    PROVE  Insisted'
<1>1. /\ ~Free(call, c) /\ UNCHANGED <<refreshing, promise>> /\ Kept
      /\ \E ok \in BOOLEAN : Ends(c, ok)
    BY KeptByServer DEF CallAnswered
<1>2. CASE \E s : setUser(s)
    BY <1>2, NobodyInsists DEF Insisted
<1>3. CASE user' = 0
    BY <1>3 DEF Insisted, SignedIn
<1>4. CASE sameUser /\ jar' = jar
    <2>1. UNCHANGED <<user, tick>>
        BY <1>4 DEF sameUser
    <2>2. \A t \in Ticks : Insists(t)' => Insists(t)
        BY <2>1 DEF Insists, Free
    <2> QED BY <1>1, <1>4, <2>1, <2>2, InsistedStays
<1>5. sameUser \/ \E s : setUser(s)
    BY <1>1, EndsUser
<1>6. jar' = jar \/ user' = 0 \/ \E s : setUser(s)
    BY <1>1, CookiesOf, EndsUser
<1> QED BY <1>2, <1>3, <1>4, <1>5, <1>6

LEMMA InsistedStep ==
    ASSUME Sound, Identity, Rotates, Insisted, [Next]_vars, UNCHANGED failures
    PROVE  Insisted'
<1>0. Kept /\ failures \in Nat
    BY AlwaysKept DEF Sound, Core, TypeOK
<1>1. CASE UNCHANGED <<user, tick, refreshing, promise>> /\ jar'.access = jar.access
    <2>1. \A t \in Ticks : Insists(t)' => Insists(t)
        BY <1>1 DEF Insists, Free
    <2> QED BY <1>0, <1>1, <2>1, InsistedStays
<1>2. ASSUME NEW h \in Handlers, RefreshAnswered(h)
      PROVE  Insisted'
    <2>1. promise' = None
        BY <1>2 DEF RefreshAnswered, Resume, clearPromise
    <2> QED BY <2>1 DEF Insisted
<1>3. ASSUME NEW h \in Handlers, NobodyWaits(h)
      PROVE  Insisted'
    BY <1>3 DEF NobodyWaits, Rotates, OneRefresh
<1>4. ASSUME NEW c \in Slots, CallRefreshes(c)
      PROVE  Insisted'
    <2>1. UNCHANGED <<user, jar, tick>> /\ refreshAccessToken
        BY <1>4 DEF CallRefreshes
    <2>2. \A t \in Ticks : Insists(t)' => Insists(t)
        BY <2>1 DEF Insists, Free
    <2> QED BY <1>0, <2>1, <2>2, RefreshIsBegun
<1>5. ASSUME NEW c \in Slots,
             (\E kind \in Kinds \ {"me"} : apiFetch(c, kind)) \/ CallHandled(c) \/ LoginHandled(c)
      PROVE  UNCHANGED <<user, tick, refreshing, promise, jar>>
    BY <1>5 DEF apiFetch, CallHandled, LoginHandled
<1>6. ASSUME NEW s \in Sessions, RevokedElsewhere(s)
      PROVE  UNCHANGED <<user, tick, refreshing, promise, jar>>
    BY <1>6 DEF RevokedElsewhere
<1>7. CASE AccessExpires
    <2>1. jar'.access = jar.access /\ UNCHANGED <<user, tick, refreshing, promise>>
        BY <1>7 DEF AccessExpires, Sound, Core, TypeOK
    <2> QED BY <1>1, <2>1
<1>8. CASE UNCHANGED vars
    BY <1>1, <1>8 DEF vars
<1>9. /\ \A h \in Handlers : ~RefreshFails(h)
      /\ \A c \in Slots : ~CallFails(c)
      /\ ~Reload
    <2>1. failures' # failures + 1
        BY <1>0
    <2>2. \A h \in Handlers : ~RefreshFails(h)
        BY <2>1 DEF RefreshFails
    <2>3. \A c \in Slots : ~CallFails(c)
        BY <2>1 DEF CallFails
    <2>4. ~Reload
        BY <2>1 DEF Reload
    <2> QED BY <2>2, <2>3, <2>4
<1>10. ASSUME NEW h \in Handlers, issueCsrf(h) \/ Server(h) \/ RefreshAnswered(h) \/ RefreshFails(h) \/ NobodyWaits(h)
       PROVE  Insisted'
    BY <1>2, <1>3, <1>9, <1>10, issueCsrfInsisted, RefreshReadInsisted, ReuseCommitsInsisted,
       RotationCommitsInsisted DEF Server
<1>11. ASSUME NEW t \in Ticks, TickStarts(t) \/ TickRetries(t)
       PROVE  Insisted'
    BY <1>11, TickStartsInsisted, TickRetriesInsisted
<1>12. ASSUME NEW c \in Slots, (\E kind \in Kinds \ {"me"} : apiFetch(c, kind)) \/ Proceeds(c) \/ CallFails(c)
       PROVE  Insisted'
    BY <1>1, <1>4, <1>5, <1>9, <1>12, CallAnsweredInsisted DEF Proceeds
<1>13. ASSUME NEW s \in Sessions, RevokedElsewhere(s)
       PROVE  Insisted'
    BY <1>1, <1>6, <1>13
<1> QED BY <1>7, <1>8, <1>9, <1>10, <1>11, <1>12, <1>13 DEF Next

LEMMA SignedStep == Sound /\ Rotation /\ Identity /\ Signed /\ [Next]_vars => Signed'
<1> SUFFICES ASSUME Sound, Rotation, Identity, Signed, [Next]_vars, failures' = 0
             PROVE  AskedAlone' /\ Insisted'
    BY DEF Signed
<1>1. failures = 0
    BY FailuresCount, JarFacts
<1>2. AskedAlone /\ Insisted /\ Rotates
    BY <1>1 DEF Signed, Rotation
<1> QED BY <1>1, <1>2, AskedAloneStep, InsistedStep

LEMMA InitSigned == Init => Identity /\ Signed
<1> SUFFICES ASSUME Init PROVE Identity /\ AskedAlone /\ Insisted
    BY DEF Signed
<1>1. PICK c \in Slots : call = [d \in Slots |-> IF d = c THEN Call("me") ELSE None]
    BY DEF Init
<1>2. \A d \in Slots : ~Free(call, d) => d = c /\ call[d].state = "sent"
    BY <1>1 DEF Call, Free
<1>3. AnswersKnown /\ AskedAlone
    BY <1>2 DEF Init, AnswersKnown, AskedAlone
<1>4. JarOfOne
    BY DEF Init, JarOfOne
<1> QED BY <1>3, <1>4 DEF Init, Identity, Insisted

(* Who is signed out while nothing failed asked for it, or has lost the    *)
(* session on the server or in the cookies.                                *)
LEMMA SignedOutRightly ==
    ASSUME Sound, Rotation, Identity, Signed, [Next]_vars, user # 0, user' = 0, failures' = 0,
           session[user] = "active", jar.access = user
    PROVE  \E c \in Slots : call[c] # None /\ call[c].kind \in {"logout", "login"} /\ call'[c] = None
<1>1. failures = 0 /\ failures' # failures + 1
    BY FailuresCount, JarFacts
<1>2. AskedAlone /\ Insisted /\ SignedIn
    BY <1>1 DEF Signed, SignedIn
<1>3. ASSUME NEW h \in Handlers, RefreshAnswered(h)
      PROVE  FALSE
    <2>1. promise = h /\ refreshing[h].state = "refused" /\ \E t \in Ticks : MaySignOut(t)
        BY <1>3 DEF RefreshAnswered, Resume
    <2>2. \E t \in Ticks : Insists(t)
        BY <2>1 DEF MaySignOut, Insists, Free
    <2>3. promise # None
        BY <1>3, <2>1 DEF Sound, Core, TypeOK
    <2> QED BY <1>2, <2>1, <2>2, <2>3 DEF Insisted, Renews
<1>4. ASSUME NEW c \in Slots, CallAnswered(c)
      PROVE  \E d \in Slots : call[d] # None /\ call[d].kind \in {"logout", "login"} /\ call'[d] = None
    <2>1. ~Free(call, c) /\ call[c].kind \in Kinds
        BY <1>4, CallIsTyped DEF CallAnswered
    <2>2. PICK ok \in BOOLEAN : Ends(c, ok) /\ (ok => call[c].state = "ok")
        BY <1>4 DEF CallAnswered
    <2>3. call'[c] = None
        BY <2>1, <2>2 DEF Ends, Sound, Core, TypeOK
    <2>4. call[c].kind # "me"
        BY <1>2, <2>1 DEF AskedAlone
    <2>5. call[c].kind # "api"
        BY <2>1, <2>2, EndsUser DEF sameUser
    <2>6. call[c].kind # "switch"
        <3>1. SUFFICES ASSUME ok, setUser(call[c].of) PROVE FALSE
            BY <2>1, <2>2, EndsUser DEF sameUser
        <3>2. call[c].of \in Sessions
            BY <2>1, <2>2, <3>1 DEF Identity, AnswersKnown, Known
        <3> QED BY <3>1, <3>2 DEF setUser, Sessions
    <2> QED BY <2>1, <2>3, <2>4, <2>5, <2>6 DEF Kinds, Free
<1>5. ASSUME NEW h \in Handlers, issueCsrf(h) \/ Server(h) \/ RefreshFails(h) \/ NobodyWaits(h)
      PROVE  FALSE
    BY <1>1, <1>5 DEF Server, RefreshRead, ReuseCommits, RotationCommits, issueCsrf, NobodyWaits, RefreshFails
<1>6. ASSUME NEW t \in Ticks, TickStarts(t) \/ TickRetries(t)
      PROVE  FALSE
    BY <1>6 DEF TickStarts, TickRetries
<1>7. ASSUME NEW c \in Slots,
             \/ \E kind \in Kinds \ {"me"} : apiFetch(c, kind)
             \/ CallHandled(c) \/ LoginHandled(c) \/ CallRefreshes(c) \/ CallFails(c)
      PROVE  FALSE
    BY <1>1, <1>7 DEF apiFetch, CallHandled, LoginHandled, CallRefreshes, CallFails
<1>8. ASSUME NEW s \in Sessions, RevokedElsewhere(s)
      PROVE  FALSE
    BY <1>8 DEF RevokedElsewhere
<1>9. ~AccessExpires /\ ~Reload /\ ~UNCHANGED vars
    BY <1>1 DEF AccessExpires, Reload, vars
<1> QED BY <1>3, <1>4, <1>5, <1>6, <1>7, <1>8, <1>9 DEF Next, Proceeds

(* Nobody is signed out of a live session whose cookies the tab holds,     *)
(* unless by the end of a logout or a refused login, or because a request  *)
(* failed, however many ticks and calls share a refresh.                   *)
THEOREM SignedInStays == Spec => StaysSignedIn
<1>1. Init => Identity /\ Signed
    BY InitSigned
<1>2. Sound /\ Rotation /\ Identity /\ Signed /\ [Next]_vars => Identity' /\ Signed'
    BY IdentityStep, SignedStep
<1>3. Sound /\ Rotation /\ Identity /\ Signed /\ [Next]_vars =>
        [user # 0 /\ user' = 0 /\ failures' = 0 =>
           \/ session[user] # "active"
           \/ jar.access # user
           \/ \E c \in Slots : call[c] # None /\ call[c].kind \in {"logout", "login"} /\ call'[c] = None]_vars
    BY SignedOutRightly
<1> QED BY <1>1, <1>2, <1>3, Invariant, PTL DEF Spec, StaysSignedIn
=============================================================================
