------------------------------- MODULE Requests -------------------------------
(***************************************************************************)
(* A request of the /v1 group of cmd/app/main.go on its way through the    *)
(* middleware (replay, authentication, signature, encryption) to the       *)
(* handlers of internal/app/features/authes, and the tokens, captchas and  *)
(* replay marks these keep in Redis.  Each request is served by a          *)
(* goroutine of its own; every command to Redis is a step.                 *)
(*                                                                         *)
(* An access token and a refresh token are created together and carry the  *)
(* same claims: both are named by the number of their pair, and a request  *)
(* presents both of one pair.  A client is the client id, platform and     *)
(* user agent that IsClaimsValid compares.                                 *)
(***************************************************************************)
EXTENDS Integers, Sequences

CONSTANTS
    Slots,          \* goroutines that serve requests
    Clients,
    WebClients,     \* those that keep their tokens in cookies
    Users,
    MaxInterval,    \* ReplayMaxInterval
    Budgets         \* bounds: what one behaviour may contain, see Budget

(* Bounds on one behaviour: who sends requests, their kinds, what may be    *)
(* wrong with them ("none" if nothing), how old they may be on arrival; how *)
(* many are sent, arrive a second time, meet a failing Redis command;       *)
(* whether keys expire; the last second.                                    *)
Budget == [clients : SUBSET Clients,
           kinds : SUBSET {"prepare", "login", "refresh", "logout", "info"},
           flaws : SUBSET {"none", "header", "session", "signature", "cipher",
                           "csrf", "answer"},
           ages : SUBSET (0 .. 2), sent : Nat, copies : Nat, faults : Nat,
           expiry : BOOLEAN, time : Nat]

ASSUME RequestsAssumption ==
    /\ WebClients \subseteq Clients
    /\ MaxInterval \in Nat \ {0}
    /\ \A b \in Budgets : b \in Budget

VARIABLES
    budget,     \* external: the bounds of this behaviour
    now,        \* external: time.Now().Unix()
    sent,       \* external: the messages sent; the number of a message is its nonce
    copies, faults,         \* external: counters of what went wrong
    marks,      \* Redis: when the mark handled_requests:<nonce> expires, 0 if none
    csrf,       \* Redis: the csrf tokens, with the answer to a captcha
    claims,     \* the claims of each pair
    access,     \* Redis: the pairs whose access token is stored
    refresh,    \* Redis: the pairs whose refresh token is stored
    job,        \* the request each slot serves and where it is
    accepted,   \* history: how often each message passed the replay test
    excused,    \* history: messages that a failing Redis or a fast clock let pass
    logins,     \* history: who logged in from which client
    solved,     \* history: how many logins each captcha was good for
    loggedOut,  \* history: sessions whose logout was answered
    upset       \* history: clients whose session requests overlapped, or whose
                \*          tokens Redis failed to revoke

external == <<budget, now, sent, copies>>
redis    == <<marks, csrf, access, refresh>>
history  == <<accepted, excused, logins, solved, loggedOut, upset>>
vars     == <<external, faults, redis, claims, job, history>>

NoJob == [at |-> "idle", nonce |-> 0, user |-> 0, root |-> 0, pair |-> 0]

msg(s) == sent[job[s].nonce]

(* Requests that change the tokens of their client.                         *)
SessionKinds == {"login", "refresh", "logout"}

Init ==
    /\ budget \in Budgets
    /\ now = 0
    /\ sent = <<>>
    /\ copies = 0 /\ faults = 0
    /\ marks = [n \in 1 .. budget.sent |-> 0]
    /\ csrf = {}
    /\ claims = <<>>
    /\ access = {} /\ refresh = {}
    /\ job = [s \in Slots |-> NoJob]
    /\ accepted = [n \in 1 .. budget.sent |-> 0]
    /\ excused = {}
    /\ logins = {}
    /\ solved = <<>>
    /\ loggedOut = {}
    /\ upset = {}

-----------------------------------------------------------------------------
(* External: messages arrive, for the first time or again.                  *)

(* Only a login names a user and a captcha.                                 *)
Messages ==
    [kind : budget.kinds \ {"login"}, client : budget.clients, pair : 0 .. Len(claims),
     flaw : budget.flaws, user : {0}, captcha : {0}, ts : {now - a : a \in budget.ages}]
    \union
    [kind : budget.kinds \intersect {"login"}, client : budget.clients, pair : {0},
     flaw : budget.flaws, user : Users,
     captcha : DOMAIN solved,
     ts : {now - a : a \in budget.ages}]

Active(c) ==
    \E s \in Slots : /\ job[s].at # "idle"
                     /\ msg(s).client = c /\ msg(s).kind \in SessionKinds

Upsets(m) == m.kind \in SessionKinds /\ Active(m.client)

Tick ==
    /\ now < budget.time
    /\ now' = now + 1
    /\ marks' = [n \in DOMAIN marks |-> IF marks[n] <= now + 1 THEN 0 ELSE marks[n]]
    /\ UNCHANGED <<budget, sent, copies, faults, csrf, access, refresh, claims, job,
                   history>>

(* Redis drops a token or a captcha whose time to live has passed.          *)
Expire ==
    /\ budget.expiry
    /\ \/ \E p \in access : access' = access \ {p} /\ UNCHANGED <<csrf, refresh>>
       \/ \E p \in refresh : refresh' = refresh \ {p} /\ UNCHANGED <<csrf, access>>
       \/ \E n \in csrf : csrf' = csrf \ {n} /\ UNCHANGED <<access, refresh>>
    /\ UNCHANGED <<external, faults, marks, claims, job, history>>

-----------------------------------------------------------------------------
Goto(s, at) == job' = [job EXCEPT ![s].at = at]

(* The request ends; what the handler wrote stays in the buffer of the      *)
(* BodyWriter.                                                              *)
Abort(s) == job' = [job EXCEPT ![s] = NoJob]

(* A command to Redis fails, after it ran or before.                        *)
Fails ==
    /\ faults < budget.faults
    /\ faults' = faults + 1

Fault == Fails /\ UNCHANGED upset

(* The command is to revoke a token, and the handler ignores the error.     *)
IgnoredFault(s) == Fails /\ upset' = upset \union {msg(s).client}

NoFault == UNCHANGED <<faults, upset>>

-----------------------------------------------------------------------------
(* ReplayMiddleware.                                                        *)

(* time.Now().Unix()-timestampVal > maxInterval                             *)
TooOld(m) == now - m.ts > MaxInterval

(* Mutant: the mark lives one second less than the window is long.          *)
MarkExpiryShort == now + MaxInterval - 1

MarkExpiry == now + MaxInterval

Pass(s, n, excuse) ==
    /\ job' = [job EXCEPT ![s] = [NoJob EXCEPT !.at = "auth", !.nonce = n]]
    /\ accepted' = [accepted EXCEPT ![n] = @ + 1]
    /\ excused' = IF excuse THEN excused \union {n} ELSE excused

Reject == UNCHANGED <<job, faults, marks, accepted, excused>>

(* Message m with nonce n: the test of its age and SaveHandledRequest, a    *)
(* SET NX of the nonce.  When Redis fails the request is not taken for a    *)
(* replay.                                                                  *)
IsReplayRequest(s, n, m) ==
    /\ upset' = IF Upsets(m) THEN upset \union {m.client} ELSE upset
    /\ \/ /\ m.flaw = "header" \/ TooOld(m) \/ marks[n] # 0
          /\ Reject
       \/ /\ m.flaw # "header" /\ ~TooOld(m) /\ marks[n] = 0
          /\ marks' = [marks EXCEPT ![n] = MarkExpiry]
          /\ Pass(s, n, m.ts >= now)
          /\ UNCHANGED faults
       \/ /\ m.flaw # "header" /\ ~TooOld(m)
          /\ Fails
          /\ \/ UNCHANGED marks
             \/ marks[n] = 0 /\ marks' = [marks EXCEPT ![n] = MarkExpiry]
          /\ Pass(s, n, TRUE)

Arrive(s) ==
    /\ job[s].at = "idle"
    /\ Len(sent) < budget.sent
    /\ \E m \in Messages :
          /\ sent' = Append(sent, m)
          /\ IsReplayRequest(s, Len(sent) + 1, m)
    /\ UNCHANGED <<budget, now, copies, csrf, access, refresh, claims, logins,
                   solved, loggedOut>>

ArriveAgain(s) ==
    /\ job[s].at = "idle"
    /\ copies < budget.copies
    /\ copies' = copies + 1
    /\ \E n \in 1 .. Len(sent) : IsReplayRequest(s, n, sent[n])
    /\ UNCHANGED <<budget, now, sent, csrf, access, refresh, claims, logins, solved,
                   loggedOut>>

-----------------------------------------------------------------------------
(* AuthMiddleware, then what SignMiddleware and CryptoMiddleware do before  *)
(* the handler: they touch no shared state.                                 *)

(* Mutant: the user agent, platform and client id are not compared.         *)
IsClaimsValidAny(p, c) == p # 0

IsClaimsValid(p, c) == p # 0 /\ claims[p].client = c

(* PathsNeedAuth is "*"; PathsNotAuth lists the login paths and refresh.    *)
isPathNeedAuth(kind) == kind \notin {"prepare", "login", "refresh"}

GetAccessToken(m) == m.pair

GetAccessTokenClaims(p) == p \in access

(* The session id yields the keys of the client.                            *)
SaveClientKeys(m) == m.flaw # "session"

(* The signature covers the request as it arrived, encrypted.               *)
VerifySign(m) == m.flaw # "signature"

(* The body can be decrypted, or there is none.                             *)
OpenBody(m) == m.flaw # "cipher"

(* The test at the head of RefreshToken.                                    *)
HasToken(m) == m.kind = "refresh" => m.pair # 0

(* The tests at the head of MsgCodeAuther.Authorize.                        *)
CsrfMatches(m) == m.kind = "login" => m.flaw # "csrf"

(* The request passes the other middleware and reaches its handler.         *)
Enter(s) ==
    LET m == msg(s) IN
    IF SaveClientKeys(m) /\ VerifySign(m) /\ OpenBody(m) /\ HasToken(m) /\ CsrfMatches(m)
    THEN Goto(s, m.kind) ELSE Abort(s)

Auth(s) ==
    LET m == msg(s)
        p == GetAccessToken(m)
        valid == GetAccessTokenClaims(p) /\ IsClaimsValid(p, m.client)
    IN
    /\ job[s].at = "auth"
    /\ \/ /\ IF isPathNeedAuth(m.kind) /\ ~valid THEN Abort(s) ELSE Enter(s)
          /\ NoFault
       \/ /\ p # 0
          /\ Fault
          /\ IF isPathNeedAuth(m.kind) THEN Abort(s) ELSE Enter(s)
    /\ UNCHANGED <<external, redis, claims, accepted, excused, logins, solved, loggedOut>>

-----------------------------------------------------------------------------
SaveCsrfToken == csrf \union {Len(solved) + 1}

(* PrepareLogin: the captcha is stored and sent with its csrf token.        *)
PrepareLogin(s) ==
    /\ job[s].at = "prepare"
    /\ solved' = Append(solved, 0)
    /\ \/ csrf' = SaveCsrfToken /\ Goto(s, "answer") /\ NoFault
       \/ Fault /\ Abort(s) /\ csrf' \in {csrf, SaveCsrfToken}
    /\ UNCHANGED <<external, marks, access, refresh, claims, accepted, excused,
                   logins, loggedOut>>

(* Mutant: the captcha is read and stays.                                   *)
GetCsrfTokenKeep(n) == csrf

(* GETDEL: reading a captcha uses it up.                                    *)
GetCsrfToken(n) == csrf \ {n}

(* MsgCodeAuther.Authorize: the captcha.  A wrong message code is one more  *)
(* reason to abort.                                                         *)
MsgCodeAuthorize(s) ==
    LET m == msg(s) IN
    /\ job[s].at = "login"
    /\ \/ /\ csrf' = GetCsrfToken(m.captcha)
          /\ NoFault
          /\ IF m.captcha \in csrf /\ m.flaw # "answer"
             THEN /\ Goto(s, "user")
                  /\ solved' = [solved EXCEPT ![m.captcha] = @ + 1]
             ELSE Abort(s) /\ UNCHANGED solved
       \/ /\ Fault
          /\ csrf' \in {csrf, GetCsrfToken(m.captcha)}
          /\ Abort(s)
          /\ UNCHANGED solved
    /\ UNCHANGED <<external, marks, access, refresh, claims, accepted, excused,
                   logins, loggedOut>>

(* AuthService.Authorize goes on with the user.  The table is external: it  *)
(* may fail or say that the user is banned.                                 *)
Authorize(s) ==
    /\ job[s].at = "user"
    /\ \/ Abort(s) /\ UNCHANGED logins
       \/ /\ job' = [job EXCEPT ![s].at = "issue", ![s].user = msg(s).user]
          /\ logins' = logins \union {<<msg(s).user, msg(s).client>>}
    /\ UNCHANGED <<external, faults, redis, claims, accepted, excused, solved,
                   loggedOut, upset>>

SaveAccessToken(p) == access \union {p}

SaveRefreshToken(p) == refresh \union {p}

(* GenerateTokenPair begins with GenerateAccessToken.  The claims name the  *)
(* client of the request, not that of the old token.                        *)
GenerateAccessToken(s) ==
    LET p == Len(claims) + 1
        c == [user |-> job[s].user, client |-> msg(s).client,
              root |-> IF job[s].root = 0 THEN p ELSE job[s].root]
    IN
    /\ job[s].at = "issue"
    /\ claims' = Append(claims, c)
    /\ \/ /\ access' = SaveAccessToken(p)
          /\ job' = [job EXCEPT ![s].at = "issue2", ![s].pair = p]
          /\ NoFault
       \/ Fault /\ Abort(s) /\ access' \in {access, SaveAccessToken(p)}
    /\ UNCHANGED <<external, marks, csrf, refresh, accepted, excused, logins,
                   solved, loggedOut>>

(* When the second half fails the access token stays behind.                *)
GenerateTokenPair(s) ==
    LET p == job[s].pair IN
    /\ job[s].at = "issue2"
    /\ \/ refresh' = SaveRefreshToken(p) /\ Goto(s, "answer") /\ NoFault
       \/ Fault /\ Abort(s) /\ refresh' \in {refresh, SaveRefreshToken(p)}
    /\ UNCHANGED <<external, marks, csrf, access, claims, accepted, excused,
                   logins, solved, loggedOut>>

RevokeAccessToken(p) == access \ {p}

(* Mutant: the refresh token stays valid.                                   *)
RevokeRefreshTokenKeep(p) == refresh

RevokeRefreshToken(p) == refresh \ {p}

-----------------------------------------------------------------------------
(* RefreshToken: first the access token is revoked, and an error ignored.   *)
RefreshRevoke(s) ==
    /\ job[s].at = "refresh"
    /\ \/ access' = RevokeAccessToken(msg(s).pair) /\ NoFault
       \/ IgnoredFault(s) /\ access' \in {access, RevokeAccessToken(msg(s).pair)}
    /\ Goto(s, "refresh2")
    /\ UNCHANGED <<external, marks, csrf, refresh, claims, accepted, excused,
                   logins, solved, loggedOut>>

GetRefreshTokenCredential(p) == p \in refresh

RefreshCredential(s) ==
    LET p == msg(s).pair IN
    /\ job[s].at = "refresh2"
    /\ \/ /\ IF GetRefreshTokenCredential(p) /\ IsClaimsValid(p, msg(s).client)
             THEN job' = [job EXCEPT ![s].at = "refresh3",
                             ![s].user = claims[p].user, ![s].root = claims[p].root]
             ELSE Abort(s)
          /\ NoFault
       \/ Fault /\ Abort(s)
    /\ UNCHANGED <<external, redis, claims, accepted, excused, logins, solved, loggedOut>>

(* The old refresh token is deleted; only then are new ones made.           *)
RefreshRotate(s) ==
    LET p == msg(s).pair IN
    /\ job[s].at = "refresh3"
    /\ \/ refresh' = RevokeRefreshToken(p) /\ Goto(s, "issue") /\ NoFault
       \/ Fault /\ Abort(s) /\ refresh' \in {refresh, RevokeRefreshToken(p)}
    /\ UNCHANGED <<external, marks, csrf, access, claims, accepted, excused,
                   logins, solved, loggedOut>>

-----------------------------------------------------------------------------
(* Logout: both tokens are revoked and errors ignored.  GetRefreshToken     *)
(* finds a refresh token only in the cookies of a web client.               *)
LogoutAccess(s) ==
    /\ job[s].at = "logout"
    /\ \/ access' = RevokeAccessToken(msg(s).pair) /\ NoFault
       \/ IgnoredFault(s) /\ access' \in {access, RevokeAccessToken(msg(s).pair)}
    /\ Goto(s, "logout2")
    /\ UNCHANGED <<external, marks, csrf, refresh, claims, accepted, excused,
                   logins, solved, loggedOut>>

GetRefreshToken(m) == IF m.client \in WebClients THEN m.pair ELSE 0

LogoutRefresh(s) ==
    LET p == GetRefreshToken(msg(s)) IN
    /\ job[s].at = "logout2"
    /\ \/ refresh' = RevokeRefreshToken(p) /\ NoFault
       \/ p # 0 /\ IgnoredFault(s) /\ refresh' \in {refresh, RevokeRefreshToken(p)}
    /\ loggedOut' = loggedOut \union {claims[msg(s).pair].root}
    /\ Goto(s, "answer")
    /\ UNCHANGED <<external, marks, csrf, access, claims, accepted, excused,
                   logins, solved>>

-----------------------------------------------------------------------------
(* The rest of CryptoMiddleware encrypts what the handler wrote; when it    *)
(* cannot, no body is written.  Whatever the client has of the answer, any  *)
(* request of its may present any pair, an old one or another's too.  An    *)
(* "info" request, GetSelfInfo or another handler behind authentication,    *)
(* changes nothing before.                                                  *)
EncryptAnswer(s) ==
    /\ job[s].at \in {"answer", "info"}
    /\ Goto(s, "sign") \/ Abort(s)
    /\ UNCHANGED <<external, faults, redis, claims, history>>

(* The rest of SignMiddleware signs and writes it, or fails.                *)
SignAnswer(s) ==
    /\ job[s].at = "sign"
    /\ Abort(s)
    /\ UNCHANGED <<external, faults, redis, claims, history>>

(* All messages are served.                                                 *)
Horizon ==
    /\ now = budget.time /\ Len(sent) = budget.sent
    /\ \A s \in Slots : job[s].at = "idle"
    /\ UNCHANGED vars

Serve(s) ==
    \/ Auth(s)
    \/ PrepareLogin(s) \/ MsgCodeAuthorize(s) \/ Authorize(s)
    \/ GenerateAccessToken(s) \/ GenerateTokenPair(s)
    \/ RefreshRevoke(s) \/ RefreshCredential(s) \/ RefreshRotate(s)
    \/ LogoutAccess(s) \/ LogoutRefresh(s)
    \/ EncryptAnswer(s) \/ SignAnswer(s)

Next ==
    \/ \E s \in Slots : Arrive(s) \/ ArriveAgain(s) \/ Serve(s)
    \/ Tick \/ Expire \/ Horizon

Spec == Init /\ [][Next]_vars

-----------------------------------------------------------------------------
Pairs == 1 .. Len(claims)

TypeOK ==
    /\ now \in 0 .. budget.time
    /\ access \subseteq Pairs /\ refresh \subseteq Pairs
    /\ csrf \subseteq DOMAIN solved
    /\ \A p \in Pairs : /\ claims[p].user \in Users /\ claims[p].client \in Clients
                        /\ claims[p].root \in 1 .. p
    /\ \A s \in Slots : job[s].nonce \in 0 .. Len(sent) /\ job[s].pair \in 0 .. Len(claims)

(* "验证请求是否是重放请求": a message that arrives twice passes the replay   *)
(* test once, unless Redis failed, or the message was there in the very     *)
(* second of its timestamp: then the mark ends before the window does.      *)
AcceptedOnce == \A n \in 1 .. Len(sent) : n \notin excused => accepted[n] <= 1

(* A handler behind authentication runs for a client only as a user who     *)
(* logged in from this client, however often the tokens were rotated.       *)
RunsAsOwner ==
    \A s \in Slots :
        job[s].at \in {"info", "logout"} =>
            <<claims[msg(s).pair].user, msg(s).client>> \in logins

(* However logins, copies of them and retries interleave, a captcha lets    *)
(* one login pass.                                                          *)
CaptchaUsedOnce == \A n \in DOMAIN solved : solved[n] <= 1

(* Once the handler of a web client's logout is done, no token of the       *)
(* session is left, and no refresh brings one back, with whatever pair it   *)
(* comes, a rotated one, one logged out or another client's, and whatever   *)
(* failed on the way.  Excepted are clients whose session requests          *)
(* overlapped (a refresh that passed the read of its token before the       *)
(* logout deleted it does issue a new pair) and those for whom Redis failed *)
(* to revoke a token, an error the handlers ignore.                         *)
LogoutEndsSession ==
    \A p \in access \union refresh :
        claims[p].root \in loggedOut =>
            claims[p].client \in upset \/ claims[p].client \notin WebClients

=============================================================================
