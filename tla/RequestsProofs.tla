---------------------------- MODULE RequestsProofs ----------------------------
(***************************************************************************)
(* The promises of the middleware and of authes: a message passes the      *)
(* replay test once, a captcha lets one login pass, handlers run as a user *)
(* who logged in from the client, and a logout ends the session.  For any  *)
(* number of goroutines, clients, users, messages, copies, failing         *)
(* commands and lost answers, and any ReplayMaxInterval.                   *)
(***************************************************************************)
EXTENDS Requests, TLAPS

Kinds == {"prepare", "login", "refresh", "logout", "info"}
Flaws == {"none", "header", "session", "signature", "cipher", "csrf", "answer"}
Places == {"idle", "auth", "prepare", "login", "refresh", "logout", "info", "answer",
           "user", "issue", "issue2", "refresh2", "refresh3", "logout2", "sign"}

MessageSet == [kind : Kinds, client : Clients, pair : Nat, flaw : Flaws,
               user : Users \cup {0}, captcha : Nat, ts : Int]
ClaimSet == [user : Users \cup {0}, client : Clients, root : Nat]
JobSet == [at : Places, nonce : Nat, user : Users \cup {0}, root : Nat, pair : Nat]

Typed ==
    /\ budget \in Budget /\ now \in Nat
    /\ sent \in Seq(MessageSet) /\ Len(sent) <= budget.sent
    /\ claims \in Seq(ClaimSet)
    /\ solved \in Seq(Nat)
    /\ marks \in [1 .. budget.sent -> Nat] /\ accepted \in [1 .. budget.sent -> Nat]
    /\ csrf \subseteq 1 .. Len(solved)
    /\ access \subseteq 1 .. Len(claims) /\ refresh \subseteq 1 .. Len(claims)
    /\ job \in [Slots -> JobSet]

(* A request that is served was sent; a pair that is being issued exists.   *)
JobTyped(s) ==
    /\ job[s].at # "idle" => job[s].nonce \in 1 .. Len(sent)
    /\ job[s].pair <= Len(claims)
    /\ job[s].at = "issue2" => job[s].pair # 0

(* A captcha that is stored was good for no login yet.                      *)
Captchas ==
    \A n \in 1 .. Len(solved) : solved[n] <= 1 /\ (n \in csrf => solved[n] = 0)

(* Who is about to be issued a pair, and whose pair a handler runs for.     *)
Owner(s) ==
    /\ job[s].at \in {"info", "logout", "logout2"} =>
          /\ msg(s).pair \in 1 .. Len(claims)
          /\ claims[msg(s).pair].client = msg(s).client
    /\ job[s].at \in {"refresh3", "issue"} => <<job[s].user, msg(s).client>> \in logins

Owners ==
    \A p \in 1 .. Len(claims) : <<claims[p].user, claims[p].client>> \in logins

(* The mark of a message lives until the message is too old.                *)
Once(n) ==
    n \notin excused /\ accepted[n] # 0 =>
        /\ accepted[n] = 1
        /\ TooOld(sent[n]) \/ (marks[n] # 0 /\ marks[n] > sent[n].ts + MaxInterval)

Marked ==
    /\ \A n \in 1 .. Len(sent) : Once(n)
    /\ \A n \in 1 .. budget.sent : n > Len(sent) => accepted[n] = 0

Inv ==
    /\ Typed /\ Captchas /\ Owners /\ Marked
    /\ \A s \in Slots : JobTyped(s) /\ Owner(s)

LEMMA InitInv == Init => Inv
<1> SUFFICES ASSUME Init PROVE Inv
  OBVIOUS
<1>1. NoJob \in JobSet
  BY DEF NoJob, JobSet, Places
<1>2. budget \in Budget /\ budget.sent \in Nat
  BY RequestsAssumption DEF Init, Budget
<1>3. Typed
  BY <1>1, <1>2 DEF Init, Typed
<1>4. Captchas /\ Owners /\ Marked
  <2>1. Len(solved) = 0 /\ Len(claims) = 0 /\ Len(sent) = 0
    BY DEF Init
  <2>2. \A n \in 1 .. budget.sent : accepted[n] = 0
    BY DEF Init
  <2> QED
    BY <2>1, <2>2 DEF Captchas, Owners, Marked
<1>5. ASSUME NEW s \in Slots PROVE JobTyped(s) /\ Owner(s)
  <2>1. Len(claims) = 0
    BY DEF Init
  <2>2. job[s] = NoJob
    BY DEF Init
  <2>3. job[s].at = "idle" /\ job[s].pair = 0
    BY <2>2 DEF NoJob
  <2> QED
    BY <2>1, <2>3 DEF JobTyped, Owner
<1> QED
  BY <1>3, <1>4, <1>5 DEF Inv

-----------------------------------------------------------------------------
(* Steps.                                                                   *)

(* Messages, pairs and logins are added and stay.                           *)
Grows ==
    /\ sent' \in Seq(MessageSet) /\ Len(sent) <= Len(sent')
    /\ \A n \in 1 .. Len(sent) : sent'[n] = sent[n]
    /\ claims' \in Seq(ClaimSet) /\ Len(claims) <= Len(claims')
    /\ \A p \in 1 .. Len(claims) : claims'[p] = claims[p]
    /\ logins \subseteq logins'

LEMMA OtherJob ==
    ASSUME Inv, Grows, NEW s \in Slots, job'[s] = job[s]
    PROVE  JobTyped(s)' /\ Owner(s)'
<1>1. JobTyped(s) /\ Owner(s) /\ job[s] \in JobSet
  BY DEF Inv, Typed
<1>2. Len(sent) \in Nat /\ Len(sent') \in Nat /\ Len(claims) \in Nat /\ Len(claims') \in Nat
  BY DEF Inv, Typed, Grows
<1>3. JobTyped(s)'
  <2>1. Len(sent) <= Len(sent') /\ Len(claims) <= Len(claims')
    BY DEF Grows
  <2>2. job[s].nonce \in Nat /\ job[s].pair \in Nat
    BY <1>1 DEF JobSet
  <2> QED
    BY <1>1, <1>2, <2>1, <2>2 DEF JobTyped
<1>4. CASE job[s].at = "idle"
  BY <1>3, <1>4 DEF Owner
<1>5. CASE job[s].at # "idle"
  <2>1. job[s].nonce \in 1 .. Len(sent)
    BY <1>1, <1>5 DEF JobTyped
  <2>2. \A n \in 1 .. Len(sent) : sent'[n] = sent[n]
    BY DEF Grows
  <2>3. msg(s)' = msg(s)
    BY <2>1, <2>2 DEF msg
  <2> QED
    BY <1>1, <1>2, <1>3, <2>3 DEF Owner, Grows
<1> QED
  BY <1>3, <1>4, <1>5

LEMMA Numbers ==
    ASSUME Inv
    PROVE  /\ now \in Nat /\ budget.sent \in Nat
           /\ MaxInterval \in Nat /\ MaxInterval # 0 /\ now + MaxInterval \in Nat
           /\ sent \in Seq(MessageSet) /\ Len(sent) \in Nat /\ Len(sent) <= budget.sent
           /\ claims \in Seq(ClaimSet) /\ Len(claims) \in Nat
<1>1. budget \in Budget /\ now \in Nat /\ sent \in Seq(MessageSet) /\ Len(sent) <= budget.sent
  BY DEF Inv, Typed
<1>2. budget.sent \in Nat
  BY <1>1 DEF Budget
<1>3. MaxInterval \in Nat /\ MaxInterval # 0
  BY RequestsAssumption
<1>4. claims \in Seq(ClaimSet) /\ Len(claims) \in Nat
  BY DEF Inv, Typed
<1> QED
  BY <1>1, <1>2, <1>3, <1>4

(* A step of the request in slot s behind the replay test.                  *)
LEMMA ServeStep ==
    ASSUME Inv, NEW s \in Slots, NEW j \in JobSet, job' = [job EXCEPT ![s] = j],
           UNCHANGED <<budget, now, sent, marks, accepted, excused>>,
           Grows, Owners',
           solved' \in Seq(Nat), csrf' \subseteq 1 .. Len(solved'), Captchas',
           access' \subseteq 1 .. Len(claims'), refresh' \subseteq 1 .. Len(claims'),
           j.at # "idle" => job[s].at # "idle" /\ j.nonce = job[s].nonce,
           j.pair <= Len(claims'), j.at = "issue2" => j.pair # 0,
           Owner(s)'
    PROVE  Inv'
<1>1. Typed'
  BY DEF Inv, Typed, Grows
<1>2. job'[s] = j /\ \A d \in Slots \ {s} : job'[d] = job[d]
  BY DEF Inv, Typed
<1>3. JobTyped(s)'
  BY <1>2 DEF Inv, JobTyped
<1>4. \A d \in Slots \ {s} : JobTyped(d)' /\ Owner(d)'
  BY <1>2, OtherJob
<1>5. Marked'
  BY DEF Inv, Marked, Once, TooOld
<1> QED
  BY <1>1, <1>3, <1>4, <1>5 DEF Inv

(* A step that leaves captchas, pairs and logins alone.                     *)
LEMMA SameGrows ==
    ASSUME Inv, UNCHANGED <<sent, claims, logins>>
    PROVE  Grows /\ Owners'
BY DEF Inv, Typed, Owners, Grows

LEMMA SameCaptchas ==
    ASSUME Inv, UNCHANGED solved, csrf' \subseteq csrf
    PROVE  solved' \in Seq(Nat) /\ csrf' \subseteq 1 .. Len(solved') /\ Captchas'
BY DEF Inv, Typed, Captchas

(* The same for a request that ends, and for one that moves on to a place   *)
(* that needs no owner.                                                     *)
LEMMA AbortTyped ==
    /\ NoJob \in JobSet /\ NoJob.at = "idle" /\ NoJob.pair = 0 /\ NoJob.nonce = 0
    /\ NoJob.user = 0 /\ NoJob.root = 0
BY DEF NoJob, JobSet, Places

LEMMA GotoTyped ==
    ASSUME NEW j \in JobSet, NEW at \in Places
    PROVE  /\ [j EXCEPT !.at = at] \in JobSet /\ [j EXCEPT !.at = at].at = at
           /\ [j EXCEPT !.at = at].nonce = j.nonce /\ [j EXCEPT !.at = at].user = j.user
           /\ [j EXCEPT !.at = at].root = j.root /\ [j EXCEPT !.at = at].pair = j.pair
BY DEF JobSet

Plain == {"idle", "auth", "prepare", "login", "refresh", "answer", "user", "refresh2", "sign"}

LEMMA PlainStep ==
    ASSUME Inv, NEW s \in Slots, job[s].at # "idle",
           NEW at \in Plain, at # "idle", Goto(s, at) \/ Abort(s),
           UNCHANGED <<budget, now, sent, marks, accepted, excused, claims, logins>>,
           solved' \in Seq(Nat), csrf' \subseteq 1 .. Len(solved'), Captchas',
           access' \subseteq 1 .. Len(claims), refresh' \subseteq 1 .. Len(claims)
    PROVE  Inv'
<1>0. job[s] \in JobSet /\ job \in [Slots -> JobSet]
  BY DEF Inv, Typed
<1>1. Grows /\ Owners'
  BY SameGrows
<1>2. CASE Abort(s)
  <2>1. job' = [job EXCEPT ![s] = NoJob]
    BY <1>2 DEF Abort
  <2>2. Owner(s)'
    BY <1>0, <2>1, AbortTyped DEF Owner
  <2>3. NoJob.pair <= Len(claims')
    BY <1>1, AbortTyped DEF Grows
  <2> QED
    BY <1>1, <2>1, <2>2, <2>3, AbortTyped, ServeStep
<1>3. CASE Goto(s, at)
  <2> DEFINE j == [job[s] EXCEPT !.at = at]
  <2>1. job' = [job EXCEPT ![s] = j]
    BY <1>0, <1>3 DEF Goto
  <2>2. j \in JobSet /\ j.at = at /\ j.nonce = job[s].nonce /\ j.pair = job[s].pair
    <3>1. at \in Places
      BY DEF Plain, Places
    <3> QED
      BY <1>0, <3>1, GotoTyped
  <2> HIDE DEF j
  <2>3. Owner(s)'
    BY <1>0, <2>1, <2>2 DEF Owner, Plain
  <2>4. j.pair <= Len(claims')
    BY <2>2 DEF Inv, JobTyped
  <2>5. j.at # "issue2"
    BY <2>2 DEF Plain
  <2> QED
    BY <1>1, <2>1, <2>2, <2>3, <2>4, <2>5, ServeStep
<1> QED
  BY <1>2, <1>3
-----------------------------------------------------------------------------
(* The actions.                                                             *)

LEMMA Served ==
    ASSUME Inv, NEW s \in Slots, job[s].at # "idle"
    PROVE  /\ job[s] \in JobSet /\ job[s].nonce \in 1 .. Len(sent)
           /\ msg(s) \in MessageSet /\ job \in [Slots -> JobSet]
<1>1. job[s] \in JobSet /\ job \in [Slots -> JobSet] /\ sent \in Seq(MessageSet)
  BY DEF Inv, Typed
<1>2. job[s].nonce \in 1 .. Len(sent)
  BY DEF Inv, JobTyped
<1>3. sent[job[s].nonce] \in MessageSet
  BY <1>1, <1>2
<1> QED
  BY <1>1, <1>2, <1>3 DEF msg

(* AuthMiddleware lets requests pass to handlers behind it only with a      *)
(* stored access token that was issued to their client.                     *)
LEMMA AuthInv == ASSUME Inv, NEW s \in Slots, Auth(s) PROVE Inv'
<1>0. job[s].at = "auth"
  BY DEF Auth
<1>1. /\ job[s] \in JobSet /\ msg(s) \in MessageSet /\ msg(s).kind \in Kinds
      /\ job \in [Slots -> JobSet]
  BY <1>0, Served DEF MessageSet
<1>2. UNCHANGED <<budget, now, sent, marks, accepted, excused, claims, logins, solved, csrf,
                  access, refresh>>
  BY DEF Auth, external, redis
<1>3. /\ solved' \in Seq(Nat) /\ csrf' \subseteq 1 .. Len(solved') /\ Captchas'
      /\ access' \subseteq 1 .. Len(claims) /\ refresh' \subseteq 1 .. Len(claims)
  BY <1>2, SameCaptchas DEF Inv, Typed
<1>4. CASE Abort(s)
  BY <1>0, <1>2, <1>3, <1>4, PlainStep DEF Plain
<1>5. CASE Goto(s, msg(s).kind) /\ msg(s).kind \in {"prepare", "login", "refresh"}
  BY <1>0, <1>2, <1>3, <1>5, PlainStep DEF Plain
<1>6. CASE /\ Goto(s, msg(s).kind) /\ msg(s).kind \in {"info", "logout"}
           /\ msg(s).pair \in access /\ IsClaimsValid(msg(s).pair, msg(s).client)
  <2> DEFINE j == [job[s] EXCEPT !.at = msg(s).kind]
  <2>1. job' = [job EXCEPT ![s] = j]
    BY <1>1, <1>6 DEF Goto
  <2>2. /\ j \in JobSet /\ j.at = msg(s).kind /\ j.nonce = job[s].nonce /\ j.pair = job[s].pair
    <3>1. msg(s).kind \in Places
      BY <1>6 DEF Places
    <3> QED
      BY <1>1, <3>1, GotoTyped
  <2> HIDE DEF j
  <2>3. msg(s)' = msg(s)
    BY <1>1, <1>2, <2>1, <2>2 DEF msg
  <2>4. job'[s].at \in {"info", "logout"}
    BY <1>1, <1>6, <2>1, <2>2
  <2>5. msg(s).pair \in 1 .. Len(claims) /\ claims[msg(s).pair].client = msg(s).client
    BY <1>6 DEF IsClaimsValid, Inv, Typed
  <2>6. Owner(s)'
    BY <1>2, <2>3, <2>4, <2>5 DEF Owner
  <2>7. Grows /\ Owners'
    BY <1>2, SameGrows
  <2>8. j.pair <= Len(claims') /\ j.at # "issue2"
    BY <1>2, <1>6, <2>2 DEF Inv, JobTyped
  <2> QED
    BY <1>0, <1>2, <1>3, <2>1, <2>2, <2>6, <2>7, <2>8, ServeStep
<1>7. isPathNeedAuth(msg(s).kind) <=> msg(s).kind \in {"info", "logout"}
  BY <1>1 DEF isPathNeedAuth, Kinds
<1>8. \/ Abort(s)
      \/ Goto(s, msg(s).kind) /\ msg(s).kind \in {"prepare", "login", "refresh"}
      \/ /\ Goto(s, msg(s).kind) /\ msg(s).kind \in {"info", "logout"}
         /\ msg(s).pair \in access /\ IsClaimsValid(msg(s).pair, msg(s).client)
  BY <1>1, <1>7 DEF Auth, Enter, GetAccessToken, GetAccessTokenClaims, Kinds
<1> QED
  BY <1>4, <1>5, <1>6, <1>8

(* A new captcha.                                                           *)
LEMMA PrepareLoginInv == ASSUME Inv, NEW s \in Slots, PrepareLogin(s) PROVE Inv'
<1>0. job[s].at = "prepare"
  BY DEF PrepareLogin
<1>1. /\ UNCHANGED <<budget, now, sent, marks, accepted, excused, claims, logins, access, refresh>>
      /\ Goto(s, "answer") \/ Abort(s)
      /\ solved' = Append(solved, 0) /\ csrf' \subseteq csrf \cup {Len(solved) + 1}
  BY DEF PrepareLogin, external, SaveCsrfToken
<1> DEFINE n == Len(solved)
<1>2. solved \in Seq(Nat) /\ n \in Nat /\ csrf \subseteq 1 .. n
  BY DEF Inv, Typed
<1>3. /\ solved' \in Seq(Nat) /\ Len(solved') = n + 1 /\ solved'[n + 1] = 0
      /\ \A k \in 1 .. n : solved'[k] = solved[k]
  BY <1>1, <1>2
<1>4. csrf' \subseteq 1 .. Len(solved')
  BY <1>1, <1>2, <1>3
<1>5. Captchas'
  <2> SUFFICES ASSUME NEW k \in 1 .. n + 1
               PROVE  solved'[k] <= 1 /\ (k \in csrf' => solved'[k] = 0)
    BY <1>3 DEF Captchas
  <2>1. CASE k = n + 1
    BY <1>3, <2>1
  <2>2. CASE k # n + 1
    <3>1. k \in 1 .. n
      BY <1>2, <2>2
    <3>2. solved'[k] = solved[k] /\ (k \in csrf' => k \in csrf)
      BY <1>1, <1>3, <2>2, <3>1
    <3>3. solved[k] <= 1 /\ (k \in csrf => solved[k] = 0)
      BY <3>1 DEF Inv, Captchas
    <3> QED
      BY <3>2, <3>3
  <2> QED
    BY <2>1, <2>2
<1>6. access' \subseteq 1 .. Len(claims) /\ refresh' \subseteq 1 .. Len(claims)
  BY <1>1 DEF Inv, Typed
<1> HIDE DEF n
<1> QED
  BY <1>0, <1>1, <1>3, <1>4, <1>5, <1>6, PlainStep DEF Plain

(* GETDEL: whoever reads a captcha removes it.                              *)
LEMMA MsgCodeAuthorizeInv == ASSUME Inv, NEW s \in Slots, MsgCodeAuthorize(s) PROVE Inv'
<1> DEFINE k == msg(s).captcha
<1>0. job[s].at = "login"
  BY DEF MsgCodeAuthorize
<1>1. /\ UNCHANGED <<budget, now, sent, marks, accepted, excused, claims, logins, access, refresh>>
      /\ Goto(s, "user") \/ Abort(s)
      /\ csrf' \subseteq csrf
      /\ \/ solved' = solved
         \/ k \in csrf /\ csrf' = csrf \ {k} /\ solved' = [solved EXCEPT ![k] = @ + 1]
  BY DEF MsgCodeAuthorize, external, GetCsrfToken
<1>2. access' \subseteq 1 .. Len(claims) /\ refresh' \subseteq 1 .. Len(claims)
  BY <1>1 DEF Inv, Typed
<1>3. solved' \in Seq(Nat) /\ csrf' \subseteq 1 .. Len(solved') /\ Captchas'
  <2>1. CASE solved' = solved
    BY <1>1, <2>1, SameCaptchas
  <2>2. CASE k \in csrf /\ csrf' = csrf \ {k} /\ solved' = [solved EXCEPT ![k] = @ + 1]
    <3>1. solved \in Seq(Nat) /\ csrf \subseteq 1 .. Len(solved) /\ k \in 1 .. Len(solved)
      BY <2>2 DEF Inv, Typed
    <3>2. solved[k] = 0
      BY <2>2, <3>1 DEF Inv, Captchas
    <3>3. /\ solved' \in Seq(Nat) /\ Len(solved') = Len(solved) /\ solved'[k] = 1
          /\ \A n \in 1 .. Len(solved) : n # k => solved'[n] = solved[n]
      <4>1. solved' = [solved EXCEPT ![k] = 1]
        BY <2>2, <3>1, <3>2
      <4> QED
        BY <3>1, <4>1
    <3> HIDE DEF k
    <3>4. \A n \in 1 .. Len(solved) : solved[n] <= 1 /\ (n \in csrf => solved[n] = 0)
      BY DEF Inv, Captchas
    <3>5. Captchas'
      BY <2>2, <3>3, <3>4 DEF Captchas
    <3> QED
      BY <2>2, <3>1, <3>3, <3>5
  <2> QED
    BY <1>1, <2>1, <2>2
<1> QED
  BY <1>0, <1>1, <1>2, <1>3, PlainStep DEF Plain
(* The user is known: the login counts for the client of the request.       *)
LEMMA AuthorizeInv == ASSUME Inv, NEW s \in Slots, Authorize(s) PROVE Inv'
<1>0. job[s].at = "user"
  BY DEF Authorize
<1>1. /\ job[s] \in JobSet /\ msg(s) \in MessageSet /\ job \in [Slots -> JobSet]
      /\ msg(s).user \in Users \cup {0}
  BY <1>0, Served DEF MessageSet
<1>2. UNCHANGED <<budget, now, sent, marks, accepted, excused, claims, solved, csrf,
                  access, refresh>>
  BY DEF Authorize, external, redis
<1>3. /\ solved' \in Seq(Nat) /\ csrf' \subseteq 1 .. Len(solved') /\ Captchas'
      /\ access' \subseteq 1 .. Len(claims) /\ refresh' \subseteq 1 .. Len(claims)
  BY <1>2, SameCaptchas DEF Inv, Typed
<1>4. CASE Abort(s) /\ UNCHANGED logins
  BY <1>0, <1>2, <1>3, <1>4, PlainStep DEF Plain
<1>5. CASE /\ job' = [job EXCEPT ![s].at = "issue", ![s].user = msg(s).user]
           /\ logins' = logins \union {<<msg(s).user, msg(s).client>>}
  <2> DEFINE j == [job[s] EXCEPT !.at = "issue", !.user = msg(s).user]
  <2>1. job' = [job EXCEPT ![s] = j]
    BY <1>1, <1>5
  <2>2. /\ j \in JobSet /\ j.at = "issue" /\ j.nonce = job[s].nonce /\ j.pair = job[s].pair
        /\ j.user = msg(s).user
    BY <1>1 DEF JobSet, Places
  <2> HIDE DEF j
  <2>3. msg(s)' = msg(s) /\ job'[s] = j
    BY <1>1, <1>2, <2>1, <2>2 DEF msg
  <2>4. Owner(s)'
    BY <1>5, <2>2, <2>3 DEF Owner
  <2>5. Grows /\ Owners'
    BY <1>2, <1>5 DEF Grows, Owners, Inv, Typed
  <2>6. j.pair <= Len(claims')
    BY <1>2, <2>2 DEF Inv, JobTyped
  <2> QED
    BY <1>0, <1>2, <1>3, <2>1, <2>2, <2>4, <2>5, <2>6, ServeStep
<1> QED
  BY <1>4, <1>5 DEF Authorize

(* A new pair for the user and the client of the request.                   *)
LEMMA GenerateAccessTokenInv ==
    ASSUME Inv, NEW s \in Slots, GenerateAccessToken(s) PROVE Inv'
<1> DEFINE p == Len(claims) + 1
           c == [user |-> job[s].user, client |-> msg(s).client,
                 root |-> IF job[s].root = 0 THEN p ELSE job[s].root]
<1>0. job[s].at = "issue"
  BY DEF GenerateAccessToken
<1>1. job[s] \in JobSet /\ msg(s) \in MessageSet /\ job \in [Slots -> JobSet]
  BY <1>0, Served
<1>2. /\ UNCHANGED <<budget, now, sent, marks, accepted, excused, solved, csrf, refresh, logins>>
      /\ claims' = Append(claims, c) /\ access' \subseteq access \cup {p}
      /\ job' = [job EXCEPT ![s].at = "issue2", ![s].pair = p] \/ Abort(s)
  BY DEF GenerateAccessToken, external, SaveAccessToken
<1>3. claims \in Seq(ClaimSet) /\ Len(claims) \in Nat /\ p \in Nat /\ p # 0
  BY DEF Inv, Typed
<1>4. c \in ClaimSet /\ c.user = job[s].user /\ c.client = msg(s).client
  <2>1. (IF job[s].root = 0 THEN p ELSE job[s].root) \in Nat
    BY <1>1, <1>3 DEF JobSet
  <2>2. job[s].user \in Users \cup {0} /\ msg(s).client \in Clients
    BY <1>1 DEF JobSet, MessageSet
  <2> QED
    BY <2>1, <2>2 DEF ClaimSet
<1> HIDE DEF c
<1>5. /\ claims' \in Seq(ClaimSet) /\ Len(claims') = p /\ claims'[p] = c
      /\ \A q \in 1 .. Len(claims) : claims'[q] = claims[q]
  BY <1>2, <1>3, <1>4
<1>6. Grows
  BY <1>2, <1>3, <1>5 DEF Grows, Inv, Typed
<1>7. Owners'
  <2> SUFFICES ASSUME NEW q \in 1 .. p
               PROVE  <<claims'[q].user, claims'[q].client>> \in logins
    BY <1>2, <1>5 DEF Owners
  <2>1. CASE q = p
    BY <1>0, <1>4, <1>5, <2>1 DEF Inv, Owner
  <2>2. CASE q # p
    <3>1. q \in 1 .. Len(claims)
      BY <1>3, <2>2
    <3> QED
      BY <1>5, <3>1 DEF Inv, Owners
  <2> QED
    BY <2>1, <2>2
<1>8. access' \subseteq 1 .. Len(claims') /\ refresh' \subseteq 1 .. Len(claims')
  <2>1. access \subseteq 1 .. Len(claims) /\ refresh \subseteq 1 .. Len(claims)
    BY DEF Inv, Typed
  <2> QED
    BY <1>2, <1>3, <1>5, <2>1
<1>9. solved' \in Seq(Nat) /\ csrf' \subseteq 1 .. Len(solved') /\ Captchas'
  BY <1>2, SameCaptchas
<1>10. PICK j \in JobSet :
           /\ job' = [job EXCEPT ![s] = j]
           /\ \/ j.at = "issue2" /\ j.nonce = job[s].nonce /\ j.pair = p
              \/ j.at = "idle" /\ j.pair = 0
  <2> DEFINE i == [job[s] EXCEPT !.at = "issue2", !.pair = p]
  <2>1. i \in JobSet /\ i.at = "issue2" /\ i.nonce = job[s].nonce /\ i.pair = p
    BY <1>1, <1>3 DEF JobSet, Places
  <2>2. job' = [job EXCEPT ![s] = i] \/ job' = [job EXCEPT ![s] = NoJob]
    BY <1>1, <1>2 DEF Abort
  <2> HIDE DEF i
  <2> QED
    BY <2>1, <2>2, AbortTyped
<1>11. j.pair <= Len(claims') /\ (j.at = "issue2" => j.pair # 0)
  BY <1>3, <1>5, <1>10
<1>12. Owner(s)'
  BY <1>1, <1>10 DEF Owner
<1> HIDE DEF p
<1> QED
  BY <1>0, <1>2, <1>6, <1>7, <1>8, <1>9, <1>10, <1>11, <1>12, ServeStep

(* The other halves of handlers that only store or revoke tokens.           *)
LEMMA TokensInv ==
    ASSUME Inv, NEW s \in Slots,
           GenerateTokenPair(s) \/ RefreshRevoke(s) \/ LogoutRefresh(s)
    PROVE  Inv'
<1>0. job[s].at \in {"issue2", "refresh", "logout2"}
  BY DEF GenerateTokenPair, RefreshRevoke, LogoutRefresh
<1>1. /\ UNCHANGED <<budget, now, sent, marks, accepted, excused, claims, logins, solved, csrf>>
      /\ access' \subseteq access
      /\ Goto(s, "answer") \/ Goto(s, "refresh2") \/ Abort(s)
  BY DEF GenerateTokenPair, RefreshRevoke, LogoutRefresh, external, RevokeAccessToken
<1>2. refresh' \subseteq refresh \/ (job[s].at = "issue2" /\ refresh' \subseteq refresh \cup {job[s].pair})
  BY DEF GenerateTokenPair, RefreshRevoke, LogoutRefresh, SaveRefreshToken, RevokeRefreshToken
<1>3. job[s].at = "issue2" => job[s].pair \in 1 .. Len(claims)
  <2>1. job[s].pair \in Nat /\ Len(claims) \in Nat
    BY DEF Inv, Typed, JobSet
  <2> QED
    BY <2>1 DEF Inv, JobTyped
<1>4. access' \subseteq 1 .. Len(claims) /\ refresh' \subseteq 1 .. Len(claims)
  BY <1>1, <1>2, <1>3 DEF Inv, Typed
<1>5. solved' \in Seq(Nat) /\ csrf' \subseteq 1 .. Len(solved') /\ Captchas'
  BY <1>1, SameCaptchas
<1> QED
  BY <1>0, <1>1, <1>4, <1>5, PlainStep DEF Plain

(* The owner of the old refresh token is the one the new pair is for.       *)
LEMMA RefreshCredentialInv ==
    ASSUME Inv, NEW s \in Slots, RefreshCredential(s) PROVE Inv'
<1> DEFINE p == msg(s).pair
<1>0. job[s].at = "refresh2"
  BY DEF RefreshCredential
<1>1. job[s] \in JobSet /\ msg(s) \in MessageSet /\ job \in [Slots -> JobSet]
  BY <1>0, Served
<1>2. UNCHANGED <<budget, now, sent, marks, accepted, excused, claims, logins, solved, csrf,
                  access, refresh>>
  BY DEF RefreshCredential, external, redis
<1>3. /\ solved' \in Seq(Nat) /\ csrf' \subseteq 1 .. Len(solved') /\ Captchas'
      /\ access' \subseteq 1 .. Len(claims) /\ refresh' \subseteq 1 .. Len(claims)
  BY <1>2, SameCaptchas DEF Inv, Typed
<1>4. CASE Abort(s)
  BY <1>0, <1>2, <1>3, <1>4, PlainStep DEF Plain
<1>5. CASE /\ p \in refresh /\ claims[p].client = msg(s).client
           /\ job' = [job EXCEPT ![s].at = "refresh3",
                         ![s].user = claims[p].user, ![s].root = claims[p].root]
  <2>1. p \in 1 .. Len(claims)
    BY <1>5 DEF Inv, Typed
  <2>2. /\ claims[p].user \in Users \cup {0} /\ claims[p].root \in Nat
        /\ <<claims[p].user, claims[p].client>> \in logins
    <3>1. claims[p] \in ClaimSet
      BY <2>1 DEF Inv, Typed
    <3> QED
      BY <2>1, <3>1 DEF ClaimSet, Inv, Owners
  <2> DEFINE j == [job[s] EXCEPT !.at = "refresh3", !.user = claims[p].user,
                                 !.root = claims[p].root]
  <2>3. job' = [job EXCEPT ![s] = j]
    BY <1>1, <1>5
  <2>4. /\ j \in JobSet /\ j.at = "refresh3" /\ j.nonce = job[s].nonce /\ j.pair = job[s].pair
        /\ j.user = claims[p].user
    BY <1>1, <2>2 DEF JobSet, Places
  <2> HIDE DEF j
  <2>5. msg(s)' = msg(s) /\ job'[s] = j
    BY <1>1, <1>2, <2>3, <2>4 DEF msg
  <2>6. Owner(s)'
    <3>2. job'[s].user = claims[p].user
      BY <2>4, <2>5
    <3>3. msg(s)'.client = claims[p].client
      BY <1>5, <2>5
    <3>4. logins' = logins
      BY <1>2
    <3>1. <<job'[s].user, msg(s)'.client>> \in logins'
      BY <2>2, <3>2, <3>3, <3>4
    <3> QED
      BY <2>4, <2>5, <3>1 DEF Owner
  <2>7. Grows /\ Owners'
    BY <1>2, SameGrows
  <2>8. j.pair <= Len(claims')
    BY <1>2, <2>4 DEF Inv, JobTyped
  <2> QED
    BY <1>0, <1>2, <1>3, <2>3, <2>4, <2>6, <2>7, <2>8, ServeStep
<1> QED
  BY <1>4, <1>5 DEF RefreshCredential, GetRefreshTokenCredential, IsClaimsValid

(* A request keeps the owner it has.                                        *)
LEMMA KeepsOwnerInv ==
    ASSUME Inv, NEW s \in Slots, RefreshRotate(s) \/ LogoutAccess(s) PROVE Inv'
<1>0. job[s].at \in {"refresh3", "logout"}
  BY DEF RefreshRotate, LogoutAccess
<1>1. job[s] \in JobSet /\ msg(s) \in MessageSet /\ job \in [Slots -> JobSet]
  BY <1>0, Served
<1>2. /\ UNCHANGED <<budget, now, sent, marks, accepted, excused, claims, logins, solved, csrf>>
      /\ access' \subseteq access /\ refresh' \subseteq refresh
  BY DEF RefreshRotate, LogoutAccess, external, RevokeAccessToken, RevokeRefreshToken
<1>3. /\ solved' \in Seq(Nat) /\ csrf' \subseteq 1 .. Len(solved') /\ Captchas'
      /\ access' \subseteq 1 .. Len(claims) /\ refresh' \subseteq 1 .. Len(claims)
  BY <1>2, SameCaptchas DEF Inv, Typed
<1>4. CASE Abort(s)
  BY <1>0, <1>2, <1>3, <1>4, PlainStep DEF Plain
<1>5. ASSUME NEW at \in {"issue", "logout2"}, Goto(s, at),
             at = "issue" => job[s].at = "refresh3", at = "logout2" => job[s].at = "logout"
      PROVE  Inv'
  <2> DEFINE j == [job[s] EXCEPT !.at = at]
  <2>1. job' = [job EXCEPT ![s] = j]
    BY <1>1, <1>5 DEF Goto
  <2>2. /\ j \in JobSet /\ j.at = at /\ j.nonce = job[s].nonce /\ j.pair = job[s].pair
        /\ j.user = job[s].user
    <3>1. at \in Places
      BY DEF Places
    <3> QED
      BY <1>1, <3>1, GotoTyped
  <2> HIDE DEF j
  <2>3. msg(s)' = msg(s) /\ job'[s] = j
    BY <1>1, <1>2, <2>1, <2>2 DEF msg
  <2>4. Owner(s)
    BY DEF Inv
  <2>5. Owner(s)'
    <3>1. /\ at = "logout2" => /\ msg(s).pair \in 1 .. Len(claims)
                               /\ claims[msg(s).pair].client = msg(s).client
          /\ at = "issue" => <<job[s].user, msg(s).client>> \in logins
      BY <1>5, <2>4 DEF Owner
    <3> QED
      BY <1>2, <2>2, <2>3, <3>1 DEF Owner
  <2>6. Grows /\ Owners'
    BY <1>2, SameGrows
  <2>7. j.pair <= Len(claims') /\ j.at # "issue2"
    BY <1>2, <2>2 DEF Inv, JobTyped
  <2> QED
    BY <1>0, <1>2, <1>3, <2>1, <2>2, <2>5, <2>6, <2>7, ServeStep
<1> QED
  BY <1>4, <1>5 DEF RefreshRotate, LogoutAccess
LEMMA AnswerInv ==
    ASSUME Inv, NEW s \in Slots, EncryptAnswer(s) \/ SignAnswer(s) PROVE Inv'
<1>0. job[s].at # "idle"
  BY DEF EncryptAnswer, SignAnswer
<1>1. /\ UNCHANGED <<budget, now, sent, marks, accepted, excused, claims, logins, solved, csrf,
                     access, refresh>>
      /\ Goto(s, "sign") \/ Abort(s)
  BY DEF EncryptAnswer, SignAnswer, external, redis, history
<1>2. /\ solved' \in Seq(Nat) /\ csrf' \subseteq 1 .. Len(solved') /\ Captchas'
      /\ access' \subseteq 1 .. Len(claims) /\ refresh' \subseteq 1 .. Len(claims)
  BY <1>1, SameCaptchas DEF Inv, Typed
<1> QED
  BY <1>0, <1>1, <1>2, PlainStep DEF Plain

(* The mark of a message that passes lives as long as the message may       *)
(* arrive again and pass, if it was not there in the second it was sent.    *)
LEMMA MarkedStep ==
    ASSUME Inv, NEW n \in 1 .. budget.sent, NEW m \in MessageSet,
           UNCHANGED <<budget, now>>,
           sent' \in Seq(MessageSet), n <= Len(sent'), sent'[n] = m, Len(sent) <= Len(sent'),
           \A k \in 1 .. Len(sent) : sent'[k] = sent[k],
           \A k \in 1 .. Len(sent') : k \in 1 .. Len(sent) \/ k = n,
           \A k \in 1 .. budget.sent : k # n =>
               accepted'[k] = accepted[k] /\ marks'[k] = marks[k],
           excused \subseteq excused',
           \/ accepted'[n] = accepted[n] /\ marks'[n] = marks[n]
           \/ n \in excused'
           \/ /\ ~TooOld(m) /\ marks[n] = 0 /\ m.ts < now
              /\ marks'[n] = now + MaxInterval /\ accepted'[n] = accepted[n] + 1
    PROVE  Marked'
<1>0. /\ now \in Nat /\ MaxInterval \in Nat /\ MaxInterval # 0 /\ budget.sent \in Nat
      /\ m.ts \in Int /\ Len(sent) \in Nat /\ Len(sent') \in Nat
      /\ Len(sent) <= budget.sent
  BY Numbers DEF MessageSet
<1>1. \A k \in 1 .. Len(sent) : Once(k)
  BY DEF Inv, Marked
<1>2. \A k \in 1 .. budget.sent : k > Len(sent) => accepted[k] = 0
  BY DEF Inv, Marked
<1>3. ASSUME NEW k \in 1 .. Len(sent), k # n PROVE Once(k)'
  <2>1. k \in 1 .. budget.sent /\ sent'[k] = sent[k]
    BY <1>0, <1>3
  <2>2. accepted'[k] = accepted[k] /\ marks'[k] = marks[k]
    BY <1>3, <2>1
  <2> QED
    BY <1>1, <2>1, <2>2 DEF Once, TooOld
<1>4. Once(n)'
  <2>1. CASE accepted'[n] = accepted[n] /\ marks'[n] = marks[n]
    <3>1. CASE n \in 1 .. Len(sent)
      BY <1>1, <2>1, <3>1 DEF Once, TooOld
    <3>2. CASE n \notin 1 .. Len(sent)
      <4>1. accepted[n] = 0
        BY <1>0, <1>2, <3>2
      <4> QED
        BY <2>1, <4>1 DEF Once
    <3> QED
      BY <3>1, <3>2
  <2>2. CASE n \in excused'
    BY <2>2 DEF Once
  <2>3. CASE /\ ~TooOld(m) /\ marks[n] = 0 /\ m.ts < now /\ n \notin excused'
             /\ marks'[n] = now + MaxInterval /\ accepted'[n] = accepted[n] + 1
    <3>1. accepted[n] = 0
      <4>1. CASE n \in 1 .. Len(sent)
        <5>1. sent[n] = m
          BY <4>1
        <5> QED
          BY <1>1, <2>3, <4>1, <5>1 DEF Once
      <4>2. CASE n \notin 1 .. Len(sent)
        BY <1>0, <1>2, <4>2
      <4> QED
        BY <4>1, <4>2
    <3>2. accepted'[n] = 1 /\ marks'[n] # 0 /\ marks'[n] > m.ts + MaxInterval
      BY <1>0, <2>3, <3>1
    <3> QED
      BY <3>2 DEF Once
  <2> QED
    BY <2>1, <2>2, <2>3
<1>5. \A k \in 1 .. Len(sent') : Once(k)'
  BY <1>3, <1>4
<1>6. \A k \in 1 .. budget.sent : k > Len(sent') => accepted'[k] = 0
  BY <1>0, <1>2
<1> QED
  BY <1>5, <1>6 DEF Marked

LEMMA ReplayInv ==
    ASSUME Inv, NEW s \in Slots, NEW n \in 1 .. budget.sent, NEW m \in MessageSet,
           job[s].at = "idle", IsReplayRequest(s, n, m),
           UNCHANGED <<budget, now, csrf, access, refresh, claims, logins, solved>>,
           sent' \in Seq(MessageSet), n <= Len(sent'), sent'[n] = m, Len(sent) <= Len(sent'),
           Len(sent') <= budget.sent,
           \A k \in 1 .. Len(sent) : sent'[k] = sent[k],
           \A k \in 1 .. Len(sent') : k \in 1 .. Len(sent) \/ k = n
    PROVE  Inv'
<1>0. /\ marks \in [1 .. budget.sent -> Nat] /\ accepted \in [1 .. budget.sent -> Nat]
      /\ now + MaxInterval \in Nat /\ job \in [Slots -> JobSet] /\ now \in Nat
      /\ m.ts \in Int /\ budget.sent \in Nat /\ Len(sent') \in Nat
  <2>1. /\ marks \in [1 .. budget.sent -> Nat] /\ accepted \in [1 .. budget.sent -> Nat]
        /\ job \in [Slots -> JobSet]
    BY DEF Inv, Typed
  <2>2. m.ts \in Int
    BY DEF MessageSet
  <2>3. Len(sent') \in Nat
    OBVIOUS
  <2>4. now + MaxInterval \in Nat /\ now \in Nat /\ budget.sent \in Nat
    BY Numbers
  <2> QED
    BY <2>1, <2>2, <2>3, <2>4
<1>1. Grows
  BY Numbers DEF Grows
<1>2. Owners' /\ Captchas'
  BY DEF Inv, Owners, Captchas
<1>3. \/ UNCHANGED <<job, marks, accepted, excused>>
      \/ \E e \in BOOLEAN :
         /\ Pass(s, n, e)
         /\ marks' = marks \/ marks' = [marks EXCEPT ![n] = now + MaxInterval]
         /\ e \/ /\ ~TooOld(m) /\ marks[n] = 0 /\ m.ts < now
                 /\ marks' = [marks EXCEPT ![n] = now + MaxInterval]
  <2>1. (m.ts >= now) \in BOOLEAN /\ ((m.ts >= now) \/ m.ts < now)
    BY <1>0
  <2> QED
    BY <2>1 DEF IsReplayRequest, Reject, MarkExpiry
<1>4. CASE UNCHANGED <<job, marks, accepted, excused>>
  <2>1. Marked'
    BY <1>4, MarkedStep
  <2>2. Typed'
    BY <1>1, <1>4 DEF Inv, Typed, Grows
  <2>3. \A d \in Slots : JobTyped(d)' /\ Owner(d)'
    BY <1>1, <1>4, OtherJob
  <2> QED
    BY <1>2, <2>1, <2>2, <2>3 DEF Inv
<1>5. ASSUME NEW e \in BOOLEAN, Pass(s, n, e),
             marks' = marks \/ marks' = [marks EXCEPT ![n] = now + MaxInterval],
             e \/ /\ ~TooOld(m) /\ marks[n] = 0 /\ m.ts < now
                  /\ marks' = [marks EXCEPT ![n] = now + MaxInterval]
      PROVE  Inv'
  <2> DEFINE j == [NoJob EXCEPT !.at = "auth", !.nonce = n]
  <2>1. /\ job' = [job EXCEPT ![s] = j]
        /\ accepted' = [accepted EXCEPT ![n] = accepted[n] + 1]
        /\ excused' = IF e THEN excused \union {n} ELSE excused
    BY <1>5 DEF Pass
  <2>2. j \in JobSet /\ j.at = "auth" /\ j.nonce = n /\ j.pair = 0
    <3>1. n \in Nat
      OBVIOUS
    <3> QED
      BY <3>1 DEF NoJob, JobSet, Places
  <2> HIDE DEF j
  <2>3. job' \in [Slots -> JobSet] /\ job'[s] = j /\ \A d \in Slots \ {s} : job'[d] = job[d]
    BY <1>0, <2>1, <2>2
  <2>4. /\ accepted' \in [1 .. budget.sent -> Nat] /\ accepted'[n] = accepted[n] + 1
        /\ marks' \in [1 .. budget.sent -> Nat]
        /\ \A k \in 1 .. budget.sent : k # n =>
              accepted'[k] = accepted[k] /\ marks'[k] = marks[k]
    <3>1. accepted[n] \in Nat
      BY <1>0
    <3>2. /\ accepted' \in [1 .. budget.sent -> Nat] /\ accepted'[n] = accepted[n] + 1
          /\ \A k \in 1 .. budget.sent : k # n => accepted'[k] = accepted[k]
      BY <1>0, <2>1, <3>1
    <3>3. /\ marks' \in [1 .. budget.sent -> Nat]
          /\ \A k \in 1 .. budget.sent : k # n => marks'[k] = marks[k]
      BY <1>0, <1>5
    <3> QED
      BY <3>2, <3>3
  <2>5. Typed'
    BY <1>1, <2>3, <2>4 DEF Inv, Typed, Grows
  <2>6. \A d \in Slots \ {s} : JobTyped(d)' /\ Owner(d)'
    BY <1>1, <2>3, OtherJob
  <2>7. JobTyped(s)' /\ Owner(s)'
    <3>1. n \in 1 .. Len(sent') /\ 0 <= Len(claims')
      BY <1>0, <1>1 DEF Grows
    <3> QED
      BY <2>2, <2>3, <3>1 DEF JobTyped, Owner
  <2>8. Marked'
    <3>1. excused \subseteq excused' /\ (e => n \in excused')
      BY <2>1
    <3>2. \/ n \in excused'
          \/ /\ ~TooOld(m) /\ marks[n] = 0 /\ m.ts < now
             /\ marks'[n] = now + MaxInterval /\ accepted'[n] = accepted[n] + 1
      BY <1>0, <1>5, <2>4, <3>1
    <3> QED
      BY <2>4, <3>1, <3>2, MarkedStep
  <2> QED
    BY <1>2, <2>5, <2>6, <2>7, <2>8 DEF Inv
<1> QED
  BY <1>3, <1>4, <1>5

LEMMA MessagesTyped == ASSUME Inv PROVE Messages \subseteq MessageSet
<1>0. /\ budget.kinds \subseteq Kinds /\ budget.flaws \subseteq Flaws /\ budget.ages \subseteq 0 .. 2
      /\ budget.clients \subseteq Clients
  BY DEF Inv, Typed, Budget, Kinds, Flaws
<1>1. now \in Nat /\ Len(claims) \in Nat /\ DOMAIN solved \subseteq Nat
  BY DEF Inv, Typed
<1>2. {now - a : a \in budget.ages} \subseteq Int
  BY <1>0, <1>1
<1>3. 0 .. Len(claims) \subseteq Nat
  BY <1>1
<1> DEFINE T == {now - a : a \in budget.ages}
<1> HIDE DEF T
<1>4. T \subseteq Int
  BY <1>2 DEF T
<1> QED
  BY <1>0, <1>1, <1>3, <1>4 DEF Messages, MessageSet, T

LEMMA ArriveInv ==
    ASSUME Inv, NEW s \in Slots, Arrive(s) \/ ArriveAgain(s) PROVE Inv'
<1>0. /\ sent \in Seq(MessageSet) /\ Len(sent) \in Nat /\ Len(sent) <= budget.sent
      /\ budget.sent \in Nat
  BY DEF Inv, Typed, Budget
<1>1. CASE Arrive(s)
  <2>1. PICK m \in Messages : sent' = Append(sent, m) /\ IsReplayRequest(s, Len(sent) + 1, m)
    BY <1>1 DEF Arrive
  <2>2. m \in MessageSet
    BY MessagesTyped
  <2>3. Len(sent) < budget.sent /\ job[s].at = "idle"
    BY <1>1 DEF Arrive
  <2>4. UNCHANGED <<budget, now, csrf, access, refresh, claims, logins, solved>>
    BY <1>1 DEF Arrive
  <2> DEFINE n == Len(sent) + 1
  <2>5. /\ sent' \in Seq(MessageSet) /\ Len(sent') = n /\ sent'[n] = m
        /\ \A k \in 1 .. Len(sent) : sent'[k] = sent[k]
    BY <1>0, <2>1, <2>2
  <2>6. /\ n \in 1 .. budget.sent /\ n <= Len(sent') /\ Len(sent) <= Len(sent')
        /\ Len(sent') <= budget.sent
        /\ \A k \in 1 .. Len(sent') : k \in 1 .. Len(sent) \/ k = n
    BY <1>0, <2>3, <2>5
  <2>7. IsReplayRequest(s, n, m)
    BY <2>1
  <2> HIDE DEF n
  <2> QED
    BY <2>2, <2>3, <2>4, <2>5, <2>6, <2>7, ReplayInv
<1>2. CASE ArriveAgain(s)
  <2>1. PICK n \in 1 .. Len(sent) : IsReplayRequest(s, n, sent[n])
    BY <1>2 DEF ArriveAgain
  <2>2. /\ UNCHANGED <<budget, now, csrf, access, refresh, claims, logins, solved, sent>>
        /\ job[s].at = "idle"
    BY <1>2 DEF ArriveAgain
  <2>3. sent[n] \in MessageSet
    BY <1>0
  <2>4. n \in 1 .. budget.sent /\ n <= Len(sent)
    BY <1>0
  <2> QED
    BY <1>0, <2>1, <2>2, <2>3, <2>4, ReplayInv
<1> QED
  BY <1>1, <1>2

(* A mark that ends leaves a message that is too old.                       *)
LEMMA TickInv == ASSUME Inv, Tick PROVE Inv'
<1>0. /\ now \in Nat /\ marks \in [1 .. budget.sent -> Nat] /\ MaxInterval \in Nat
      /\ sent \in Seq(MessageSet) /\ Len(sent) <= budget.sent /\ Len(sent) \in Nat
      /\ budget.sent \in Nat
  BY RequestsAssumption DEF Inv, Typed, Budget
<1>1. /\ now' = now + 1
      /\ marks' = [n \in DOMAIN marks |-> IF marks[n] <= now + 1 THEN 0 ELSE marks[n]]
      /\ UNCHANGED <<budget, sent, csrf, access, refresh, claims, job, accepted, excused,
                     logins, solved>>
  BY DEF Tick, history
<1>2. marks' \in [1 .. budget.sent -> Nat]
  BY <1>0, <1>1
<1>3. Typed'
  BY <1>0, <1>1, <1>2 DEF Inv, Typed
<1>4. \A s \in Slots : JobTyped(s)' /\ Owner(s)'
  BY <1>1, SameGrows, OtherJob
<1>5. Captchas' /\ Owners'
  BY <1>1 DEF Inv, Captchas, Owners
<1>6. ASSUME NEW n \in 1 .. Len(sent) PROVE Once(n)'
  <2>1. n \in 1 .. budget.sent /\ sent[n].ts \in Int
    <3>1. sent[n] \in MessageSet
      BY <1>0
    <3> QED
      BY <1>0, <3>1 DEF MessageSet
  <2>2. marks[n] \in Nat /\ marks'[n] = IF marks[n] <= now + 1 THEN 0 ELSE marks[n]
    BY <1>0, <1>1, <2>1
  <2>3. Once(n)
    BY DEF Inv, Marked
  <2> QED
    BY <1>0, <1>1, <2>1, <2>2, <2>3 DEF Once, TooOld
<1>7. Marked'
  BY <1>1, <1>6 DEF Inv, Marked
<1> QED
  BY <1>3, <1>4, <1>5, <1>7 DEF Inv

LEMMA ExpireInv == ASSUME Inv, Expire \/ UNCHANGED vars PROVE Inv'
<1>1. /\ UNCHANGED <<budget, now, sent, marks, claims, job, accepted, excused, logins, solved>>
      /\ csrf' \subseteq csrf /\ access' \subseteq access /\ refresh' \subseteq refresh
  BY DEF Expire, vars, external, redis, history
<1>2. Typed' /\ Captchas' /\ Owners'
  BY <1>1 DEF Inv, Typed, Captchas, Owners
<1>3. Marked'
  BY <1>1 DEF Inv, Marked, Once, TooOld
<1>4. \A s \in Slots : JobTyped(s)' /\ Owner(s)'
  BY <1>1, SameGrows, OtherJob
<1> QED
  BY <1>2, <1>3, <1>4 DEF Inv

LEMMA NextInv == Inv /\ [Next]_vars => Inv'
<1> SUFFICES ASSUME Inv, [Next]_vars PROVE Inv'
  OBVIOUS
<1>1. ASSUME NEW s \in Slots, Arrive(s) \/ ArriveAgain(s) \/ Serve(s) PROVE Inv'
  BY <1>1, ArriveInv, AuthInv, PrepareLoginInv, MsgCodeAuthorizeInv, AuthorizeInv,
     GenerateAccessTokenInv, TokensInv, RefreshCredentialInv, KeepsOwnerInv, AnswerInv
     DEF Serve
<1>2. CASE Horizon
  BY <1>2, ExpireInv DEF Horizon
<1> QED
  BY <1>1, <1>2, TickInv, ExpireInv DEF Next

LEMMA Invariance == Spec => []Inv
BY InitInv, NextInv, PTL DEF Spec

-----------------------------------------------------------------------------
(* A message passes the replay test once, however often it arrives, unless  *)
(* Redis failed or it arrived in the second of its timestamp.               *)
THEOREM ReplaysAreRejected == Spec => []AcceptedOnce
<1>1. Inv => AcceptedOnce
  <2> SUFFICES ASSUME Inv, NEW n \in 1 .. Len(sent), n \notin excused PROVE accepted[n] <= 1
    BY DEF AcceptedOnce
  <2>1. Once(n) /\ n \in 1 .. budget.sent /\ accepted[n] \in Nat
    <3>1. n \in 1 .. budget.sent
      BY Numbers
    <3> QED
      BY <3>1 DEF Inv, Marked, Typed
  <2> QED
    BY <2>1 DEF Once
<1> QED
  BY <1>1, Invariance, PTL

(* A handler behind authentication runs as a user who logged in from the    *)
(* client of the request, however often tokens were rotated in between.     *)
THEOREM HandlersRunAsOwner == Spec => []RunsAsOwner
<1>1. Inv => RunsAsOwner
  <2> SUFFICES ASSUME Inv, NEW s \in Slots, job[s].at \in {"info", "logout"}
               PROVE  <<claims[msg(s).pair].user, msg(s).client>> \in logins
    BY DEF RunsAsOwner
  <2>1. msg(s).pair \in 1 .. Len(claims) /\ claims[msg(s).pair].client = msg(s).client
    BY DEF Inv, Owner
  <2> QED
    BY <2>1 DEF Inv, Owners
<1> QED
  BY <1>1, Invariance, PTL

(* A captcha lets one login pass, however logins and copies interleave.     *)
THEOREM CaptchasAreUsedOnce == Spec => []CaptchaUsedOnce
<1>1. Inv => CaptchaUsedOnce
  <2> SUFFICES ASSUME Inv PROVE \A n \in DOMAIN solved : solved[n] <= 1
    BY DEF CaptchaUsedOnce
  <2>1. DOMAIN solved = 1 .. Len(solved)
    BY DEF Inv, Typed
  <2> QED
    BY <2>1 DEF Inv, Captchas
<1> QED
  BY <1>1, Invariance, PTL

-----------------------------------------------------------------------------(* Sessions.  A session is named by its first pair, the root in the claims. *)

(* The pairs of session r of which a token is stored.                       *)
Live(r) == {q \in access \cup refresh : claims[q].root = r}

(* The request in slot s changes the session of client c.                   *)
Busy(s, c) == job[s].at # "idle" /\ msg(s).client = c /\ msg(s).kind \in SessionKinds

(* Where a request is, by its kind, and what it carries there.              *)
Placed(s) ==
    job[s].at # "idle" =>
        /\ job[s].at \in {"prepare", "info"} => msg(s).kind = job[s].at
        /\ job[s].at \in {"login", "user"} => msg(s).kind = "login"
        /\ job[s].at \in {"refresh", "refresh2", "refresh3"} => msg(s).kind = "refresh"
        /\ job[s].at \in {"logout", "logout2"} => msg(s).kind = "logout"
        /\ job[s].at \in {"issue", "issue2"} => msg(s).kind \in {"login", "refresh"}
        /\ job[s].pair # 0 =>
              /\ msg(s).kind \in {"login", "refresh"}
              /\ job[s].at \in {"issue2", "answer", "sign"}
              /\ claims[job[s].pair].client = msg(s).client
        /\ msg(s).kind = "login" => job[s].root = 0
        /\ msg(s).kind = "refresh" /\ job[s].at \in {"refresh3", "issue"} =>
              /\ msg(s).pair \in 1 .. Len(claims)
              /\ claims[msg(s).pair].client = msg(s).client
              /\ job[s].root = claims[msg(s).pair].root

(* The root is the session's first pair, of the same client.                *)
Roots ==
    /\ \A p \in 1 .. Len(claims) : /\ claims[p].root \in 1 .. p
                                   /\ claims[claims[p].root].client = claims[p].client
    /\ loggedOut \subseteq 1 .. Len(claims)

(* What holds while the request in slot s changes a session of c: of the    *)
(* session that it issues a pair for nothing else is stored, that of the    *)
(* pair it presents has no other pair once its token was found, and the     *)
(* access token of this pair is gone once it was revoked.                   *)
Turn(s, c) ==
    Busy(s, c) =>
        /\ job[s].pair # 0 =>
              /\ Live(claims[job[s].pair].root) \subseteq {job[s].pair}
              /\ claims[job[s].pair].root \notin loggedOut
        /\ job[s].at \in {"refresh2", "refresh3", "logout2"} =>
              msg(s).pair \notin access \/ claims[msg(s).pair].client # c
        /\ job[s].at \in {"refresh3", "logout", "logout2"} =>
              Live(claims[msg(s).pair].root) \subseteq {msg(s).pair}
        /\ job[s].at \in {"refresh3", "issue"} => job[s].root \notin loggedOut
        /\ job[s].at = "issue" => Live(job[s].root) = {}

(* Nothing is stored of the sessions of c that ended.                       *)
Ended(c) == \A r \in loggedOut : claims[r].client = c => Live(r) = {}

(* Of each session of c the tokens of one pair at most are stored.          *)
One(c) ==
    \A p, q \in access \cup refresh :
        claims[p].client = c /\ claims[p].root = claims[q].root => p = q

(* A client whose requests did not overlap and for whom Redis revoked every *)
(* token it was told to: one request at a time changes its sessions.        *)
Quiet(c) ==
    /\ \A s, d \in Slots : Busy(s, c) /\ Busy(d, c) => s = d
    /\ \A s \in Slots : Turn(s, c)
    /\ Ended(c) /\ One(c)

Sessions ==
    /\ Roots
    /\ \A s \in Slots : Placed(s)
    /\ \A c \in WebClients \ upset : Quiet(c)

LEMMA InitSessions == Init => Sessions
<1> SUFFICES ASSUME Init PROVE Sessions
  OBVIOUS
<1>1. /\ Len(claims) = 0 /\ loggedOut = {} /\ access = {} /\ refresh = {}
      /\ \A s \in Slots : job[s] = NoJob
  BY DEF Init
<1>2. ASSUME NEW s \in Slots PROVE job[s].at = "idle"
  <2>1. job[s] = NoJob
    BY <1>1
  <2> QED
    BY <2>1 DEF NoJob
<1>3. Roots
  BY <1>1 DEF Roots
<1>4. \A s \in Slots : Placed(s)
  BY <1>2 DEF Placed
<1>5. ASSUME NEW c PROVE Quiet(c)
  <2>1. Ended(c) /\ One(c)
    BY <1>1 DEF Ended, One
  <2>2. \A s \in Slots : ~Busy(s, c)
    BY <1>2 DEF Busy
  <2> QED
    BY <2>1, <2>2 DEF Quiet, Turn
<1> QED
  BY <1>3, <1>4, <1>5 DEF Sessions

-----------------------------------------------------------------------------
(* What a step leaves alone.                                                *)

(* A job that is not changed has its message.                               *)
LEMMA SameMsg ==
    ASSUME Inv, Grows, NEW d \in Slots, job[d].at # "idle", job'[d].nonce = job[d].nonce
    PROVE  msg(d)' = msg(d)
<1>1. job[d].nonce \in 1 .. Len(sent)
  BY DEF Inv, JobTyped
<1> QED
  BY <1>1 DEF Grows, msg

LEMMA OtherPlaced ==
    ASSUME Inv, Grows, NEW d \in Slots, job'[d] = job[d], Placed(d)
    PROVE  Placed(d)'
<1>1. CASE job[d].at = "idle"
  BY <1>1 DEF Placed
<1>2. CASE job[d].at # "idle"
  <2>1. msg(d)' = msg(d)
    BY <1>2, SameMsg
  <2>2. job[d].pair \in Nat /\ job[d].pair <= Len(claims)
    BY DEF Inv, Typed, JobTyped, JobSet
  <2>3. job[d].pair # 0 => claims'[job[d].pair] = claims[job[d].pair]
    BY <2>2, Numbers DEF Grows
  <2>4. msg(d).pair \in 1 .. Len(claims) =>
          msg(d).pair \in 1 .. Len(claims') /\ claims'[msg(d).pair] = claims[msg(d).pair]
    BY Numbers DEF Grows
  <2> QED
    BY <1>2, <2>1, <2>3, <2>4 DEF Placed
<1> QED
  BY <1>1, <1>2

LEMMA OtherBusy ==
    ASSUME Inv, Grows, NEW d \in Slots, job'[d] = job[d], NEW c
    PROVE  Busy(d, c)' <=> Busy(d, c)
<1>1. CASE job[d].at = "idle"
  BY <1>1 DEF Busy
<1>2. CASE job[d].at # "idle"
  BY <1>2, SameMsg DEF Busy
<1> QED
  BY <1>1, <1>2

(* Roots and the pairs that exist.                                          *)
LEMMA RootFacts ==
    ASSUME Inv, Sessions, NEW p \in 1 .. Len(claims)
    PROVE  /\ claims[p].root \in 1 .. Len(claims) /\ claims[p].root # 0
           /\ claims[claims[p].root].client = claims[p].client
           /\ claims[p].root <= p
<1>1. claims[p].root \in 1 .. p /\ claims[claims[p].root].client = claims[p].client
  BY DEF Sessions, Roots
<1>2. Len(claims) \in Nat
  BY Numbers
<1> QED
  BY <1>1, <1>2

LEMMA NoRootZero ==
    ASSUME Inv, Sessions
    PROVE  Live(0) = {} /\ 0 \notin loggedOut
<1>1. \A q \in access \cup refresh : q \in 1 .. Len(claims)
  BY DEF Inv, Typed
<1>2. \A q \in access \cup refresh : claims[q].root # 0
  BY <1>1, RootFacts
<1>3. Live(0) = {}
  BY <1>2 DEF Live
<1>4. 0 \notin loggedOut
  BY DEF Sessions, Roots
<1> QED
  BY <1>3, <1>4

(* A step stores no token of client c and ends none of its sessions.        *)
Spares(c) ==
    /\ \A p \in access' : claims'[p].client = c => p \in access
    /\ \A p \in refresh' : claims'[p].client = c => p \in refresh
    /\ \A r \in loggedOut' : claims'[r].client = c => r \in loggedOut

LEMMA SparesAll ==
    ASSUME UNCHANGED loggedOut, access' \subseteq access, refresh' \subseteq refresh
    PROVE  \A c : Spares(c)
BY DEF Spares

(* Its sessions, and the one not yet begun, have no more pairs than before. *)
LEMMA SparedSession ==
    ASSUME Inv, Inv', Sessions, Grows, Roots', NEW c, Spares(c),
           NEW r, r = 0 \/ (r \in 1 .. Len(claims) /\ claims[r].client = c)
    PROVE  /\ Live(r)' \subseteq Live(r)
           /\ r \in loggedOut' => r \in loggedOut
<1>1. \A q \in access' \cup refresh' : q \in 1 .. Len(claims')
  BY DEF Inv, Typed
<1>2. \A q \in access \cup refresh : q \in 1 .. Len(claims) /\ claims'[q] = claims[q]
  BY DEF Inv, Typed, Grows
<1>3. loggedOut' \subseteq 1 .. Len(claims') /\ Len(claims') \in Nat
  BY DEF Roots, Inv, Typed
<1>4. ASSUME r \in 1 .. Len(claims), claims[r].client = c
      PROVE  Live(r)' \subseteq Live(r) /\ (r \in loggedOut' => r \in loggedOut)
  <2>1. claims'[r].client = c
    BY <1>4 DEF Grows
  <2>2. ASSUME NEW q \in access' \cup refresh', claims'[q].root = r
        PROVE  q \in access \cup refresh
    <3>1. claims'[q].client = c
      BY <1>1, <2>1, <2>2 DEF Roots
    <3> QED
      BY <3>1 DEF Spares
  <2>3. Live(r)' \subseteq Live(r)
    BY <1>2, <2>2 DEF Live
  <2>4. r \in loggedOut' => r \in loggedOut
    BY <2>1 DEF Spares
  <2> QED
    BY <2>3, <2>4
<1>5. CASE r = 0
  <2>1. \A q \in access' \cup refresh' : claims'[q].root # 0
    <3> SUFFICES ASSUME NEW q \in access' \cup refresh' PROVE claims'[q].root # 0
      OBVIOUS
    <3>1. q \in 1 .. Len(claims') /\ claims'[q].root \in 1 .. q
      BY <1>1 DEF Roots
    <3> QED
      BY <3>1
  <2> QED
    BY <1>3, <1>5, <2>1 DEF Live
<1> QED
  BY <1>4, <1>5

(* A step of others leaves a request of client c its turn.                  *)
LEMMA OtherTurn ==
    ASSUME Inv, Inv', Sessions, Grows, Roots', NEW c \in Clients,
           NEW d \in Slots, Turn(d, c), job'[d] = job[d], Spares(c)
    PROVE  Turn(d, c)'
<1> SUFFICES ASSUME Busy(d, c)' PROVE Turn(d, c)'
  BY DEF Turn
<1>1. Busy(d, c) /\ job[d].at # "idle" /\ msg(d).client = c
  BY OtherBusy DEF Busy
<1>2. msg(d)' = msg(d)
  BY <1>1, SameMsg
<1>3. Placed(d) /\ Placed(d)'
  BY OtherPlaced DEF Sessions
<1>4. (job[d].pair # 0 =>
         /\ Live(claims[job[d].pair].root) \subseteq {job[d].pair}
         /\ claims[job[d].pair].root \notin loggedOut)'
  <2> SUFFICES ASSUME job[d].pair # 0
               PROVE  (/\ Live(claims[job[d].pair].root) \subseteq {job[d].pair}
                       /\ claims[job[d].pair].root \notin loggedOut)'
    OBVIOUS
  <2>1. PICK p : p = job[d].pair
    OBVIOUS
  <2>2. p \in 1 .. Len(claims)
    <3>1. job[d].pair \in Nat /\ job[d].pair <= Len(claims)
      BY DEF Inv, Typed, JobTyped, JobSet
    <3> QED
      BY <2>1, <3>1, Numbers
  <2>3. claims'[p] = claims[p] /\ claims[p].client = c
    BY <1>1, <1>3, <2>1, <2>2 DEF Placed, Grows
  <2>4. PICK r : r = claims[p].root
    OBVIOUS
  <2>5. r \in 1 .. Len(claims) /\ claims[r].client = c
    BY <2>2, <2>3, <2>4, RootFacts
  <2>6. Live(r)' \subseteq Live(r) /\ (r \in loggedOut' => r \in loggedOut)
    BY <2>5, SparedSession
  <2>7. Live(r) \subseteq {p} /\ r \notin loggedOut
    BY <1>1, <2>1, <2>4 DEF Turn
  <2>8. Live(r)' \subseteq {p} /\ r \notin loggedOut'
    BY <2>6, <2>7
  <2> QED
    BY <2>1, <2>3, <2>4, <2>8 DEF Live
<1>5. (job[d].at \in {"refresh2", "refresh3", "logout2"} =>
         msg(d).pair \notin access \/ claims[msg(d).pair].client # c)'
  <2> SUFFICES ASSUME job[d].at \in {"refresh2", "refresh3", "logout2"},
                      msg(d).pair \in access', claims'[msg(d).pair].client = c
               PROVE  FALSE
    BY <1>2
  <2>1. msg(d).pair \in access
    BY DEF Spares
  <2>2. claims'[msg(d).pair] = claims[msg(d).pair]
    BY <2>1 DEF Inv, Typed, Grows
  <2> QED
    BY <1>1, <2>1, <2>2 DEF Turn
<1>6. (job[d].at \in {"refresh3", "logout", "logout2"} =>
         Live(claims[msg(d).pair].root) \subseteq {msg(d).pair})'
  <2> SUFFICES ASSUME job[d].at \in {"refresh3", "logout", "logout2"}
               PROVE  (Live(claims[msg(d).pair].root) \subseteq {msg(d).pair})'
    OBVIOUS
  <2>1. PICK p : p = msg(d).pair
    OBVIOUS
  <2>2. p \in 1 .. Len(claims) /\ claims[p].client = c
    BY <1>1, <1>3, <2>1 DEF Inv, Owner, Placed
  <2>3. claims'[p] = claims[p]
    BY <2>2 DEF Grows
  <2>4. PICK r : r = claims[p].root
    OBVIOUS
  <2>5. r \in 1 .. Len(claims) /\ claims[r].client = c
    BY <2>2, <2>4, RootFacts
  <2>6. Live(r)' \subseteq Live(r)
    BY <2>5, SparedSession
  <2>7. Live(r) \subseteq {p}
    BY <1>1, <2>1, <2>4 DEF Turn
  <2>8. Live(r)' \subseteq {p}
    BY <2>6, <2>7
  <2> QED
    BY <1>2, <2>1, <2>3, <2>4, <2>8 DEF Live
<1>7. (job[d].at \in {"refresh3", "issue"} => job[d].root \notin loggedOut)'
      /\ (job[d].at = "issue" => Live(job[d].root) = {})'
  <2> SUFFICES ASSUME job[d].at \in {"refresh3", "issue"}
               PROVE  (/\ job[d].root \notin loggedOut
                       /\ job[d].at = "issue" => Live(job[d].root) = {})'
    OBVIOUS
  <2>1. PICK r : r = job[d].root
    OBVIOUS
  <2>2. r = 0 \/ (r \in 1 .. Len(claims) /\ claims[r].client = c)
    <3>1. CASE msg(d).kind = "login"
      BY <1>1, <1>3, <2>1, <3>1 DEF Placed
    <3>2. CASE msg(d).kind = "refresh"
      <4>1. PICK p \in 1 .. Len(claims) : claims[p].client = c /\ r = claims[p].root
        BY <1>1, <1>3, <2>1, <3>2 DEF Placed
      <4> QED
        BY <4>1, RootFacts
    <3> QED
      BY <1>1, <1>3, <3>1, <3>2 DEF Placed
  <2>3. Live(r)' \subseteq Live(r) /\ (r \in loggedOut' => r \in loggedOut)
    BY <2>2, SparedSession
  <2>4. r \notin loggedOut /\ (job[d].at = "issue" => Live(r) = {})
    BY <1>1, <2>1 DEF Turn
  <2>5. r \notin loggedOut' /\ (job[d].at = "issue" => Live(r)' = {})
    BY <2>3, <2>4
  <2> QED
    BY <2>1, <2>5 DEF Live
<1> QED
  BY <1>4, <1>5, <1>6, <1>7 DEF Turn

(* Sessions that are spared stay ended, and have one pair at most.          *)
LEMMA SparedStay ==
    ASSUME Inv, Inv', Sessions, Grows, Roots', NEW c, Ended(c), One(c), Spares(c)
    PROVE  Ended(c)' /\ One(c)'
<1>1. Ended(c)'
  <2> SUFFICES ASSUME NEW r \in loggedOut', claims'[r].client = c PROVE Live(r)' = {}
    BY DEF Ended
  <2>1. r \in loggedOut /\ r \in 1 .. Len(claims)
    BY DEF Spares, Sessions, Roots
  <2>2. claims[r].client = c
    BY <2>1 DEF Grows
  <2>3. Live(r)' \subseteq Live(r) /\ Live(r) = {}
    BY <2>1, <2>2, SparedSession DEF Ended
  <2> QED
    BY <2>3
<1>2. One(c)'
  <2> SUFFICES ASSUME NEW p \in access' \cup refresh', NEW q \in access' \cup refresh',
                      claims'[p].client = c, claims'[p].root = claims'[q].root
               PROVE  p = q
    BY DEF One
  <2>1. claims'[q].client = c
    <3>1. p \in 1 .. Len(claims') /\ q \in 1 .. Len(claims')
      BY DEF Inv, Typed
    <3> QED
      BY <3>1 DEF Roots
  <2>2. p \in access \cup refresh /\ q \in access \cup refresh
    BY <2>1 DEF Spares
  <2>3. claims'[p] = claims[p] /\ claims'[q] = claims[q]
    BY <2>2 DEF Inv, Typed, Grows
  <2> QED
    BY <2>2, <2>3 DEF One
<1> QED
  BY <1>1, <1>2

(* A step of slot s that spares the sessions of client c, and is not a step *)
(* of a request that changes them.                                          *)
LEMMA OtherQuiet ==
    ASSUME Inv, Inv', Sessions, Grows, NEW c \in Clients, Quiet(c), Roots',
           NEW s, \A d \in Slots \ {s} : job'[d] = job[d],
           Busy(s, c) => job'[s] = job[s], Busy(s, c)' => Busy(s, c), Spares(c)
    PROVE  Quiet(c)'
<1>1. ASSUME NEW d \in Slots PROVE Busy(d, c)' => Busy(d, c)
  <2>1. CASE d = s
    BY <2>1
  <2>2. CASE d # s
    BY <2>2, OtherBusy
  <2> QED
    BY <2>1, <2>2
<1>2. ASSUME NEW d \in Slots PROVE Turn(d, c)'
  <2>1. CASE Busy(d, c)
    <3>1. job'[d] = job[d]
      BY <2>1
    <3> QED
      BY <3>1, OtherTurn DEF Quiet
  <2>2. CASE ~Busy(d, c)
    BY <1>1, <2>2 DEF Turn
  <2> QED
    BY <2>1, <2>2
<1>3. Ended(c)' /\ One(c)'
  BY SparedStay DEF Quiet
<1> QED
  BY <1>1, <1>2, <1>3 DEF Quiet

(* A step of the request that changes the session of client c.              *)
LEMMA OwnQuiet ==
    ASSUME Inv, Grows, NEW c \in Clients, Quiet(c),
           NEW s \in Slots, Busy(s, c), \A d \in Slots \ {s} : job'[d] = job[d],
           Turn(s, c)', Ended(c)', One(c)'
    PROVE  Quiet(c)'
<1>1. ASSUME NEW d \in Slots, d # s PROVE ~Busy(d, c)'
  BY <1>1, OtherBusy DEF Quiet
<1>2. \A d \in Slots : Turn(d, c)'
  BY <1>1 DEF Turn
<1> QED
  BY <1>1, <1>2 DEF Quiet

(* A step of the request in slot s.  What must be shown of it.              *)
LEMMA ServeSessions ==
    ASSUME Inv, Inv', Sessions, Grows, NEW s \in Slots, job[s].at # "idle",
           \A d \in Slots \ {s} : job'[d] = job[d],
           job'[s].at = "idle" \/ job'[s].nonce = job[s].nonce,
           Placed(s)', Roots', upset \subseteq upset',
           \A c \in Clients : c # msg(s).client \/ msg(s).kind \notin SessionKinds => Spares(c),
           \A c \in WebClients \ upset' :
               Busy(s, c) => Turn(s, c)' /\ Ended(c)' /\ One(c)'
    PROVE  Sessions'
<1>1. ASSUME NEW d \in Slots PROVE Placed(d)'
  <2>1. CASE d = s
    BY <2>1
  <2>2. CASE d # s
    BY <2>2, OtherPlaced DEF Sessions
  <2> QED
    BY <2>1, <2>2
<1>2. ASSUME NEW c \in WebClients \ upset' PROVE Quiet(c)'
  <2>1. c \in Clients /\ Quiet(c)
    BY RequestsAssumption DEF Sessions
  <2>2. CASE Busy(s, c)
    <3>1. Turn(s, c)' /\ Ended(c)' /\ One(c)'
      BY <2>2
    <3> QED
      BY <2>1, <2>2, <3>1, OwnQuiet
  <2>3. CASE ~Busy(s, c)
    <3>1. ~Busy(s, c)'
      <4>1. CASE job'[s].at = "idle"
        BY <4>1 DEF Busy
      <4>2. CASE job'[s].nonce = job[s].nonce
        BY <2>3, <4>2, SameMsg DEF Busy
      <4> QED
        BY <4>1, <4>2
    <3>2. Spares(c)
      BY <2>1, <2>3 DEF Busy
    <3> QED
      BY <2>1, <2>3, <3>1, <3>2, OtherQuiet
  <2> QED
    BY <2>2, <2>3
<1> QED
  BY <1>1, <1>2 DEF Sessions

-----------------------------------------------------------------------------
(* The steps of a request that take tokens away, or none.                   *)

LEMMA AbortFields ==
    ASSUME Inv, NEW s \in Slots, Abort(s)
    PROVE  /\ job'[s].at = "idle" /\ job'[s].pair = 0
           /\ \A d \in Slots \ {s} : job'[d] = job[d]
<1>1. job \in [Slots -> JobSet] /\ job' = [job EXCEPT ![s] = NoJob]
  BY DEF Inv, Typed, Abort
<1> QED
  BY <1>1, AbortTyped

LEMMA GotoFields ==
    ASSUME Inv, NEW s \in Slots, NEW at \in Places, Goto(s, at)
    PROVE  /\ job'[s].at = at /\ job'[s].nonce = job[s].nonce
           /\ job'[s].root = job[s].root /\ job'[s].pair = job[s].pair
           /\ \A d \in Slots \ {s} : job'[d] = job[d]
<1>1. job \in [Slots -> JobSet] /\ job[s] \in JobSet
  BY DEF Inv, Typed
<1>2. job' = [job EXCEPT ![s] = [job[s] EXCEPT !.at = at]]
  BY <1>1 DEF Goto
<1>3. job'[s] = [job[s] EXCEPT !.at = at] /\ \A d \in Slots \ {s} : job'[d] = job[d]
  BY <1>1, <1>2
<1> QED
  BY <1>1, <1>3, GotoTyped

LEMMA ShrinkSessions ==
    ASSUME Inv, Inv', Sessions, NEW s \in Slots, job[s].at # "idle",
           \A d \in Slots \ {s} : job'[d] = job[d],
           job'[s].at = "idle" \/ job'[s].nonce = job[s].nonce,
           UNCHANGED <<sent, claims, loggedOut>>, logins \subseteq logins',
           access' \subseteq access, refresh' \subseteq refresh, upset \subseteq upset',
           Placed(s)', \A c \in WebClients \ upset' : Busy(s, c) => Turn(s, c)'
    PROVE  Sessions'
<1>1. Grows
  BY DEF Inv, Typed, Grows
<1>2. \A c : Spares(c)
  BY SparesAll
<1>3. Roots'
  BY DEF Sessions, Roots
<1>4. ASSUME NEW c \in WebClients \ upset', Busy(s, c) PROVE Ended(c)' /\ One(c)'
  <2>1. Ended(c) /\ One(c)
    BY DEF Sessions, Quiet
  <2> QED
    BY <1>1, <1>2, <1>3, <2>1, SparedStay
<1> QED
  BY <1>1, <1>2, <1>3, <1>4, ServeSessions

LEMMA EarlyPair ==
    ASSUME Sessions, NEW s \in Slots, job[s].at \notin {"idle", "issue2", "answer", "sign"}
    PROVE  job[s].pair = 0
BY DEF Sessions, Placed

LEMMA AbortSessions ==
    ASSUME Inv, Inv', Sessions, NEW s \in Slots, Abort(s), job[s].at # "idle",
           UNCHANGED <<sent, claims, loggedOut>>, logins \subseteq logins',
           access' \subseteq access, refresh' \subseteq refresh, upset \subseteq upset'
    PROVE  Sessions'
<1>1. job'[s].at = "idle" /\ \A d \in Slots \ {s} : job'[d] = job[d]
  BY AbortFields
<1>2. Placed(s)' /\ \A c : Turn(s, c)'
  BY <1>1 DEF Placed, Turn, Busy
<1> QED
  BY <1>1, <1>2, ShrinkSessions

LEMMA MoveSessions ==
    ASSUME Inv, Inv', Sessions, NEW s \in Slots, job[s].at # "idle",
           NEW at \in Places, at # "idle", Goto(s, at),
           UNCHANGED <<sent, claims, loggedOut>>, logins \subseteq logins',
           access' \subseteq access, refresh' \subseteq refresh, upset \subseteq upset',
           Placed(s)',
           \A c \in WebClients \ upset' : Busy(s, c) =>
               /\ at \in {"refresh2", "refresh3", "logout2"} =>
                     msg(s).pair \notin access' \/ claims[msg(s).pair].client # c
               /\ at \in {"refresh3", "logout", "logout2"} =>
                     \A q \in access' \cup refresh' :
                         claims[q].root = claims[msg(s).pair].root => q = msg(s).pair
               /\ at \in {"refresh3", "issue"} => job[s].root \notin loggedOut
               /\ at = "issue" =>
                     \A q \in access' \cup refresh' : claims[q].root # job[s].root
    PROVE  Sessions'
<1>1. /\ job'[s].at = at /\ job'[s].nonce = job[s].nonce
      /\ job'[s].root = job[s].root /\ job'[s].pair = job[s].pair
      /\ \A d \in Slots \ {s} : job'[d] = job[d]
  BY GotoFields
<1>2. Grows
  BY DEF Inv, Typed, Grows
<1>3. msg(s)' = msg(s)
  BY <1>1, <1>2, SameMsg
<1>4. ASSUME NEW c \in WebClients \ upset', Busy(s, c) PROVE Turn(s, c)'
  <2>1. Turn(s, c) /\ Busy(s, c)
    BY <1>4 DEF Sessions, Quiet
  <2>2. (job[s].pair # 0 =>
           /\ Live(claims[job[s].pair].root) \subseteq {job[s].pair}
           /\ claims[job[s].pair].root \notin loggedOut)'
    BY <1>1, <2>1 DEF Turn, Live
  <2>3. (job[s].at \in {"refresh2", "refresh3", "logout2"} =>
           msg(s).pair \notin access \/ claims[msg(s).pair].client # c)'
    BY <1>1, <1>3, <1>4
  <2>4. (job[s].at \in {"refresh3", "logout", "logout2"} =>
           Live(claims[msg(s).pair].root) \subseteq {msg(s).pair})'
    <3> SUFFICES ASSUME at \in {"refresh3", "logout", "logout2"}
                 PROVE  (Live(claims[msg(s).pair].root) \subseteq {msg(s).pair})'
      BY <1>1
    <3>1. \A q \in access' \cup refresh' :
             claims'[q].root = claims'[msg(s)'.pair].root => q = msg(s)'.pair
      BY <1>3, <1>4
    <3> QED
      BY <3>1 DEF Live
  <2>5. (job[s].at \in {"refresh3", "issue"} => job[s].root \notin loggedOut)'
    BY <1>1, <1>4
  <2>6. (job[s].at = "issue" => Live(job[s].root) = {})'
    <3> SUFFICES ASSUME at = "issue" PROVE Live(job[s].root)' = {}
      BY <1>1
    <3>1. \A q \in access' \cup refresh' : claims'[q].root # job'[s].root
      BY <1>1, <1>4
    <3> QED
      BY <3>1 DEF Live
  <2> QED
    BY <2>2, <2>3, <2>4, <2>5, <2>6 DEF Turn
<1> QED
  BY <1>1, <1>4, ShrinkSessions

(* Where a request stands that carries neither a session nor a pair.        *)
LEMMA MovePlaced ==
    ASSUME Inv, Sessions, NEW s \in Slots, job[s].at # "idle",
           NEW at \in Places, Goto(s, at), UNCHANGED <<sent, claims>>,
           at \in {"prepare", "info", "login", "refresh", "logout"} => msg(s).kind = at,
           at = "user" => msg(s).kind = "login",
           at = "refresh2" => msg(s).kind = "refresh",
           at = "logout2" => msg(s).kind = "logout",
           at \notin {"refresh3", "issue", "issue2"},
           job[s].pair # 0 => at \in {"answer", "sign"}
    PROVE  Placed(s)'
<1>1. /\ job'[s].at = at /\ job'[s].nonce = job[s].nonce
      /\ job'[s].root = job[s].root /\ job'[s].pair = job[s].pair
  BY GotoFields
<1>2. msg(s)' = msg(s)
  BY <1>1 DEF msg
<1>3. Placed(s)
  BY DEF Sessions
<1> QED
  BY <1>1, <1>2, <1>3 DEF Placed

(* AuthMiddleware.  The access token that a logout presents is stored, so   *)
(* its pair is the only one of its session.                                 *)
LEMMA AuthSessions == ASSUME Inv, Sessions, NEW s \in Slots, Auth(s) PROVE Sessions'
<1>0. job[s].at = "auth" /\ job[s].pair = 0 /\ Inv'
  BY EarlyPair, AuthInv DEF Auth
<1>1. msg(s).kind \in Kinds /\ msg(s).kind \in Places /\ msg(s).kind # "idle"
  <2>1. msg(s) \in MessageSet
    BY <1>0, Served
  <2> QED
    BY <2>1 DEF MessageSet, Kinds, Places
<1>2. /\ UNCHANGED <<sent, claims, loggedOut, logins, access, refresh>>
      /\ upset \subseteq upset'
  BY DEF Auth, external, redis, NoFault, Fault
<1>3. CASE Abort(s)
  BY <1>0, <1>2, <1>3, AbortSessions
<1>4. CASE /\ Goto(s, msg(s).kind)
           /\ msg(s).kind = "logout" =>
                 msg(s).pair \in access /\ claims[msg(s).pair].client = msg(s).client
  <2>1. PICK k : k = msg(s).kind
    OBVIOUS
  <2>2. k \in Kinds /\ k \in Places /\ k # "idle" /\ Goto(s, k)
    BY <1>1, <1>4, <2>1
  <2>3. k \notin {"refresh2", "refresh3", "logout2", "issue", "issue2", "user"}
    BY <2>2 DEF Kinds
  <2>4. Placed(s)'
    BY <1>0, <1>2, <2>1, <2>2, <2>3, MovePlaced
  <2>5. ASSUME NEW c \in WebClients \ upset', Busy(s, c), k = "logout"
        PROVE  \A q \in access' \cup refresh' :
                   claims[q].root = claims[msg(s).pair].root => q = msg(s).pair
    BY <1>2, <1>4, <2>1, <2>5 DEF Sessions, Quiet, One, Busy
  <2> QED
    BY <1>0, <1>2, <2>2, <2>3, <2>4, <2>5, MoveSessions
<1>5. \/ Abort(s)
      \/ /\ Goto(s, msg(s).kind)
         /\ msg(s).kind = "logout" =>
               msg(s).pair \in access /\ claims[msg(s).pair].client = msg(s).client
  BY DEF Auth, Enter, isPathNeedAuth, GetAccessToken, GetAccessTokenClaims, IsClaimsValid
<1> QED
  BY <1>3, <1>4, <1>5

(* PrepareLogin and MsgCodeAuther.Authorize store no token.                 *)
LEMMA CaptchaSessions ==
    ASSUME Inv, Sessions, NEW s \in Slots, PrepareLogin(s) \/ MsgCodeAuthorize(s)
    PROVE  Sessions'
<1>0. Inv' /\ job[s].at \in {"prepare", "login"} /\ job[s].pair = 0
  BY PrepareLoginInv, MsgCodeAuthorizeInv, EarlyPair DEF PrepareLogin, MsgCodeAuthorize
<1>1. /\ UNCHANGED <<sent, claims, loggedOut, logins, access, refresh>>
      /\ upset \subseteq upset'
  BY DEF PrepareLogin, MsgCodeAuthorize, external, NoFault, Fault
<1>2. CASE Abort(s)
  BY <1>0, <1>1, <1>2, AbortSessions
<1>3. CASE Goto(s, "answer")
  <2>1. "answer" \in Places
    BY DEF Places
  <2>2. Placed(s)'
    BY <1>0, <1>1, <1>3, <2>1, MovePlaced
  <2> QED
    BY <1>0, <1>1, <1>3, <2>1, <2>2, MoveSessions
<1>4. CASE Goto(s, "user") /\ job[s].at = "login"
  <2>1. "user" \in Places
    BY DEF Places
  <2>2. msg(s).kind = "login"
    BY <1>4 DEF Sessions, Placed
  <2>3. Placed(s)'
    BY <1>0, <1>1, <1>4, <2>1, <2>2, MovePlaced
  <2> QED
    BY <1>0, <1>1, <1>4, <2>1, <2>3, MoveSessions
<1> QED
  BY <1>2, <1>3, <1>4 DEF PrepareLogin, MsgCodeAuthorize

(* The user may log in: the session will be a new one.                      *)
LEMMA AuthorizeSessions == ASSUME Inv, Sessions, NEW s \in Slots, Authorize(s) PROVE Sessions'
<1>0. Inv' /\ job[s].at = "user" /\ job[s].pair = 0
  BY AuthorizeInv, EarlyPair DEF Authorize
<1>1. /\ UNCHANGED <<sent, claims, loggedOut, access, refresh, upset>>
      /\ logins \subseteq logins'
  BY DEF Authorize, external, redis
<1>2. CASE Abort(s)
  BY <1>0, <1>1, <1>2, AbortSessions
<1>3. CASE job' = [job EXCEPT ![s].at = "issue", ![s].user = msg(s).user]
  <2>1. job \in [Slots -> JobSet] /\ job[s] \in JobSet
    BY DEF Inv, Typed
  <2>2. /\ job'[s].at = "issue" /\ job'[s].nonce = job[s].nonce
        /\ job'[s].root = job[s].root /\ job'[s].pair = job[s].pair
        /\ \A d \in Slots \ {s} : job'[d] = job[d]
    BY <1>3, <2>1 DEF JobSet
  <2>3. msg(s)' = msg(s)
    BY <1>1, <2>2 DEF msg
  <2>4. msg(s).kind = "login" /\ job[s].root = 0
    BY <1>0 DEF Sessions, Placed
  <2>5. Placed(s)'
    BY <1>0, <2>2, <2>3, <2>4 DEF Placed
  <2>6. \A c : Turn(s, c)'
    <3>1. Live(0)' = {} /\ 0 \notin loggedOut'
      BY <1>1, NoRootZero DEF Live
    <3>2. (Live(job[s].root) = {})' /\ job'[s].root = 0
      BY <2>2, <2>4, <3>1 DEF Live
    <3> QED
      BY <1>0, <2>2, <2>3, <2>4, <3>1, <3>2 DEF Turn
  <2> QED
    BY <1>0, <1>1, <2>2, <2>5, <2>6, ShrinkSessions
<1> QED
  BY <1>2, <1>3 DEF Authorize

(* Refresh and logout begin by revoking the access token that was sent.     *)
LEMMA RevokeSessions ==
    ASSUME Inv, Sessions, NEW s \in Slots, RefreshRevoke(s) \/ LogoutAccess(s)
    PROVE  Sessions'
<1>0. Inv' /\ job[s].at \in {"refresh", "logout"} /\ job[s].pair = 0
  BY TokensInv, KeepsOwnerInv, EarlyPair DEF RefreshRevoke, LogoutAccess
<1>1. /\ UNCHANGED <<sent, claims, loggedOut, logins, refresh>>
      /\ access' \subseteq access /\ upset \subseteq upset'
  BY DEF RefreshRevoke, LogoutAccess, external, NoFault, IgnoredFault, RevokeAccessToken
<1>2. PICK at \in {"refresh2", "logout2"} :
         /\ Goto(s, at)
         /\ job[s].at = IF at = "refresh2" THEN "refresh" ELSE "logout"
  BY DEF RefreshRevoke, LogoutAccess
<1>3. at \in Places
  BY <1>2 DEF Places
<1>4. msg(s).kind = job[s].at
  BY <1>0 DEF Sessions, Placed
<1>5. Placed(s)'
  BY <1>0, <1>1, <1>2, <1>3, <1>4, MovePlaced
<1>6. ASSUME NEW c \in WebClients \ upset', Busy(s, c)
      PROVE  /\ msg(s).pair \notin access'
             /\ at = "logout2" =>
                   \A q \in access' \cup refresh' :
                       claims[q].root = claims[msg(s).pair].root => q = msg(s).pair
  <2>1. msg(s).client = c /\ Turn(s, c)
    BY <1>1, <1>6 DEF Sessions, Quiet, Busy
  <2>2. access' = access \ {msg(s).pair}
    BY <1>6, <2>1 DEF RefreshRevoke, LogoutAccess, IgnoredFault, RevokeAccessToken
  <2>3. at = "logout2" => Live(claims[msg(s).pair].root) \subseteq {msg(s).pair}
    BY <1>2, <1>6, <2>1 DEF Turn
  <2> QED
    BY <1>1, <2>2, <2>3 DEF Live
<1> QED
  BY <1>0, <1>1, <1>2, <1>3, <1>5, <1>6, MoveSessions

(* The refresh token is stored, so its session did not end, and its pair is *)
(* the only one of it.                                                      *)
LEMMA RefreshCredentialSessions ==
    ASSUME Inv, Sessions, NEW s \in Slots, RefreshCredential(s) PROVE Sessions'
<1>0. Inv' /\ job[s].at = "refresh2" /\ job[s].pair = 0
  BY RefreshCredentialInv, EarlyPair DEF RefreshCredential
<1>1. /\ UNCHANGED <<sent, claims, loggedOut, logins, access, refresh>>
      /\ upset \subseteq upset'
  BY DEF RefreshCredential, external, redis, NoFault, Fault
<1>2. CASE Abort(s)
  BY <1>0, <1>1, <1>2, AbortSessions
<1>3. CASE ~Abort(s)
  <2>1. PICK p : p = msg(s).pair
    OBVIOUS
  <2>2. /\ p \in refresh /\ claims[p].client = msg(s).client
        /\ job' = [job EXCEPT ![s].at = "refresh3", ![s].user = claims[p].user,
                              ![s].root = claims[p].root]
    BY <1>3, <2>1 DEF RefreshCredential, GetRefreshTokenCredential, IsClaimsValid
  <2>3. job \in [Slots -> JobSet] /\ job[s] \in JobSet
    BY DEF Inv, Typed
  <2>4. /\ job'[s].at = "refresh3" /\ job'[s].nonce = job[s].nonce
        /\ job'[s].root = claims[p].root /\ job'[s].pair = job[s].pair
        /\ \A d \in Slots \ {s} : job'[d] = job[d]
    BY <2>2, <2>3 DEF JobSet
  <2>5. msg(s)' = msg(s)
    BY <1>1, <2>4 DEF msg
  <2>6. p \in 1 .. Len(claims)
    BY <2>2 DEF Inv, Typed
  <2>7. msg(s).kind = "refresh"
    BY <1>0 DEF Sessions, Placed
  <2>8. Placed(s)'
    BY <1>0, <1>1, <2>1, <2>2, <2>4, <2>5, <2>6, <2>7 DEF Placed
  <2>9. ASSUME NEW c \in WebClients \ upset', Busy(s, c) PROVE Turn(s, c)'
    <3>1. Quiet(c) /\ Turn(s, c) /\ msg(s).client = c
      BY <1>1, <2>9 DEF Sessions, Quiet, Busy
    <3>2. msg(s).pair \notin access' \/ claims[msg(s).pair].client # c
      BY <1>0, <1>1, <2>9, <3>1 DEF Turn
    <3>3. claims[p].root \notin loggedOut
      <4>1. PICK r : r = claims[p].root
        OBVIOUS
      <4>2. claims[r].client = c /\ p \in Live(r)
        BY <2>2, <2>6, <3>1, <4>1, RootFacts DEF Live
      <4> QED
        BY <3>1, <4>1, <4>2 DEF Quiet, Ended
    <3>4. (Live(claims[msg(s).pair].root) \subseteq {msg(s).pair})'
      <4>1. ASSUME NEW q \in access \cup refresh, claims[q].root = claims[p].root PROVE q = p
        BY <2>2, <3>1, <4>1 DEF Quiet, One
      <4> QED
        BY <1>1, <2>1, <2>5, <4>1 DEF Live
    <3> QED
      BY <1>0, <1>1, <2>4, <2>5, <3>2, <3>3, <3>4 DEF Turn
  <2> QED
    BY <1>0, <1>1, <2>4, <2>8, <2>9, ShrinkSessions
<1> QED
  BY <1>2, <1>3

(* Once its refresh token is deleted too, nothing is left of the session.   *)
LEMMA LastOfSession ==
    ASSUME Inv, Sessions, NEW s \in Slots, NEW c \in WebClients \ upset, Busy(s, c),
           job[s].at \in {"refresh3", "logout2"}, claims[msg(s).pair].client = c,
           NEW q \in access \cup (refresh \ {msg(s).pair})
    PROVE  claims[q].root # claims[msg(s).pair].root
<1>1. Turn(s, c)
  BY DEF Sessions, Quiet
<1>2. msg(s).pair \notin access
  BY <1>1 DEF Turn
<1>3. Live(claims[msg(s).pair].root) \subseteq {msg(s).pair}
  BY <1>1 DEF Turn
<1> QED
  BY <1>2, <1>3 DEF Live

(* The old refresh token is deleted.                                        *)
LEMMA RefreshRotateSessions ==
    ASSUME Inv, Sessions, NEW s \in Slots, RefreshRotate(s) PROVE Sessions'
<1>0. Inv' /\ job[s].at = "refresh3" /\ job[s].pair = 0
  BY KeepsOwnerInv, EarlyPair DEF RefreshRotate
<1>1. /\ UNCHANGED <<sent, claims, loggedOut, logins, access>>
      /\ refresh' \subseteq refresh /\ upset \subseteq upset'
  BY DEF RefreshRotate, external, NoFault, Fault, RevokeRefreshToken
<1>2. CASE Abort(s)
  BY <1>0, <1>1, <1>2, AbortSessions
<1>3. CASE refresh' = refresh \ {msg(s).pair} /\ Goto(s, "issue") /\ UNCHANGED upset
  <2>1. "issue" \in Places
    BY DEF Places
  <2>2. /\ job'[s].at = "issue" /\ job'[s].nonce = job[s].nonce
        /\ job'[s].root = job[s].root /\ job'[s].pair = job[s].pair
    BY <1>3, <2>1, GotoFields
  <2>3. msg(s)' = msg(s)
    BY <1>1, <2>2 DEF msg
  <2>4. /\ msg(s).kind = "refresh" /\ job[s].root = claims[msg(s).pair].root
        /\ msg(s).pair \in 1 .. Len(claims)
        /\ claims[msg(s).pair].client = msg(s).client
    BY <1>0 DEF Sessions, Placed
  <2>5. Placed(s)'
    BY <1>0, <1>1, <2>2, <2>3, <2>4 DEF Placed
  <2>6. ASSUME NEW c \in WebClients \ upset', Busy(s, c)
        PROVE  /\ job[s].root \notin loggedOut
               /\ \A q \in access' \cup refresh' : claims[q].root # job[s].root
    <3>1. job[s].root \notin loggedOut
      BY <1>0, <1>3, <2>6 DEF Sessions, Quiet, Turn
    <3>2. claims[msg(s).pair].client = c
      BY <2>4, <2>6 DEF Busy
    <3>3. ASSUME NEW q \in access \cup (refresh \ {msg(s).pair})
          PROVE  claims[q].root # claims[msg(s).pair].root
      BY <1>0, <1>3, <2>6, <3>2, LastOfSession
    <3> QED
      BY <1>1, <1>3, <2>4, <3>1, <3>3
  <2> QED
    BY <1>0, <1>1, <1>3, <2>1, <2>5, <2>6, MoveSessions
<1> QED
  BY <1>2, <1>3 DEF RefreshRotate, RevokeRefreshToken, NoFault

-----------------------------------------------------------------------------
(* The steps that store a token: of pair p, in session r.                   *)
LEMMA AddSessions ==
    ASSUME Inv, Inv', Sessions, Grows, NEW s \in Slots, job[s].at # "idle",
           \A d \in Slots \ {s} : job'[d] = job[d],
           job'[s].at = "idle" \/ job'[s].nonce = job[s].nonce,
           Placed(s)', Roots', UNCHANGED loggedOut, upset \subseteq upset',
           msg(s).kind \in SessionKinds,
           NEW p \in 1 .. Len(claims'), claims'[p].client = msg(s).client,
           NEW r, r = claims'[p].root,
           access' \subseteq access \cup {p}, refresh' \subseteq refresh \cup {p},
           \A c \in WebClients \ upset' : Busy(s, c) =>
               /\ \/ job'[s].at = "idle"
                  \/ job'[s].at \in {"issue2", "answer"} /\ job'[s].pair = p
               /\ Live(r) \subseteq {p} /\ r \notin loggedOut
    PROVE  Sessions'
<1>1. \A q \in access \cup refresh : q \in 1 .. Len(claims) /\ claims'[q] = claims[q]
  BY DEF Inv, Typed, Grows
<1>2. ASSUME NEW k, k # r PROVE Live(k)' \subseteq Live(k)
  BY <1>1, <1>2 DEF Live
<1>3. ASSUME NEW c \in Clients, c # msg(s).client PROVE Spares(c)
  BY <1>3 DEF Spares
<1>4. ASSUME NEW c \in WebClients \ upset', Busy(s, c)
      PROVE  Turn(s, c)' /\ Ended(c)' /\ One(c)'
  <2>1. /\ Quiet(c)
        /\ \/ job'[s].at = "idle"
           \/ job'[s].at \in {"issue2", "answer"} /\ job'[s].pair = p
        /\ Live(r) \subseteq {p} /\ r \notin loggedOut
    BY <1>4 DEF Sessions, Quiet
  <2>2. Live(r)' \subseteq {p}
    BY <1>1, <2>1 DEF Live
  <2>3. Turn(s, c)'
    <3>1. CASE job'[s].at = "idle"
      BY <3>1 DEF Turn, Busy
    <3>2. CASE job'[s].at \in {"issue2", "answer"} /\ job'[s].pair = p
      <4>1. (Live(claims[job[s].pair].root) \subseteq {job[s].pair})'
        BY <2>2, <3>2 DEF Live
      <4> QED
        BY <2>1, <3>2, <4>1 DEF Turn
    <3> QED
      BY <2>1, <3>1, <3>2
  <2>4. Ended(c)'
    <3> SUFFICES ASSUME NEW k \in loggedOut, claims'[k].client = c PROVE Live(k)' = {}
      BY DEF Ended
    <3>1. k # r /\ claims[k].client = c
      BY <2>1 DEF Sessions, Roots, Grows
    <3>2. Live(k) = {}
      BY <2>1, <3>1 DEF Quiet, Ended
    <3> QED
      BY <1>2, <3>1, <3>2
  <2>5. One(c)'
    <3> SUFFICES ASSUME NEW q \in access' \cup refresh', NEW k \in access' \cup refresh',
                        claims'[q].client = c, claims'[q].root = claims'[k].root
                 PROVE  q = k
      BY DEF One
    <3>1. CASE claims'[q].root = r
      <4>1. q \in Live(r)' /\ k \in Live(r)'
        BY <3>1 DEF Live
      <4> QED
        BY <2>2, <4>1
    <3>2. CASE claims'[q].root # r
      <4>1. q \in access \cup refresh /\ k \in access \cup refresh
        BY <3>2
      <4>2. claims'[q] = claims[q] /\ claims'[k] = claims[k]
        BY <1>1, <4>1
      <4> QED
        BY <2>1, <4>1, <4>2 DEF Quiet, One
    <3> QED
      BY <3>1, <3>2
  <2> QED
    BY <2>3, <2>4, <2>5
<1> QED
  BY <1>3, <1>4, ServeSessions

(* The second half of GenerateTokenPair.                                    *)
LEMMA GenerateTokenPairSessions ==
    ASSUME Inv, Sessions, NEW s \in Slots, GenerateTokenPair(s) PROVE Sessions'
<1>0. Inv' /\ job[s].at = "issue2"
  BY TokensInv DEF GenerateTokenPair
<1>1. /\ UNCHANGED <<sent, claims, loggedOut, logins, access>>
      /\ refresh' \subseteq refresh \cup {job[s].pair} /\ upset \subseteq upset'
  BY DEF GenerateTokenPair, external, NoFault, Fault, SaveRefreshToken
<1>2. Grows /\ Roots'
  BY <1>1, SameGrows DEF Sessions, Roots
<1>3. PICK p : p = job[s].pair
  OBVIOUS
<1>4. p \in 1 .. Len(claims)
  <2>1. job[s].pair \in Nat /\ job[s].pair <= Len(claims) /\ job[s].pair # 0
    BY <1>0 DEF Inv, Typed, JobTyped, JobSet
  <2> QED
    BY <1>3, <2>1, Numbers
<1>5. claims[p].client = msg(s).client /\ msg(s).kind \in {"login", "refresh"}
  BY <1>0, <1>3, <1>4 DEF Sessions, Placed
<1>6. PICK r : r = claims[p].root
  OBVIOUS
<1>7. "answer" \in Places
  BY DEF Places
<1>8. /\ \A d \in Slots \ {s} : job'[d] = job[d]
      /\ job'[s].at = "idle" \/ job'[s].nonce = job[s].nonce
  BY <1>7, AbortFields, GotoFields DEF GenerateTokenPair
<1>9. Placed(s)'
  <2>1. CASE Abort(s)
    BY <2>1, AbortFields DEF Placed
  <2>2. CASE Goto(s, "answer")
    BY <1>0, <1>1, <1>7, <2>2, MovePlaced
  <2> QED
    BY <2>1, <2>2 DEF GenerateTokenPair
<1>10. ASSUME NEW c \in WebClients \ upset', Busy(s, c)
       PROVE  /\ \/ job'[s].at = "idle"
                 \/ job'[s].at \in {"issue2", "answer"} /\ job'[s].pair = p
              /\ Live(r) \subseteq {p} /\ r \notin loggedOut
  <2>1. Turn(s, c)
    BY <1>1, <1>10 DEF Sessions, Quiet
  <2>2. Live(r) \subseteq {p} /\ r \notin loggedOut
    BY <1>3, <1>4, <1>6, <1>10, <2>1 DEF Turn
  <2>3. CASE Abort(s)
    BY <2>2, <2>3, AbortFields
  <2>4. CASE Goto(s, "answer")
    BY <1>3, <1>7, <2>2, <2>4, GotoFields
  <2> QED
    BY <2>3, <2>4 DEF GenerateTokenPair
<1>11. msg(s).kind \in SessionKinds
  BY <1>5 DEF SessionKinds
<1> QED
  BY <1>0, <1>1, <1>2, <1>3, <1>4, <1>5, <1>6, <1>8, <1>9, <1>10, <1>11, AddSessions

(* The claims of a new pair: of the session that is refreshed, or of a new  *)
(* one.                                                                     *)
LEMMA GenerateAccessTokenSessions ==
    ASSUME Inv, Sessions, NEW s \in Slots, GenerateAccessToken(s) PROVE Sessions'
<1> DEFINE p == Len(claims) + 1
           r == IF job[s].root = 0 THEN p ELSE job[s].root
           x == [user |-> job[s].user, client |-> msg(s).client, root |-> r]
<1>0. Inv' /\ job[s].at = "issue" /\ job[s].pair = 0
  BY GenerateAccessTokenInv, EarlyPair DEF GenerateAccessToken
<1>1. /\ UNCHANGED <<sent, loggedOut, logins, refresh>> /\ claims' = Append(claims, x)
      /\ access' \subseteq access \cup {p} /\ upset \subseteq upset'
  BY DEF GenerateAccessToken, external, NoFault, Fault, SaveAccessToken
<1>2. /\ Len(claims) \in Nat /\ p \in Nat /\ Len(claims') = p
      /\ claims'[p] = x /\ \A q \in 1 .. Len(claims) : claims'[q] = claims[q]
  BY <1>1, Numbers
<1>3. Grows
  BY <1>0, <1>1, <1>2 DEF Inv, Typed, Grows
<1>4. claims'[p].root = r /\ claims'[p].client = msg(s).client
  BY <1>2
<1>5. /\ msg(s).kind \in {"login", "refresh"}
      /\ msg(s).kind = "login" => job[s].root = 0
      /\ msg(s).kind = "refresh" => /\ msg(s).pair \in 1 .. Len(claims)
                                    /\ claims[msg(s).pair].client = msg(s).client
                                    /\ job[s].root = claims[msg(s).pair].root
  BY <1>0 DEF Sessions, Placed
<1>6. \/ r = p
      \/ r = job[s].root /\ r \in 1 .. Len(claims) /\ claims[r].client = msg(s).client
  <2>1. CASE msg(s).kind = "login"
    BY <1>5, <2>1
  <2>2. CASE msg(s).kind = "refresh"
    <3>1. PICK q \in 1 .. Len(claims) :
             claims[q].client = msg(s).client /\ job[s].root = claims[q].root
      BY <1>5, <2>2
    <3>2. claims[q].root \in 1 .. Len(claims) /\ claims[q].root # 0
          /\ claims[claims[q].root].client = claims[q].client
      BY <3>1, RootFacts
    <3> QED
      BY <3>1, <3>2
  <2> QED
    BY <1>5, <2>1, <2>2
<1>7. PICK n, k : n = p /\ k = r
  OBVIOUS
<1>8. Roots'
  <2>1. ASSUME NEW q \in 1 .. Len(claims)
        PROVE  claims'[q].root \in 1 .. q /\ claims'[claims'[q].root].client = claims'[q].client
    <3>1. claims[q].root \in 1 .. Len(claims) /\ claims'[q] = claims[q]
      BY <1>2, RootFacts
    <3>2. claims'[claims[q].root] = claims[claims[q].root]
      BY <1>2, <3>1
    <3> QED
      BY <3>1, <3>2 DEF Sessions, Roots
  <2>2. r \in 1 .. p /\ claims'[r].client = msg(s).client
    BY <1>2, <1>4, <1>6
  <2>3. \A q \in 1 .. p : q \in 1 .. Len(claims) \/ q = p
    BY <1>2
  <2>4. ASSUME NEW q \in 1 .. Len(claims')
        PROVE  claims'[q].root \in 1 .. q /\ claims'[claims'[q].root].client = claims'[q].client
    <3>1. CASE q = p
      BY <1>4, <2>2, <3>1
    <3>2. CASE q \in 1 .. Len(claims)
      BY <2>1, <3>2
    <3> QED
      BY <1>2, <2>3, <3>1, <3>2
  <2>5. loggedOut' \subseteq 1 .. Len(claims')
    BY <1>1, <1>2 DEF Sessions, Roots
  <2> QED
    BY <2>4, <2>5 DEF Roots
<1> HIDE DEF p, r, x
<1>9. \/ Abort(s)
       \/ job' = [job EXCEPT ![s].at = "issue2", ![s].pair = p]
  BY DEF GenerateAccessToken, p
<1>10. ASSUME job' = [job EXCEPT ![s].at = "issue2", ![s].pair = p]
       PROVE  /\ job'[s].at = "issue2" /\ job'[s].nonce = job[s].nonce
              /\ job'[s].root = job[s].root /\ job'[s].pair = p
              /\ \A d \in Slots \ {s} : job'[d] = job[d]
  <2>1. job \in [Slots -> JobSet] /\ job[s] \in JobSet
    BY DEF Inv, Typed
  <2> QED
    BY <1>10, <2>1 DEF JobSet
<1>11. /\ \A d \in Slots \ {s} : job'[d] = job[d]
       /\ job'[s].at = "idle" \/ job'[s].nonce = job[s].nonce
  BY <1>9, <1>10, AbortFields
<1>12. Placed(s)'
  <2>1. CASE Abort(s)
    BY <2>1, AbortFields DEF Placed
  <2>2. CASE job' = [job EXCEPT ![s].at = "issue2", ![s].pair = p]
    <3>1. msg(s)' = msg(s)
      BY <1>1, <1>10, <2>2 DEF msg
    <3> QED
      BY <1>4, <1>5, <1>10, <2>2, <3>1 DEF Placed
  <2> QED
    BY <1>9, <2>1, <2>2
<1>13. ASSUME NEW c \in WebClients \ upset', Busy(s, c)
       PROVE  /\ \/ job'[s].at = "idle"
                 \/ job'[s].at \in {"issue2", "answer"} /\ job'[s].pair = n
              /\ Live(k) \subseteq {n} /\ k \notin loggedOut
  <2>1. Quiet(c) /\ Turn(s, c) /\ msg(s).client = c
    BY <1>1, <1>13 DEF Sessions, Quiet, Busy
  <2>2. Live(k) \subseteq {n} /\ k \notin loggedOut
    <3>1. CASE k = n
      <4>1. \A q \in access \cup refresh : q \in 1 .. Len(claims)
        BY DEF Inv, Typed
      <4>2. \A q \in access \cup refresh : claims[q].root <= Len(claims)
        BY <4>1, RootFacts
      <4>3. n = Len(claims) + 1
        BY <1>7 DEF p
      <4>4. \A q \in access \cup refresh : claims[q].root # n
        BY <1>2, <4>2, <4>3
      <4>5. k \notin loggedOut
        BY <1>2, <3>1, <4>3 DEF Sessions, Roots
      <4> QED
        BY <3>1, <4>4, <4>5 DEF Live
    <3>2. CASE k = job[s].root
      BY <1>0, <1>13, <2>1, <3>2 DEF Turn
    <3> QED
      BY <1>6, <1>7, <3>1, <3>2
  <2>3. CASE Abort(s)
    BY <2>2, <2>3, AbortFields
  <2>4. CASE job' = [job EXCEPT ![s].at = "issue2", ![s].pair = p]
    BY <1>7, <1>10, <2>2, <2>4
  <2> QED
    BY <1>9, <2>3, <2>4
<1>14. msg(s).kind \in SessionKinds
  BY <1>5 DEF SessionKinds
<1>15. /\ n \in 1 .. Len(claims') /\ claims'[n].client = msg(s).client
       /\ k = claims'[n].root /\ access' \subseteq access \cup {n}
       /\ refresh' \subseteq refresh \cup {n}
  BY <1>1, <1>2, <1>4, <1>7 DEF p
<1> QED
  BY <1>0, <1>1, <1>3, <1>8, <1>11, <1>12, <1>13, <1>14, <1>15, AddSessions

-----------------------------------------------------------------------------
(* The end of a logout: nothing is left of the session.                     *)
LEMMA LogoutRefreshSessions ==
    ASSUME Inv, Sessions, NEW s \in Slots, LogoutRefresh(s) PROVE Sessions'
<1>0. Inv' /\ job[s].at = "logout2" /\ job[s].pair = 0
  BY TokensInv, EarlyPair DEF LogoutRefresh
<1>1. /\ UNCHANGED <<sent, claims, logins, access>> /\ Goto(s, "answer")
      /\ refresh' \subseteq refresh /\ upset \subseteq upset'
      /\ loggedOut' = loggedOut \cup {claims[msg(s).pair].root}
  BY DEF LogoutRefresh, external, NoFault, IgnoredFault, RevokeRefreshToken
<1>2. PICK p : p = msg(s).pair
  OBVIOUS
<1>3. p \in 1 .. Len(claims) /\ claims[p].client = msg(s).client
  BY <1>0, <1>2 DEF Inv, Owner
<1>4. PICK r : r = claims[p].root
  OBVIOUS
<1>5. r \in 1 .. Len(claims) /\ r # 0 /\ claims[r].client = msg(s).client
  BY <1>3, <1>4, RootFacts
<1>6. Grows /\ Roots'
  BY <1>1, <1>2, <1>4, <1>5, SameGrows DEF Sessions, Roots
<1>7. "answer" \in Places
  BY DEF Places
<1>8. /\ job'[s].at = "answer" /\ job'[s].nonce = job[s].nonce /\ job'[s].pair = 0
      /\ \A d \in Slots \ {s} : job'[d] = job[d]
  BY <1>0, <1>1, <1>7, GotoFields
<1>9. Placed(s)' /\ msg(s).kind = "logout" /\ msg(s).kind \in SessionKinds
  BY <1>0, <1>1, <1>7, MovePlaced DEF Sessions, Placed, SessionKinds
<1>10. ASSUME NEW k PROVE Live(k)' \subseteq Live(k)
  BY <1>1 DEF Live
<1>11. ASSUME NEW c \in Clients, c # msg(s).client PROVE Spares(c)
  BY <1>1, <1>2, <1>4, <1>5, <1>11 DEF Spares
<1>12. ASSUME NEW c \in WebClients \ upset', Busy(s, c)
       PROVE  Turn(s, c)' /\ Ended(c)' /\ One(c)'
  <2>1. Quiet(c) /\ msg(s).client = c
    BY <1>1, <1>12 DEF Sessions, Quiet, Busy
  <2>2. refresh' = refresh \ {p}
    BY <1>2, <1>12, <2>1
       DEF LogoutRefresh, GetRefreshToken, IgnoredFault, RevokeRefreshToken
  <2>3. Turn(s, c)'
    BY <1>8 DEF Turn
  <2>4. Live(r)' = {}
    <3>1. ASSUME NEW q \in access \cup (refresh \ {msg(s).pair})
          PROVE  claims[q].root # claims[msg(s).pair].root
      BY <1>0, <1>1, <1>2, <1>3, <1>12, <2>1, LastOfSession
    <3> QED
      BY <1>1, <1>2, <1>4, <2>2, <3>1 DEF Live
  <2>5. Ended(c)'
    <3> SUFFICES ASSUME NEW k \in loggedOut', claims'[k].client = c PROVE Live(k)' = {}
      BY DEF Ended
    <3>1. CASE k = r
      BY <2>4, <3>1
    <3>2. CASE k # r
      <4>1. k \in loggedOut /\ claims[k].client = c
        BY <1>1, <1>2, <1>4, <3>2
      <4> QED
        BY <1>10, <2>1, <4>1 DEF Quiet, Ended
    <3> QED
      BY <3>1, <3>2
  <2>6. One(c)'
    BY <1>1, <2>1 DEF Quiet, One
  <2> QED
    BY <2>3, <2>5, <2>6
<1> QED
  BY <1>0, <1>6, <1>8, <1>9, <1>1, <1>11, <1>12, ServeSessions

LEMMA AnswerSessions ==
    ASSUME Inv, Sessions, NEW s \in Slots, EncryptAnswer(s) \/ SignAnswer(s) PROVE Sessions'
<1>0. Inv' /\ job[s].at \in {"answer", "info", "sign"}
  BY AnswerInv DEF EncryptAnswer, SignAnswer
<1>1. UNCHANGED <<sent, claims, logins, access, refresh, loggedOut, upset>>
  BY DEF EncryptAnswer, SignAnswer, external, redis, history
<1>2. CASE Goto(s, "sign")
  <2>1. "sign" \in Places
    BY DEF Places
  <2>2. Placed(s)'
    BY <1>0, <1>1, <1>2, <2>1, MovePlaced
  <2> QED
    BY <1>0, <1>1, <1>2, <2>1, <2>2, MoveSessions
<1>3. CASE Abort(s)
  BY <1>0, <1>1, <1>3, AbortSessions
<1> QED
  BY <1>2, <1>3 DEF EncryptAnswer, SignAnswer

-----------------------------------------------------------------------------
(* Tokens expire, time passes.                                              *)
LEMMA StillSessions ==
    ASSUME Inv, Inv', Sessions, UNCHANGED <<sent, claims, job, logins, loggedOut, upset>>,
           access' \subseteq access, refresh' \subseteq refresh
    PROVE  Sessions'
<1>1. Grows /\ Roots'
  BY SameGrows DEF Sessions, Roots
<1>2. \A s \in Slots : Placed(s)'
  BY DEF Sessions, Placed, msg
<1>3. ASSUME NEW c \in WebClients \ upset' PROVE Quiet(c)'
  <2>1. c \in Clients /\ Quiet(c)
    BY RequestsAssumption DEF Sessions
  <2>2. \A s : Busy(s, c)' <=> Busy(s, c)
    BY DEF Busy, msg
  <2>3. Spares(c)
    BY SparesAll
  <2> QED
    BY <1>1, <2>1, <2>2, <2>3, OtherQuiet
<1> QED
  BY <1>1, <1>2, <1>3 DEF Sessions

(* A message m of a client that is not upset by it: no other request of     *)
(* this client changes its sessions.                                        *)
LEMMA PassSessions ==
    ASSUME Inv, Inv', Sessions, NEW s \in Slots, job[s].at = "idle", Grows,
           NEW n \in 1 .. Len(sent'), NEW m, sent'[n] = m,
           job' = [job EXCEPT ![s] = [NoJob EXCEPT !.at = "auth", !.nonce = n]],
           UNCHANGED <<claims, access, refresh, loggedOut>>,
           upset' = IF Upsets(m) THEN upset \union {m.client} ELSE upset
    PROVE  Sessions'
<1> DEFINE j == [NoJob EXCEPT !.at = "auth", !.nonce = n]
<1>0. j.at = "auth" /\ j.nonce = n /\ j.pair = 0 /\ j.root = 0
  BY DEF NoJob
<1> HIDE DEF j
<1>1. job'[s] = j /\ \A d \in Slots \ {s} : job'[d] = job[d]
  BY DEF Inv, Typed, j
<1>2. job'[s].at = "auth" /\ job'[s].nonce = n /\ job'[s].pair = 0 /\ job'[s].root = 0
  BY <1>0, <1>1
<1>3. msg(s)' = m
  BY <1>2 DEF msg
<1>4. Placed(s)'
  BY <1>2 DEF Placed
<1>5. ASSUME NEW d \in Slots PROVE Placed(d)'
  <2>1. CASE d = s
    BY <1>4, <2>1
  <2>2. CASE d # s
    BY <1>1, <2>2, OtherPlaced DEF Sessions
  <2> QED
    BY <2>1, <2>2
<1>6. Roots'
  BY DEF Sessions, Roots
<1>7. ASSUME NEW c \in WebClients \ upset' PROVE Quiet(c)'
  <2>1. c \in Clients /\ Quiet(c)
    BY RequestsAssumption DEF Sessions
  <2>2. ~Busy(s, c)
    BY DEF Busy
  <2>3. CASE ~Busy(s, c)'
    <3>1. Spares(c)
      BY SparesAll
    <3> QED
      BY <1>1, <1>6, <2>1, <2>2, <2>3, <3>1, OtherQuiet
  <2>4. CASE Busy(s, c)'
    <3>1. m.client = c /\ m.kind \in SessionKinds
      BY <1>3, <2>4 DEF Busy
    <3>2. ~Upsets(m)
      BY <3>1
    <3>3. \A d \in Slots : ~Busy(d, c)
      BY <3>1, <3>2 DEF Upsets, Active, Busy
    <3>5. ASSUME NEW d \in Slots, d # s PROVE ~Busy(d, c)'
      BY <1>1, <3>3, <3>5, OtherBusy
    <3>6. Turn(s, c)'
      BY <1>2 DEF Turn
    <3>7. \A d \in Slots : Turn(d, c)'
      BY <3>5, <3>6 DEF Turn
    <3>8. Ended(c)'
      BY <2>1 DEF Quiet, Ended, Live
    <3>9. One(c)'
      BY <2>1 DEF Quiet, One
    <3> QED
      BY <3>5, <3>7, <3>8, <3>9 DEF Quiet
  <2> QED
    BY <2>3, <2>4
<1> QED
  BY <1>5, <1>6, <1>7 DEF Sessions

LEMMA RejectSessions ==
    ASSUME Inv, Inv', Sessions, Grows, UNCHANGED <<job, claims, access, refresh, loggedOut>>,
           upset \subseteq upset'
    PROVE  Sessions'
<1>1. Roots'
  BY DEF Sessions, Roots
<1>2. \A s \in Slots : Placed(s)'
  BY OtherPlaced DEF Sessions
<1>3. ASSUME NEW c \in WebClients \ upset' PROVE Quiet(c)'
  <2>1. c \in Clients /\ Quiet(c)
    BY RequestsAssumption DEF Sessions
  <2>2. ASSUME NEW d \in Slots PROVE Busy(d, c)' <=> Busy(d, c)
    BY OtherBusy
  <2>3. Spares(c)
    BY SparesAll
  <2>4. \A d \in Slots : Turn(d, c)'
    BY <1>1, <2>1, <2>3, OtherTurn DEF Quiet
  <2>5. Ended(c)' /\ One(c)'
    BY <2>1 DEF Quiet, Ended, One, Live
  <2> QED
    BY <2>1, <2>2, <2>4, <2>5 DEF Quiet
<1> QED
  BY <1>1, <1>2, <1>3 DEF Sessions

(* A message arrives, for the first time or again.                          *)
LEMMA ArriveSessions ==
    ASSUME Inv, Sessions, NEW s \in Slots, Arrive(s) \/ ArriveAgain(s) PROVE Sessions'
<1>0. Inv' /\ job[s].at = "idle" /\ UNCHANGED <<claims, access, refresh, logins, loggedOut>>
  BY ArriveInv DEF Arrive, ArriveAgain
<1>1. PICK n, m : /\ n \in 1 .. Len(sent') /\ sent'[n] = m
                  /\ Len(sent) <= Len(sent')
                  /\ \A i \in 1 .. Len(sent) : sent'[i] = sent[i]
                  /\ IsReplayRequest(s, n, m)
  <2>1. CASE Arrive(s)
    <3>1. PICK m \in Messages : sent' = Append(sent, m) /\ IsReplayRequest(s, Len(sent) + 1, m)
      BY <2>1 DEF Arrive
    <3>2. m \in MessageSet
      BY <3>1, MessagesTyped
    <3>3. /\ Len(sent') = Len(sent) + 1 /\ sent'[Len(sent) + 1] = m
          /\ \A i \in 1 .. Len(sent) : sent'[i] = sent[i]
      BY <3>1, <3>2, Numbers
    <3>4. Len(sent) + 1 \in 1 .. Len(sent') /\ Len(sent) <= Len(sent')
      BY <3>3, Numbers
    <3> QED
      BY <3>1, <3>3, <3>4
  <2>2. CASE ArriveAgain(s)
    <3>1. PICK n \in 1 .. Len(sent) : IsReplayRequest(s, n, sent[n])
      BY <2>2 DEF ArriveAgain
    <3>2. sent' = sent
      BY <2>2 DEF ArriveAgain
    <3> QED
      BY <3>1, <3>2, Numbers
  <2> QED
    BY <2>1, <2>2
<1>2. Grows
  BY <1>0, <1>1 DEF Inv, Typed, Grows
<1>3. upset' = IF Upsets(m) THEN upset \union {m.client} ELSE upset
  BY <1>1 DEF IsReplayRequest
<1>4. CASE job' = job
  BY <1>0, <1>2, <1>3, <1>4, RejectSessions
<1>5. CASE job' = [job EXCEPT ![s] = [NoJob EXCEPT !.at = "auth", !.nonce = n]]
  BY <1>0, <1>1, <1>2, <1>3, <1>5, PassSessions
<1> QED
  BY <1>1, <1>4, <1>5 DEF IsReplayRequest, Reject, Pass

LEMMA NextSessions == Inv /\ Sessions /\ [Next]_vars => Sessions'
<1> SUFFICES ASSUME Inv, Sessions, [Next]_vars PROVE Sessions'
  OBVIOUS
<1>0. Inv'
  BY NextInv
<1>1. ASSUME NEW s \in Slots, Arrive(s) \/ ArriveAgain(s) \/ Serve(s) PROVE Sessions'
  BY <1>1, ArriveSessions, AuthSessions, CaptchaSessions, AuthorizeSessions,
     GenerateAccessTokenSessions, GenerateTokenPairSessions, RevokeSessions,
     RefreshCredentialSessions, RefreshRotateSessions, LogoutRefreshSessions, AnswerSessions
     DEF Serve
<1>2. CASE Tick \/ Expire \/ Horizon \/ UNCHANGED vars
  <2>1. /\ UNCHANGED <<sent, claims, job, logins, loggedOut, upset>>
        /\ access' \subseteq access /\ refresh' \subseteq refresh
    BY <1>2 DEF Tick, Expire, Horizon, vars, external, redis, history
  <2> QED
    BY <1>0, <2>1, StillSessions
<1> QED
  BY <1>1, <1>2 DEF Next

(* Once the handler of a web client's logout is done, no token of its       *)
(* session is left or comes back, whatever pairs its later requests present *)
(* and whatever failed, unless two of its session requests overlapped or    *)
(* Redis failed to revoke one of its tokens.                                *)
THEOREM LogoutsEndSessions == Spec => []LogoutEndsSession
<1>1. Inv /\ Sessions => LogoutEndsSession
  <2> SUFFICES ASSUME Inv, Sessions, NEW p \in access \cup refresh,
                      claims[p].root \in loggedOut, claims[p].client \in WebClients \ upset
               PROVE  FALSE
    BY DEF LogoutEndsSession
  <2>1. PICK c, r : c = claims[p].client /\ r = claims[p].root
    OBVIOUS
  <2>2. p \in 1 .. Len(claims)
    BY DEF Inv, Typed
  <2>3. claims[r].client = c
    BY <2>1, <2>2, RootFacts
  <2>4. p \in Live(r)
    BY <2>1 DEF Live
  <2> QED
    BY <2>1, <2>3, <2>4 DEF Sessions, Quiet, Ended
<1>2. Spec => [](Inv /\ Sessions)
  BY InitInv, InitSessions, NextInv, NextSessions, PTL DEF Spec
<1> QED
  BY <1>1, <1>2, PTL
=============================================================================
