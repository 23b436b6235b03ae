------------------------------- MODULE Access -------------------------------
(***************************************************************************)
(* Who may do what: AuthManager and the gates a request passes in          *)
(* AuthHandlers, AdminHandlers and SqlHandlers, in the order of the code.  *)
(* The settings change, the clock advances, servers stop and start and the *)
(* database closes between any two gates.                                  *)
(***************************************************************************)
EXTENDS Cookie, FiniteSets

CONSTANTS
    Tokens,        \* tokens clients present; "" stands for white space only
    ServerToken,   \* token := of harbor_serve
    PrincipalOf,   \* PrincipalIdHex: token -> text
    HarborNames,   \* values of harbor_authorization_function, as the parts
                   \* between the dots in lower case and without white space
    QuackNames,    \* values of quack_authorization_function
    Ttls,          \* values of harbor_auth_cookie_ttl_s
    DefaultTtl,    \* kDefaultCookieTtlSec
    TtlCap,        \* kCookieMaxAgeCap
    MaxClock, MaxServers, MaxLogins, MaxSets  \* bounds

ASSUME AccessAssumption ==
    /\ "" \notin Tokens /\ ServerToken \in Tokens
    /\ \A t \in Tokens : /\ PrincipalOf[t] \in Seq(HexDigits)
                         /\ IsValidPrincipalHex(PrincipalOf[t])
    /\ {<< >>} \subseteq HarborNames \intersect QuackNames
    /\ Ttls \subseteq Nat /\ DefaultTtl \in Nat \ {0} /\ TtlCap \in Nat
    /\ MaxClock \in Nat /\ MaxServers \in Nat /\ MaxSets \in Nat
    /\ MaxClock + TtlCap <= 99  \* the times that ToText can write

VARIABLES
    harborAuthz, quackAuthz, allowAdmin, sets, \* settings, changes so far
    dbOpen, clock,
    up, servers,          \* a server runs; servers started so far
    unauthenticated, authzName, customAuthz, customAuthn, signingKey,
                          \* AuthManager
    request,              \* the request being handled
    logins,               \* history: what the logins answered
    allowed               \* history: allowAdmin was TRUE since the start

settings == <<harborAuthz, quackAuthz, allowAdmin, sets>>
manager  ==
    <<unauthenticated, authzName, customAuthz, customAuthn, signingKey>>
vars == <<settings, dbOpen, clock, up, servers, manager, request, logins,
          allowed>>

LocalDev == << >>  \* LocalDevPrincipalId(), which is no principal hex

-----------------------------------------------------------------------------
(* The handlers: the gates of a route in their order, and the answers its  *)
(* work may end with besides 200.  503 tells that the database is closed.  *)

\* "origin" admits the server's own origin and the CORS list, "listed" only
\* the list.  "act" is what the route is for, after the checks of its body.
HandleSql ==
    [gates |-> <<"parse", "authenticate", "origin", "session", "authorize",
                 "act">>,
     failures |-> {400, 500, 504}]

HandleLogin == [gates |-> <<"token", "issue", "answer">>, failures |-> {}]

Plain == <<"authenticate", "authorize", "act">>

HandleWhoami   == [gates |-> Plain, failures |-> {}]
HandleSessions == [gates |-> Plain, failures |-> {}]
HandleTables   == [gates |-> Plain, failures |-> {500, 503, 504}]
HandleSchema   == [gates |-> Plain, failures |-> {400, 404, 500, 503, 504}]

HandleSessionNew    == [gates |-> Plain, failures |-> {429, 500}]
HandleSessionDelete == [gates |-> Plain, failures |-> {404}]

HandleSqlCancel ==
    [gates |-> <<"authenticate", "origin", "authorize", "act">>,
     failures |-> {400, 404, 413, 415}]

HandleInterrupt ==
    [gates |-> <<"authenticate", "listed", "authorize", "act">>,
     failures |-> {400, 404, 413, 415}]

HandleCheckpoint ==
    [gates |-> <<"authenticate", "listed", "authorize", "act">>,
     failures |-> {409, 413, 415, 500, 503, 504}]

Handlers ==
    [sql |-> HandleSql, login |-> HandleLogin,
     whoami |-> HandleWhoami, sessions |-> HandleSessions,
     tables |-> HandleTables, schema |-> HandleSchema,
     new |-> HandleSessionNew, delete |-> HandleSessionDelete,
     cancel |-> HandleSqlCancel, interrupt |-> HandleInterrupt,
     checkpoint |-> HandleCheckpoint]

Routes == DOMAIN Handlers
AdminRoutes == Routes \ {"sql", "login"}
BrowserRoutes == {"sql", "cancel", "interrupt", "checkpoint"}
Origins == {"none", "own", "listed", "foreign"}

NoRequest ==
    [route |-> "none", gates |-> << >>, status |-> 0, principal |-> LocalDev,
     source |-> "none", token |-> "", cookie |-> << >>,
     since |-> 0, ttl |-> 0, text |-> "sql", origin |-> "none",
     decided |-> "none"]

Init ==
    /\ harborAuthz \in HarborNames /\ quackAuthz \in QuackNames
    /\ allowAdmin \in BOOLEAN /\ sets = 0
    /\ dbOpen = TRUE /\ clock = 0
    /\ up = FALSE /\ servers = 0
    /\ unauthenticated = FALSE /\ authzName = << >>
    /\ customAuthz = FALSE /\ customAuthn = FALSE /\ signingKey = NoKey
    /\ request = NoRequest
    /\ logins = {}
    /\ allowed = FALSE

-----------------------------------------------------------------------------
(* The settings, the clock, the database and the server.                   *)

Set ==
    /\ servers > 0 /\ sets < MaxSets
    /\ sets' = sets + 1
    /\ \/ /\ \E name \in HarborNames \ {harborAuthz} : harborAuthz' = name
          /\ UNCHANGED <<quackAuthz, allowAdmin>>
       \/ /\ \E name \in QuackNames \ {quackAuthz} : quackAuthz' = name
          /\ UNCHANGED <<harborAuthz, allowAdmin>>
       \/ /\ allowAdmin' = ~allowAdmin
          /\ UNCHANGED <<harborAuthz, quackAuthz>>
    /\ allowed' = (allowed \/ allowAdmin')
    /\ UNCHANGED <<dbOpen, clock, up, servers, manager, request, logins>>

\* (Nothing reads the clock before a server runs.)
Tick ==
    /\ servers > 0 /\ clock < MaxClock
    /\ clock' = clock + 1
    /\ UNCHANGED <<settings, dbOpen, up, servers, manager, request, logins,
                   allowed>>

CloseDatabase ==
    /\ dbOpen
    /\ dbOpen' = FALSE
    /\ UNCHANGED <<settings, clock, up, servers, manager, request, logins,
                   allowed>>

Builtins == {"harbor_nop_authorization", "quack_nop_authorization"}

IsBuiltinNopAuthz(name) == name # << >> /\ name[Len(name)] \in Builtins

Resolved ==
    CASE harborAuthz # << >> -> harborAuthz
      [] quackAuthz # << >> -> quackAuthz
      [] OTHER -> <<"harbor_nop_authorization">>

\* A new AuthManager looks the function names up, once; it has no key yet.
Start(u, c) ==
    /\ ~up /\ dbOpen /\ servers < MaxServers
    /\ up' = TRUE
    /\ servers' = servers + 1
    /\ unauthenticated' = u
    /\ customAuthn' = c
    /\ authzName' = Resolved
    /\ customAuthz' = ~IsBuiltinNopAuthz(Resolved)
    /\ allowed' = allowAdmin
    /\ UNCHANGED <<settings, dbOpen, clock, signingKey, request, logins>>

\* Stop waits for the requests, and the AuthManager goes with its server.
Stop ==
    /\ up /\ request = NoRequest
    /\ up' = FALSE
    /\ unauthenticated' = FALSE /\ authzName' = << >>
    /\ customAuthz' = FALSE /\ customAuthn' = FALSE /\ signingKey' = NoKey
    /\ allowed' = FALSE
    /\ UNCHANGED <<settings, dbOpen, clock, servers, request, logins>>

-----------------------------------------------------------------------------
(* AuthManager.                                                            *)

\* CookieSigningKey: drawn when it is first used; no two servers draw alike.
Key == IF signingKey = NoKey THEN servers ELSE signingKey

\* What RunAuthentication may answer; a query that fails answers no.
Authentication(token) ==
    CASE unauthenticated -> {TRUE}
      [] ~unauthenticated /\ ~dbOpen -> {FALSE}
      [] ~unauthenticated /\ dbOpen /\ customAuthn -> BOOLEAN
      [] OTHER -> {token = ServerToken, FALSE}

\* Slip: the settings are read again for every request.
AuthorizationLive(text) ==
    IF \/ ~dbOpen
       \/ /\ text = "admin"
          /\ ~allowAdmin
          /\ harborAuthz = << >> \/ IsBuiltinNopAuthz(harborAuthz)
          /\ quackAuthz = << >> \/ IsBuiltinNopAuthz(quackAuthz)
    THEN {FALSE} ELSE BOOLEAN

\* What RunAuthorization may answer: admin strings are denied unless a policy
\* was configured at the start or the setting allows them now.
Authorization(text) ==
    IF \/ ~dbOpen
       \/ text = "admin" /\ ~customAuthz /\ ~allowAdmin
    THEN {FALSE} ELSE BOOLEAN

Rejected == [ok |-> FALSE, principal |-> LocalDev, source |-> "none"]
Accepted(p, s) == [ok |-> TRUE, principal |-> p, source |-> s]

Explicit(token, source) ==
    IF token = "" THEN {Rejected}
    ELSE {IF ok THEN Accepted(PrincipalOf[token], source) ELSE Rejected :
            ok \in Authentication(token)}

FromCookie(cookie) ==
    IF cookie # << >> /\ VerifyCookie(Key, cookie, clock)
    THEN {Accepted(CookiePrincipal(cookie), "cookie")}
    ELSE {Rejected}

\* The headers of a request: Authorization as its scheme and token,
\* X-Harbor-Token as its token, each << >> when it is missing, and the cookie.
ExplicitIn(c) == c.authorization # << >> \/ c.harbor # << >>

FirstToken(c) ==
    CASE c.authorization # << >> -> c.authorization[2]
      [] c.authorization = << >> /\ c.harbor # << >> -> c.harbor[1]
      [] OTHER -> ""

FromHeaders(c) ==
    CASE c.authorization # << >> ->
           IF c.authorization[1] = "Bearer"
           THEN Explicit(c.authorization[2], "bearer") ELSE {Rejected}
      [] c.authorization = << >> /\ c.harbor # << >> ->
           Explicit(c.harbor[1], "x_harbor_token")

\* Slip: a token that is refused gives way to the cookie.
AuthenticateOrCookie(c) ==
    CASE unauthenticated -> {Accepted(LocalDev, "local_dev")}
      [] ~unauthenticated /\ ExplicitIn(c) ->
           FromHeaders(c) \union FromCookie(c.cookie)
      [] OTHER -> FromCookie(c.cookie)

\* AuthenticateRequest: Authorization, then X-Harbor-Token, then the cookie,
\* and the first that is there decides.
AuthenticateRequest(c) ==
    CASE unauthenticated -> {Accepted(LocalDev, "local_dev")}
      [] ~unauthenticated /\ ExplicitIn(c) -> FromHeaders(c)
      [] OTHER -> FromCookie(c.cookie)

-----------------------------------------------------------------------------
(* Handling a request.                                                     *)

Environment == <<settings, dbOpen, clock, up, servers, unauthenticated,
                 authzName, customAuthz, customAuthn, allowed>>

Arrive(route, text) ==
    /\ up /\ request = NoRequest
    /\ text = "admin" => route = "sql"
    /\ route = "login" => Cardinality(logins) < MaxLogins
    /\ request' = [NoRequest EXCEPT !.route = route, !.gates = Handlers[route].gates,
                                    !.text = text]
    /\ UNCHANGED <<Environment, signingKey, logins>>

At(gate) == request.gates # << >> /\ Head(request.gates) = gate

Pass(changed) ==
    request' = [changed EXCEPT !.gates = Tail(request.gates)]

\* An error ends the handler and says nothing but its status.
Refuse(status) == request' = [NoRequest EXCEPT !.status = status]

Succeed(changed) ==
    request' = [changed EXCEPT !.gates = << >>, !.status = 200]

\* The body of POST /sql is of the wrong type, too large or malformed; SQL
\* that begins like the synthetic admin strings is refused.
Parse ==
    /\ At("parse")
    /\ \/ request.text # "admin" /\ Pass(request)
       \/ \E s \in {415, 413, 400} : Refuse(s)
    /\ UNCHANGED <<Environment, signingKey, logins>>

Authenticate(c) ==
    /\ At("authenticate")
    /\ \E outcome \in AuthenticateRequest(c) :
         LET shown == [request EXCEPT !.principal = outcome.principal,
                         !.source = outcome.source,
                         !.since = IF outcome.source = "cookie" THEN clock ELSE 0,
                         !.token = IF unauthenticated THEN "" ELSE FirstToken(c),
                         !.cookie = IF outcome.source = "cookie"
                                    THEN c.cookie ELSE << >>]
         IN IF outcome.ok THEN Pass(shown) ELSE Refuse(401)
    /\ signingKey' = IF ~unauthenticated /\ ~ExplicitIn(c) /\ c.cookie # << >>
                     THEN Key ELSE signingKey
    /\ UNCHANGED <<Environment, logins>>

\* The Origin header, or where there is none the origin of the Referer.
Claimed(origin, referer) == IF origin = "none" THEN referer ELSE origin

\* Slip: without an Origin header the request is let through.
OriginIfAny(origin, referer) ==
    LET claimed == Claimed(origin, referer)
        shown == [request EXCEPT !.origin = claimed]
    IN /\ At("origin")
       /\ IF request.source = "cookie" /\ claimed \notin {"own", "listed", "none"}
          THEN Refuse(403) ELSE Pass(shown)
       /\ UNCHANGED <<Environment, signingKey, logins>>

Origin(origin, referer) ==
    LET claimed == Claimed(origin, referer)
        shown == [request EXCEPT !.origin = claimed]
    IN /\ At("origin")
       /\ IF request.source = "cookie" /\ claimed \notin {"own", "listed"}
          THEN Refuse(403) ELSE Pass(shown)
       /\ UNCHANGED <<Environment, signingKey, logins>>

Listed(origin, referer) ==
    LET claimed == Claimed(origin, referer)
        shown == [request EXCEPT !.origin = claimed]
    IN /\ At("listed")
       /\ IF request.source = "cookie" /\ claimed # "listed"
          THEN Refuse(403) ELSE Pass(shown)
       /\ UNCHANGED <<Environment, signingKey, logins>>

\* The session of POST /sql is unknown or busy, or the database is closed.
Session ==
    /\ At("session")
    /\ \/ dbOpen /\ Pass(request)
       \/ ~dbOpen /\ Refuse(503)
       \/ \E s \in {404, 409} : Refuse(s)
    /\ UNCHANGED <<Environment, signingKey, logins>>

\* POST /sql asks about the client's SQL, the other routes about their own
\* admin string.
Authorize ==
    LET text == IF request.route = "sql" THEN request.text ELSE "admin"
    IN /\ At("authorize")
       /\ \E ok \in Authorization(text) :
            LET shown == [request EXCEPT !.decided = text]
            IN IF ok THEN Pass(shown) ELSE Refuse(403)
       /\ UNCHANGED <<Environment, signingKey, logins>>

Failures ==
    {s \in Handlers[request.route].failures : s = 503 => ~dbOpen}

\* The work needs the database where it may answer 503; a new session needs
\* it too, and a principal hex.
Possible ==
    /\ 503 \in Handlers[request.route].failures => dbOpen
    /\ request.route = "new" => dbOpen /\ IsValidPrincipalHex(request.principal)

Act ==
    /\ At("act")
    /\ \/ Possible /\ Succeed(request)
       \/ \E s \in Failures : Refuse(s)
    /\ UNCHANGED <<Environment, signingKey, logins>>

-----------------------------------------------------------------------------
(* POST /auth/login.                                                       *)

\* CookieTtlSec, for the value the setting has.
CookieTtl(ttl) ==
    LET wanted == IF dbOpen /\ ttl # 0 THEN ttl ELSE DefaultTtl
    IN IF wanted > TtlCap THEN TtlCap ELSE wanted

\* The token of the Authorization header, which must be Bearer where there is
\* one, else of X-Harbor-Token or the body.
Login(c, body) ==
    LET token == IF ExplicitIn(c) THEN FirstToken(c) ELSE body
        bearer == c.authorization # << >> => c.authorization[1] = "Bearer"
    IN /\ At("token")
       /\ \/ ~bearer /\ Refuse(401)
          \/ bearer /\ token = "" /\ \E s \in {400, 413} : Refuse(s)
          \/ /\ bearer /\ token # ""
             /\ \E ok \in Authentication(token) :
                  IF ok THEN Pass([request EXCEPT !.principal = PrincipalOf[token]])
                  ELSE Refuse(401)
       /\ UNCHANGED <<Environment, signingKey, logins>>

\* IssueCookie reads the clock ...
Issue(ttl) ==
    /\ At("issue")
    /\ Pass([request EXCEPT !.since = clock, !.ttl = CookieTtl(ttl),
               !.cookie = IssueCookie(Key, request.principal, clock + CookieTtl(ttl))])
    /\ signingKey' = Key
    /\ UNCHANGED <<Environment, logins>>

\* ... and the answer reads it again: expires_at may be later.
AnswerLogin ==
    /\ At("answer")
    /\ logins' = logins \union
         {[server |-> servers, principal |-> request.principal,
           cookie |-> request.cookie, until |-> request.since + request.ttl,
           told |-> clock + request.ttl]}
    /\ Succeed(request)
    /\ UNCHANGED <<Environment, signingKey>>

Forget ==
    /\ request # NoRequest /\ request.gates = << >>
    /\ request' = NoRequest
    /\ UNCHANGED <<Environment, signingKey, logins>>

-----------------------------------------------------------------------------
\* Cookies a client may present: none, those that were sent, and those in
\* which a segment was exchanged or is missing.
Payloads == {Base64UrlEncode(PrincipalOf[t]) : t \in Tokens}
              \union {Base64UrlEncode(ToText(n)) : n \in {0, 99}}
              \union {<<NoCharacter>>, << >>}
Altered(c) ==
    {<<"v0", c[2], c[3], c[4], c[5]>>, SubSeq(c, 1, 4),
     <<c[1], c[2], c[3], c[4], Hmac(NoKey, << >>)>>}
    \union {<<c[1], p, c[3], c[4], c[5]>> : p \in Payloads}
    \union {<<c[1], c[2], p, c[4], c[5]>> : p \in Payloads}
Sent == {l.cookie : l \in logins}

Authorizations == {<< >>} \union ({"Basic", "Bearer"} \X (Tokens \union {""}))
HarborTokens   == {<< >>} \union {<<t>> : t \in Tokens \union {""}}
Credentials ==
    [authorization : Authorizations, harbor : HarborTokens,
     cookie : {<< >>} \union Sent]
    \union
    [authorization : {<< >>}, harbor : {<< >>},
     cookie : UNION {Altered(c) : c \in Sent}]

Next ==
    \/ Set \/ Tick \/ CloseDatabase
    \/ Start(TRUE, FALSE) \/ \E c \in BOOLEAN : Start(FALSE, c)
    \/ Stop
    \/ \E route \in Routes, text \in {"sql", "admin"} : Arrive(route, text)
    \/ \E c \in Credentials : Authenticate(c)
    \/ \E c \in Credentials, body \in Tokens \union {""} : Login(c, body)
    \/ \E origin, referer \in Origins :
         Origin(origin, referer) \/ Listed(origin, referer)
    \/ Parse \/ Session \/ Authorize \/ Act
    \/ \E ttl \in Ttls : Issue(ttl)
    \/ AnswerLogin \/ Forget

Spec == Init /\ [][Next]_vars

-----------------------------------------------------------------------------
(* Properties.                                                             *)

\* AuthManager's fields, a request, its answer and the logins keep their types.
TypeOK ==
    /\ harborAuthz \in HarborNames /\ quackAuthz \in QuackNames
    /\ allowAdmin \in BOOLEAN /\ sets \in 0..MaxSets
    /\ dbOpen \in BOOLEAN /\ clock \in 0..MaxClock
    /\ up \in BOOLEAN /\ servers \in 0..MaxServers
    /\ unauthenticated \in BOOLEAN /\ customAuthz \in BOOLEAN
    /\ customAuthn \in BOOLEAN /\ signingKey \in 0..MaxServers
    /\ request.route \in Routes \union {"none"}
    /\ request.status \in {0, 200, 400, 401, 403, 404, 409, 413, 415, 429,
                           500, 503, 504}
    /\ request.source \in {"none", "bearer", "x_harbor_token", "cookie", "local_dev"}
    /\ request.ttl \in 0..TtlCap
    /\ \A l \in logins : {l.until, l.told} \subseteq 0..(MaxClock + TtlCap)
    /\ allowed \in BOOLEAN

Done == request.status = 200

\* An admin route answers 200 only under a policy of the operator's that was
\* configured when the server started, by whichever of the two settings, or
\* after harbor_allow_admin_without_authz was on while it ran: nothing that
\* is set later, and no way to write the name of a built-in, opens them.  The
\* policy sees an admin string only when an admin route asks, never as the SQL
\* of a client.
AdminNeedsPolicy ==
    /\ Done /\ request.route \in AdminRoutes =>
        allowed \/ (authzName # << >> /\ authzName[Len(authzName)] \notin Builtins)
    /\ request.decided = "admin" => request.route \in AdminRoutes

\* A cookie stands for its login.  A request whose credential is a cookie
\* presents, whole, the cookie that a login on this very server was answered,
\* acts for the principal that logged in, and comes before the expiry.  And
\* every login's cookie is good on its server until it expires, which is no
\* later than the login was told, nor later than the longest age from now,
\* whatever the setting is.
CookieIsLogin ==
    /\ request.source = "cookie" =>
         \E l \in logins :
            /\ l.server = servers
            /\ l.principal = request.principal
            /\ l.cookie = request.cookie
            /\ request.since < l.until
    /\ \A l \in logins : up /\ l.server = servers =>
         /\ VerifyCookie(Key, l.cookie, clock) <=> clock < l.until
         /\ l.until <= l.told
         /\ l.until <= clock + TtlCap

\* The principal is that of the credential that counts: a token in a header,
\* right or wrong, is never passed over for a cookie, and without
\* authentication no credential makes a difference.
CredentialDecides ==
    request.source # "none" =>
        /\ request.source = "local_dev" <=> unauthenticated
        /\ unauthenticated => request.principal = LocalDev
        /\ request.token # "" =>
              /\ request.source \in {"bearer", "x_harbor_token"}
              /\ request.principal = PrincipalOf[request.token]

\* What a browser sends along by itself is not enough for /sql and the posts
\* with a body: the page must be the server's own or one that was listed.
CookieNeedsOrigin ==
    Done /\ request.route \in BrowserRoutes /\ request.source = "cookie" =>
        request.origin \in {"own", "listed"}
=============================================================================
