------------------------------ MODULE Session ------------------------------
(***************************************************************************)
(* The login session of the frontend: lib/auth-server.ts with the route    *)
(* handlers of app/api/auth, the proxy and the server actions.             *)
(*                                                                         *)
(* A BROWSER keeps the session in cookies: the access token ("session"),   *)
(* the refresh token and, during a login, the pair oauth_state and         *)
(* code_verifier.  A request carries the cookies of the moment it is sent; *)
(* its response changes the cookies of the moment it arrives.  A PROCESS   *)
(* of the Next.js server keeps, in module variables, the refresh and the   *)
(* discovery that are under way and the discovered server.  AUTHENTIK      *)
(* issues tokens and revokes a refresh token when it issues its successor. *)
(*                                                                         *)
(* A GRANT is one answer of the token endpoint: an access token, with or   *)
(* without a refresh token, of one user.  An ATTEMPT is one state with its *)
(* code_verifier.  The id_token goes with the session cookie and is left   *)
(* out.  Code between two awaits that only touch memory is one step.       *)
(***************************************************************************)
EXTENDS Integers, FiniteSets

CONSTANTS
    Browsers, Users,
    Procs,        \* Next.js server processes
    Requests,     \* requests that can be under way at the same time
    Ops,          \* the requests this instance makes
    Faults,       \* what may go wrong or run out in this instance
    MaxGrants,    \* bound: the token endpoint refuses any further grant
    MaxAttempts,  \* bound: no login is started after this many
    Readable,     \* do access tokens carry the claims sub, email and exp?
    None

AllOps == {"session", "logout", "action", "authorize", "callback"}

AllFaults == {"reply lost", "token lost", "login expires", "server expires", "restart"}

ASSUME SessionAssumption ==
    /\ Ops \subseteq AllOps
    /\ Faults \subseteq AllFaults
    /\ MaxGrants \in Nat /\ MaxAttempts \in Nat
    /\ Readable \in BOOLEAN
    /\ None \notin Browsers \cup Users \cup Procs \cup Requests \cup Nat

Grants == 1 .. MaxGrants
Attempts == 1 .. MaxAttempts

VARIABLES
    who,        \* Authentik: the user of each grant, None if not issued yet
    access,     \* its access token: "fresh", "late" (under 30 s) or "expired"
    refresh,    \* its refresh token: "none", "valid" or "used"
    asked,      \* Authentik: the browser each attempt was redirected from
    signer,     \* Authentik: who signed in there, the user of its code
    spent,      \* Authentik: the attempts whose code was exchanged
    jar,        \* each browser's cookies
    known,      \* _as of each process: "none", "young" or "old" (over 1 h)
    discovery,  \* _asRefreshPromise: the request that discovers, or None
    refreshing, \* _refreshSessionPromise: the request that refreshes, or None
    req         \* what each request was sent with and where it is

authentik == <<who, access, refresh, asked, signer, spent>>
server == <<known, discovery, refreshing>>
vars == <<authentik, jar, server, req>>

NoCookies == [session |-> None, refresh |-> None, login |-> None]
Idle == [pc |-> "idle", op |-> "session", b |-> None, p |-> None,
         sent |-> NoCookies, attempt |-> None, grant |-> None, reply |-> "none"]

PCs == {"idle", "sent", "await", "server", "discovering", "joined", "token",
        "settle", "reply"}
\* The places of a request that runs doRefreshSession or exchangeCodeForTokens.
Calling == {"server", "discovering", "joined", "token", "settle"}

Init ==
    /\ who = [g \in Grants |-> None]
    /\ access = [g \in Grants |-> "fresh"]
    /\ refresh = [g \in Grants |-> "none"]
    /\ asked = [a \in Attempts |-> None]
    /\ signer = [a \in Attempts |-> None]
    /\ spent = {}
    /\ jar = [b \in Browsers |-> NoCookies]
    /\ known = [p \in Procs |-> "none"]
    /\ discovery = [p \in Procs |-> None]
    /\ refreshing = [p \in Procs |-> None]
    /\ req = [r \in Requests |-> Idle]

-----------------------------------------------------------------------------
(* The browser                                                             *)

\* Of the cookies a request carries, those its handler reads.
Reads(op, c) ==
    CASE op = "session" -> [c EXCEPT !.login = None]
      [] op = "action" -> [NoCookies EXCEPT !.session = c.session]
      [] op = "callback" -> [NoCookies EXCEPT !.login = c.login]
      [] OTHER -> NoCookies

Send(r, b, p, op, attempt, pc) ==
    /\ op \in Ops
    /\ req[r].pc = "idle"
    /\ req' = [req EXCEPT ![r] =
                  [Idle EXCEPT !.pc = pc, !.op = op, !.b = b, !.p = p,
                               !.sent = Reads(op, jar[b]), !.attempt = attempt]]
    /\ UNCHANGED <<jar, server>>

AskSession(r, b, p) ==
    Send(r, b, p, "session", None, "sent") /\ UNCHANGED authentik

AskLogout(r, b, p) ==
    Send(r, b, p, "logout", None, "sent") /\ UNCHANGED authentik

\* A server action is posted to a dashboard page: the proxy lets it through
\* with an unexpired session, and redirects it to a login otherwise.
AskAction(r, b, p) ==
    /\ jar[b].session # None
    /\ access[jar[b].session] # "expired"
    /\ Send(r, b, p, "action", None, "sent")
    /\ UNCHANGED authentik

Unused(a) == asked[a] = None /\ \A q \in Requests : req[q].attempt # a

\* The login button or that redirect: GET /api/auth/authorize answers at once
\* with a new state and verifier and a redirect to Authentik.
AskAuthorize(r, b, p) ==
    \E a \in Attempts :
        /\ Unused(a)
        /\ \A x \in 1 .. a - 1 : ~Unused(x)
        /\ Send(r, b, p, "authorize", a, "reply")
        /\ UNCHANGED authentik

\* A user signs in where an attempt was redirected from, and the link back is
\* opened, there or in another browser, once or more often.
AskCallback(r, b, p, a, u) ==
    /\ asked[a] # None
    /\ signer[a] \in {None, u}
    /\ signer' = [signer EXCEPT ![a] = u]
    /\ Send(r, b, p, "callback", a, "sent")
    /\ UNCHANGED <<who, access, refresh, asked, spent>>

\* Mutant: a missing refresh token is stored, too, as the text "undefined" (0).
Apply_Undefined(c, q) ==
    CASE q.op = "authorize" -> [c EXCEPT !.login = q.attempt]
      [] q.reply = "clear" -> [c EXCEPT !.session = None, !.refresh = None]
      [] q.reply = "tokens" ->
             [session |-> q.grant,
              refresh |-> IF refresh[q.grant] = "none" THEN 0 ELSE q.grant,
              login |-> IF q.op = "callback" THEN None ELSE c.login]
      [] OTHER -> c

\* Set-Cookie headers, applied to the cookies the browser has by now: a grant
\* without a refresh token leaves the refresh token of an earlier one.
Apply(c, q) ==
    CASE q.op = "authorize" -> [c EXCEPT !.login = q.attempt]
      [] q.reply = "clear" -> [c EXCEPT !.session = None, !.refresh = None]
      [] q.reply = "tokens" ->
             [session |-> q.grant,
              refresh |-> IF refresh[q.grant] = "none" THEN c.refresh ELSE q.grant,
              login |-> IF q.op = "callback" THEN None ELSE c.login]
      [] OTHER -> c

Receive(r) ==
    LET q == req[r]
    IN  /\ q.pc = "reply"
        /\ jar' = [jar EXCEPT ![q.b] = Apply(@, q)]
        /\ asked' = IF q.op = "authorize" THEN [asked EXCEPT ![q.attempt] = q.b]
                    ELSE asked
        /\ req' = [req EXCEPT ![r] = Idle]
        /\ UNCHANGED <<who, access, refresh, signer, spent, server>>

\* The browser has gone elsewhere: nobody takes the response.
LoseReply(r) ==
    /\ "reply lost" \in Faults
    /\ req[r].pc = "reply"
    /\ req' = [req EXCEPT ![r] = Idle]
    /\ UNCHANGED <<authentik, jar, server>>

\* maxAge of the login cookies, 300 s.  (That of the session cookie is the
\* life of its token: a missing one is treated like an expired one.)
DropLogin(b) ==
    /\ "login expires" \in Faults
    /\ jar[b].login # None
    /\ jar' = [jar EXCEPT ![b].login = None]
    /\ UNCHANGED <<authentik, server, req>>

-----------------------------------------------------------------------------
(* getSession                                                              *)

\* decodeJwtPayload and "exp > now + 30".
Usable(g) == g # None /\ Readable /\ access[g] = "fresh"

\* Of a request that is answered only the response is kept.
Answered(q, reply) == [q EXCEPT !.pc = "reply", !.reply = reply, !.sent = NoCookies,
                                !.attempt = None,
                                !.grant = IF reply = "tokens" THEN @ ELSE None]
Answer(r, reply) == req' = [req EXCEPT ![r] = Answered(@, reply)]
Goto(r, pc) == req' = [req EXCEPT ![r].pc = pc]

AtGetSession(r) == req[r].pc = "sent" /\ req[r].op = "session"

\* A usable token, or neither a usable nor a refresh token: nothing to wait for.
AnswerNow(r) ==
    /\ AtGetSession(r)
    /\ Usable(req[r].sent.session) \/ req[r].sent.refresh = None
    /\ Answer(r, "none")
    /\ UNCHANGED <<authentik, jar, server>>

NeedsRefresh(r) ==
    /\ AtGetSession(r)
    /\ ~Usable(req[r].sent.session)
    /\ req[r].sent.refresh # None

JoinRefresh(r) ==
    /\ NeedsRefresh(r)
    /\ refreshing[req[r].p] # None
    /\ Goto(r, "await")
    /\ UNCHANGED <<authentik, jar, server>>

\* Mutant: the promise is only stored once the request has been sent.
StartRefresh_LatePromise(r) ==
    /\ NeedsRefresh(r)
    /\ refreshing[req[r].p] = None
    /\ Goto(r, "server")
    /\ UNCHANGED <<authentik, jar, server>>

StartRefresh(r) ==
    /\ NeedsRefresh(r)
    /\ refreshing[req[r].p] = None
    /\ refreshing' = [refreshing EXCEPT ![req[r].p] = r]
    /\ Goto(r, "server")
    /\ UNCHANGED <<authentik, jar, known, discovery>>

Waiters(r) == {q \in Requests : req[q].pc = "await" /\ req[q].p = req[r].p}

Outcome(r) == IF req[r].grant # None /\ Readable THEN "tokens" ELSE "clear"

\* Mutants: those who awaited the refresh write the cookies as well; they are
\* not told of its end.
SettleRefresh_AllWrite(r) ==
    /\ req[r].pc = "settle"
    /\ req[r].op = "session"
    /\ refreshing' = [refreshing EXCEPT ![req[r].p] = None]
    /\ req' = [q \in Requests |->
                  IF q \in {r} \cup Waiters(r)
                  THEN Answered([req[q] EXCEPT !.grant = req[r].grant], Outcome(r))
                  ELSE req[q]]
    /\ UNCHANGED <<authentik, jar, known, discovery>>

SettleRefresh_TellsNobody(r) ==
    /\ req[r].pc = "settle"
    /\ req[r].op = "session"
    /\ refreshing' = [refreshing EXCEPT ![req[r].p] = None]
    /\ Answer(r, Outcome(r))
    /\ UNCHANGED <<authentik, jar, known, discovery>>

\* The promise is resolved and forgotten.  Only the request that made the
\* call writes cookies; those who awaited it return its result.  A token that
\* cannot be decoded, or no token, clears the cookies.
SettleRefresh(r) ==
    /\ req[r].pc = "settle"
    /\ req[r].op = "session"
    /\ refreshing' = [refreshing EXCEPT ![req[r].p] = None]
    /\ req' = [q \in Requests |->
          CASE q = r -> Answered(req[r], Outcome(r))
            [] q \in Waiters(r) -> Answered(req[q], "none")
            [] OTHER -> req[q]]
    /\ UNCHANGED <<authentik, jar, known, discovery>>

-----------------------------------------------------------------------------
(* getAuthServer                                                           *)

\* Logout wants the end_session endpoint only, and does without on an error.
Proceed(q, found) ==
    CASE q.op = "logout" -> Answered(q, "clear")
      [] q.op # "logout" /\ found -> [q EXCEPT !.pc = "token"]
      [] OTHER -> [q EXCEPT !.pc = "settle"]

ServerKnown(r) ==
    /\ req[r].pc = "server"
    /\ known[req[r].p] = "young"
    /\ req' = [req EXCEPT ![r] = Proceed(@, TRUE)]
    /\ UNCHANGED <<authentik, jar, server>>

JoinDiscovery(r) ==
    /\ req[r].pc = "server"
    /\ known[req[r].p] # "young"
    /\ discovery[req[r].p] # None
    /\ Goto(r, "joined")
    /\ UNCHANGED <<authentik, jar, server>>

StartDiscovery(r) ==
    /\ req[r].pc = "server"
    /\ known[req[r].p] # "young"
    /\ discovery[req[r].p] = None
    /\ discovery' = [discovery EXCEPT ![req[r].p] = r]
    /\ Goto(r, "discovering")
    /\ UNCHANGED <<authentik, jar, known, refreshing>>

\* An error falls back to an old answer, if there is one.
FinishDiscovery(r) ==
    LET p == req[r].p
        told == {r} \cup {q \in Requests : req[q].pc = "joined" /\ req[q].p = p}
    IN  /\ req[r].pc = "discovering"
        /\ \E ok \in BOOLEAN :
               /\ known' = IF ok THEN [known EXCEPT ![p] = "young"] ELSE known
               /\ req' = [q \in Requests |->
                             IF q \in told
                             THEN Proceed(req[q], ok \/ known[p] # "none")
                             ELSE req[q]]
        /\ discovery' = [discovery EXCEPT ![p] = None]
        /\ UNCHANGED <<authentik, jar, refreshing>>

-----------------------------------------------------------------------------
(* The token endpoint                                                      *)

\* A new grant of user u; withRefresh: Authentik issues a refresh token, too.
Issue(r, u, withRefresh) ==
    \E g \in Grants :
        /\ who[g] = None
        /\ g - 1 \in Grants => who[g - 1] # None
        /\ who' = [who EXCEPT ![g] = u]
        /\ refresh' = [h \in Grants |->
               CASE h = g /\ withRefresh -> "valid"
                 [] h = req[r].sent.refresh /\ req[r].op = "session" /\ withRefresh -> "used"
                 [] OTHER -> refresh[h]]
        /\ \E delivered \in BOOLEAN :
               /\ ~delivered => "token lost" \in Faults
               /\ req' = [req EXCEPT ![r].pc = "settle",
                                     ![r].grant = IF delivered THEN g ELSE None]
        /\ UNCHANGED <<access, asked, signer, jar, server>>

\* refreshTokenGrantRequest: a valid refresh token is exchanged.
RefreshGrant(r) ==
    LET g == req[r].sent.refresh
    IN  /\ req[r].pc = "token"
        /\ req[r].op = "session"
        /\ refresh[g] = "valid"
        /\ \E withRefresh \in BOOLEAN : Issue(r, who[g], withRefresh)
        /\ UNCHANGED spent

\* validateAuthResponse, and Authentik's check of the code_verifier.
StateMatches(r) == req[r].sent.login = req[r].attempt

\* authorizationCodeGrantRequest: a code is good for one exchange.
CodeGrant(r) ==
    LET a == req[r].attempt
    IN  /\ req[r].pc = "token"
        /\ req[r].op = "callback"
        /\ StateMatches(r)
        /\ a \notin spent
        /\ spent' = spent \cup {a}
        /\ \E withRefresh \in BOOLEAN : Issue(r, signer[a], withRefresh)

\* invalid_grant, another error, no answer, or a state that does not match.
GrantFails(r) ==
    /\ req[r].pc = "token"
    /\ Goto(r, "settle")
    /\ UNCHANGED <<authentik, jar, server>>

-----------------------------------------------------------------------------
(* Callback, logout, server actions                                        *)

HandleCallback(r) ==
    /\ req[r].pc = "sent"
    /\ req[r].op = "callback"
    /\ IF req[r].sent.login = None THEN Answer(r, "none") ELSE Goto(r, "server")
    /\ UNCHANGED <<authentik, jar, server>>

\* On an error the login cookies stay.
FinishCallback(r) ==
    /\ req[r].pc = "settle"
    /\ req[r].op = "callback"
    /\ Answer(r, IF req[r].grant # None THEN "tokens" ELSE "none")
    /\ UNCHANGED <<authentik, jar, server>>

HandleLogout(r) ==
    /\ req[r].pc = "sent"
    /\ req[r].op = "logout"
    /\ Goto(r, "server")
    /\ UNCHANGED <<authentik, jar, server>>

\* withAuth: a 401, for a token expired by now or no longer accepted, and the
\* 403 of a blocked account clear the cookies.
HandleAction(r) ==
    /\ req[r].pc = "sent"
    /\ req[r].op = "action"
    /\ \E denied \in BOOLEAN :
           /\ access[req[r].sent.session] = "expired" => denied
           /\ Answer(r, IF denied THEN "clear" ELSE "none")
    /\ UNCHANGED <<authentik, jar, server>>

-----------------------------------------------------------------------------
(* Time and crashes                                                        *)

\* Only of a token somebody may still present.
Age(g) ==
    /\ \/ \E b \in Browsers : jar[b].session = g
       \/ \E r \in Requests : req[r].sent.session = g
    /\ access[g] # "expired"
    /\ access' = [access EXCEPT ![g] = IF @ = "fresh" THEN "late" ELSE "expired"]
    /\ UNCHANGED <<who, refresh, asked, signer, spent, jar, server, req>>

\* AS_TTL_MS has passed.
AgeServer(p) ==
    /\ "server expires" \in Faults
    /\ known[p] = "young"
    /\ known' = [known EXCEPT ![p] = "old"]
    /\ UNCHANGED <<authentik, jar, discovery, refreshing, req>>

\* The process is restarted; its requests are answered by nobody.
Restart(p) ==
    /\ "restart" \in Faults
    /\ known' = [known EXCEPT ![p] = "none"]
    /\ discovery' = [discovery EXCEPT ![p] = None]
    /\ refreshing' = [refreshing EXCEPT ![p] = None]
    /\ req' = [r \in Requests |->
                  IF req[r].p = p /\ req[r].pc # "reply" THEN Idle ELSE req[r]]
    /\ UNCHANGED <<authentik, jar>>

-----------------------------------------------------------------------------
Ask ==
    \E r \in Requests, b \in Browsers, p \in Procs :
        \/ AskSession(r, b, p) \/ AskLogout(r, b, p)
        \/ AskAction(r, b, p) \/ AskAuthorize(r, b, p)
        \/ \E a \in Attempts, u \in Users : AskCallback(r, b, p, a, u)

Step(r) ==
    \/ AnswerNow(r) \/ JoinRefresh(r) \/ StartRefresh(r) \/ SettleRefresh(r)
    \/ ServerKnown(r) \/ JoinDiscovery(r) \/ StartDiscovery(r) \/ FinishDiscovery(r)
    \/ RefreshGrant(r) \/ CodeGrant(r) \/ GrantFails(r)
    \/ HandleCallback(r) \/ FinishCallback(r) \/ HandleLogout(r) \/ HandleAction(r)
    \/ Receive(r) \/ LoseReply(r)

Next ==
    \/ Ask
    \/ \E r \in Requests : Step(r)
    \/ \E b \in Browsers : DropLogin(b)
    \/ \E g \in Grants : Age(g)
    \/ \E p \in Procs : AgeServer(p) \/ Restart(p)

Spec == Init /\ [][Next]_vars

\* The event loop runs every handler on, and each call it awaits ends, if only
\* by the timeouts of fetch; nobody is obliged to send a request.
FairSpec == Spec /\ \A r \in Requests : WF_vars(Step(r))

-----------------------------------------------------------------------------
Cookies == [session : Grants \cup {None}, refresh : Grants \cup {None},
            login : Attempts \cup {None}]

Reqs == [pc : PCs, op : AllOps, b : Browsers \cup {None}, p : Procs \cup {None},
         sent : Cookies, attempt : Attempts \cup {None}, grant : Grants \cup {None},
         reply : {"none", "clear", "tokens"}]

TypeOK ==
    /\ who \in [Grants -> Users \cup {None}]
    /\ access \in [Grants -> {"fresh", "late", "expired"}]
    /\ refresh \in [Grants -> {"none", "valid", "used"}]
    /\ asked \in [Attempts -> Browsers \cup {None}]
    /\ signer \in [Attempts -> Users \cup {None}]
    /\ spent \subseteq Attempts
    /\ jar \in [Browsers -> Cookies]
    /\ known \in [Procs -> {"none", "young", "old"}]
    /\ discovery \in [Procs -> Requests \cup {None}]
    /\ refreshing \in [Procs -> Requests \cup {None}]
    /\ req \in [Requests -> Reqs]

\* "Only one concurrent refresh per process" (auth-server.ts:297) and "only one
\* concurrent discovery request" (:38): the promise is there exactly while its
\* request is on its way, through every await, error and restart, and whoever
\* waits has something to wait for.
SingleFlight ==
    \A p \in Procs :
        /\ \A r \in Requests :
               req[r].p = p /\ req[r].op = "session" /\ req[r].pc \in Calling
                   <=> refreshing[p] = r
        /\ \A r \in Requests :
               req[r].p = p /\ req[r].pc = "discovering" <=> discovery[p] = r
        /\ \A r \in Requests :
               req[r].p = p =>
                   /\ req[r].pc = "await" => refreshing[p] # None
                   /\ req[r].pc = "joined" => discovery[p] # None

\* The users who signed in where an attempt of this browser was redirected.
SignedIn(b) == {signer[a] : a \in {x \in Attempts : asked[x] = b}}

\* However logins, refreshes, logouts and restarts of several browsers overlap,
\* a browser's cookies are tokens of a user who signed in in that browser.
JarIsOwn ==
    \A b \in Browsers :
        \A g \in {jar[b].session, jar[b].refresh} \ {None} :
            who[g] # None /\ who[g] \in SignedIn(b)

\* Every request is answered: no promise is awaited that nobody resolves.
EveryRequestAnswered ==
    \A r \in Requests : req[r].pc # "idle" ~> req[r].pc = "idle"

\* The promise is there for "parallel SSR renders sharing the same refresh
\* token" (auth-server.ts:274-275): who awaits a refresh, and is answered with
\* its session, has presented a refresh token of the same user.
WaitersShareUser ==
    \A r \in Requests :
        req[r].pc = "await" =>
            who[req[r].sent.refresh] = who[req[refreshing[req[r].p]].sent.refresh]
=============================================================================
