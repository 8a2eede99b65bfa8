--------------------------- MODULE SessionProofs ---------------------------
(***************************************************************************)
(* Proofs about Session, for any number of browsers, users, processes,     *)
(* requests, logins and grants, and under every fault.                     *)
(***************************************************************************)
EXTENDS Session, TLAPS

\* A request under way has a browser and a process; one that calls the token
\* endpoint has what it presents there.
PlacedAt(q) ==
    /\ q.pc # "idle" => q.b \in Browsers /\ q.p \in Procs
    /\ q.op = "session" /\ q.pc \in Calling \cup {"await"} => q.sent.refresh # None
    /\ q.op = "callback" /\ q.pc \in Calling \cup {"sent"} => q.attempt # None
    /\ q.op = "action" /\ q.pc = "sent" => q.sent.session # None
    /\ q.op = "authorize" => q.pc = "reply" /\ q.reply = "none"

Placed == \A r \in Requests : PlacedAt(req[r])

TypeInv == TypeOK /\ Placed

-----------------------------------------------------------------------------
(* What the operators that move requests do to a record, field by field.   *)

LEMMA NoneIsNothing ==
    None \notin Browsers /\ None \notin Users /\ None \notin Procs /\ None \notin Requests
    /\ None \notin Grants /\ None \notin Attempts
  BY SessionAssumption DEF Grants, Attempts

LEMMA ReqFields ==
    ASSUME NEW q \in Reqs
    PROVE  /\ q.pc \in PCs /\ q.op \in AllOps
           /\ q.b \in Browsers \cup {None} /\ q.p \in Procs \cup {None}
           /\ q.sent \in Cookies /\ q.attempt \in Attempts \cup {None}
           /\ q.grant \in Grants \cup {None} /\ q.reply \in {"none", "clear", "tokens"}
  BY DEF Reqs

LEMMA CookieFields ==
    ASSUME NEW c \in Cookies
    PROVE  /\ c.session \in Grants \cup {None} /\ c.refresh \in Grants \cup {None}
           /\ c.login \in Attempts \cup {None}
  BY DEF Cookies

\* Only requests of S move, each within its operation, browser and process.
Moved(S) ==
    /\ req' \in [Requests -> Reqs]
    /\ \A q \in Requests : q \notin S => req'[q] = req[q]
    /\ \A q \in S : req'[q].op = req[q].op /\ req'[q].b = req[q].b /\ req'[q].p = req[q].p

\* Request r keeps what it carries, or all that is left of it is its response.
Carries(r) ==
    /\ req'[r].sent = req[r].sent /\ req'[r].attempt = req[r].attempt
    /\ req'[r].grant = req[r].grant /\ req'[r].reply = req[r].reply
Replies(r, reply) ==
    /\ req'[r].pc = "reply" /\ req'[r].reply = reply
    /\ req'[r].sent = NoCookies /\ req'[r].attempt = None
    /\ req'[r].grant = (IF reply = "tokens" THEN req[r].grant ELSE None)

LEMMA GotoEffect ==
    ASSUME req \in [Requests -> Reqs], NEW r \in Requests, NEW pc \in PCs, Goto(r, pc)
    PROVE  Moved({r}) /\ Carries(r) /\ req'[r].pc = pc
  BY DEF Goto, Moved, Carries, Reqs

LEMMA AnsweredFields ==
    ASSUME NEW q \in Reqs, NEW reply \in {"none", "clear", "tokens"}
    PROVE  LET x == Answered(q, reply)
           IN  /\ x \in Reqs
               /\ x.pc = "reply" /\ x.op = q.op /\ x.b = q.b /\ x.p = q.p
               /\ x.sent = NoCookies /\ x.attempt = None
               /\ x.grant = (IF reply = "tokens" THEN q.grant ELSE None)
               /\ x.reply = reply
  BY DEF Reqs, Answered, NoCookies, Cookies, PCs

LEMMA AnswerEffect ==
    ASSUME req \in [Requests -> Reqs], NEW r \in Requests,
           NEW reply \in {"none", "clear", "tokens"}, Answer(r, reply)
    PROVE  Moved({r}) /\ Replies(r, reply)
<1>1. req[r] \in Reqs /\ req' = [req EXCEPT ![r] = Answered(req[r], reply)]
  BY DEF Answer
<1> QED
  BY <1>1, AnsweredFields DEF Moved, Replies

\* A request carries some of its browser's cookies, those its handler reads.
LEMMA CookiesRead ==
    ASSUME NEW c \in Cookies, NEW op \in AllOps
    PROVE  LET x == Reads(op, c)
           IN  /\ x \in Cookies
               /\ x.session \in {c.session, None} /\ x.refresh \in {c.refresh, None}
               /\ x.login \in {c.login, None}
               /\ op = "action" => x.session = c.session
  BY DEF Reads, NoCookies, Cookies, AllOps

LEMMA SendEffect ==
    ASSUME TypeOK, NEW r \in Requests, NEW b \in Browsers, NEW p \in Procs,
           NEW op, NEW a \in Attempts \cup {None}, NEW pc \in PCs,
           Send(r, b, p, op, a, pc)
    PROVE  /\ req[r].pc = "idle" /\ op \in AllOps
           /\ req' \in [Requests -> Reqs]
           /\ \A q \in Requests : q # r => req'[q] = req[q]
           /\ req'[r].pc = pc /\ req'[r].op = op /\ req'[r].b = b /\ req'[r].p = p
           /\ req'[r].sent = Reads(op, jar[b])
           /\ req'[r].attempt = a /\ req'[r].grant = None /\ req'[r].reply = "none"
           /\ UNCHANGED <<jar, server>>
<1> DEFINE x == [Idle EXCEPT !.pc = pc, !.op = op, !.b = b, !.p = p,
                             !.sent = Reads(op, jar[b]), !.attempt = a]
<1>1. op \in AllOps /\ jar[b] \in Cookies
  BY SessionAssumption DEF Send, TypeOK
<1>2. Reads(op, jar[b]) \in Cookies
  BY <1>1, CookiesRead
<1>3. /\ x \in Reqs /\ x.pc = pc /\ x.op = op /\ x.b = b /\ x.p = p
      /\ x.sent = Reads(op, jar[b])
      /\ x.attempt = a /\ x.grant = None /\ x.reply = "none"
  BY <1>1, <1>2 DEF Idle, Reqs
<1>4. /\ req' = [req EXCEPT ![r] = x] /\ req[r].pc = "idle"
      /\ UNCHANGED <<jar, server>>
  BY DEF Send
<1> HIDE DEF x
<1> QED
  BY <1>1, <1>3, <1>4 DEF TypeOK

LEMMA IdleFields ==
    /\ Idle \in Reqs /\ Idle.pc = "idle" /\ Idle.op = "session"
    /\ Idle.b = None /\ Idle.p = None /\ Idle.sent = NoCookies
    /\ Idle.attempt = None /\ Idle.grant = None /\ Idle.reply = "none"
    /\ NoCookies.session = None /\ NoCookies.refresh = None /\ NoCookies.login = None
    /\ NoCookies \in Cookies
  BY DEF Idle, Reqs, NoCookies, Cookies, PCs, AllOps

LEMMA ProceedFields ==
    ASSUME NEW q \in Reqs, NEW found \in BOOLEAN
    PROVE  LET x == Proceed(q, found)
           IN  /\ x \in Reqs /\ x.op = q.op /\ x.b = q.b /\ x.p = q.p
               /\ q.op = "logout" => /\ x.pc = "reply" /\ x.reply = "clear"
                                     /\ x.sent = NoCookies /\ x.attempt = None
                                     /\ x.grant = None
               /\ q.op # "logout" => /\ x.pc \in {"token", "settle"}
                                     /\ x.sent = q.sent /\ x.attempt = q.attempt
                                     /\ x.grant = q.grant /\ x.reply = q.reply
<1>1. CASE q.op = "logout"
  BY <1>1, AnsweredFields DEF Proceed
<1>2. CASE q.op # "logout"
  BY <1>2 DEF Proceed, Reqs, PCs
<1> QED
  BY <1>1, <1>2

\* A response changes the cookies as its record says.
LEMMA ApplyFields ==
    ASSUME NEW c \in Cookies, NEW q \in Reqs, q.op = "authorize" => q.reply = "none"
    PROVE  LET x == Apply(c, q)
           IN  /\ x \in Cookies
               /\ x.session \in {c.session, None} \/ x.session = q.grant
               /\ x.refresh \in {c.refresh, None} \/ x.refresh = q.grant
               /\ x.login \in {c.login, None} \/ (q.op = "authorize" /\ x.login = q.attempt)
<1>1. CASE q.op = "authorize"
  BY <1>1, ReqFields DEF Apply, Cookies
<1>2. CASE q.op # "authorize" /\ q.reply = "clear"
  BY <1>2 DEF Apply, Cookies
<1>3. CASE q.op # "authorize" /\ q.reply = "tokens"
  BY <1>3, ReqFields DEF Apply, Cookies
<1>4. CASE q.op # "authorize" /\ q.reply \notin {"clear", "tokens"}
  BY <1>4 DEF Apply, Cookies
<1> QED
  BY <1>1, <1>2, <1>3, <1>4

\* The token endpoint answers with grant g, of user u.
Issued(r, g, u) ==
    /\ who[g] = None /\ who' = [who EXCEPT ![g] = u]
    /\ refresh' \in [Grants -> {"none", "valid", "used"}]
    /\ Moved({r}) /\ req'[r].pc = "settle"
    /\ req'[r].sent = req[r].sent /\ req'[r].attempt = req[r].attempt
    /\ req'[r].grant \in {g, None} /\ req'[r].reply = req[r].reply
    /\ UNCHANGED <<access, asked, signer, jar, server>>

LEMMA IssueEffect ==
    ASSUME TypeOK, NEW r \in Requests, NEW u \in Users \cup {None},
           NEW withRefresh \in BOOLEAN, Issue(r, u, withRefresh)
    PROVE  \E g \in Grants : Issued(r, g, u)
<1>1. PICK g \in Grants :
          /\ who[g] = None /\ who' = [who EXCEPT ![g] = u]
          /\ refresh' = [h \in Grants |->
                 CASE h = g /\ withRefresh -> "valid"
                   [] h = req[r].sent.refresh /\ req[r].op = "session" /\ withRefresh -> "used"
                   [] OTHER -> refresh[h]]
          /\ \E delivered \in BOOLEAN :
                 req' = [req EXCEPT ![r].pc = "settle",
                                    ![r].grant = IF delivered THEN g ELSE None]
          /\ UNCHANGED <<access, asked, signer, jar, server>>
  BY DEF Issue
<1>2. refresh' \in [Grants -> {"none", "valid", "used"}]
  BY <1>1 DEF TypeOK
<1>3. PICK x \in {g, None} : req' = [req EXCEPT ![r].pc = "settle", ![r].grant = x]
  BY <1>1
<1>4. /\ Moved({r}) /\ req'[r].pc = "settle"
      /\ req'[r].sent = req[r].sent /\ req'[r].attempt = req[r].attempt
      /\ req'[r].grant = x /\ req'[r].reply = req[r].reply
  <2> DEFINE y == [req[r] EXCEPT !.pc = "settle", !.grant = x]
  <2>1. req[r] \in Reqs
    BY DEF TypeOK
  <2>2. /\ y \in Reqs /\ y.pc = "settle" /\ y.grant = x
        /\ y.op = req[r].op /\ y.b = req[r].b /\ y.p = req[r].p
        /\ y.sent = req[r].sent /\ y.attempt = req[r].attempt /\ y.reply = req[r].reply
    BY <2>1 DEF Reqs, PCs
  <2>3. req' = [req EXCEPT ![r] = y]
    BY <1>3, <2>1 DEF TypeOK
  <2> HIDE DEF y
  <2> QED
    BY <2>2, <2>3 DEF Moved, TypeOK
<1> QED
  BY <1>1, <1>2, <1>3, <1>4 DEF Issued

\* The request that refreshes and those that await it are answered together.
LEMMA SettleEffect ==
    ASSUME TypeOK, NEW r \in Requests, SettleRefresh(r)
    PROVE  /\ req[r].pc = "settle" /\ req[r].op = "session"
           /\ Moved({r} \cup Waiters(r))
           /\ \E reply \in {"clear", "tokens"} : Replies(r, reply)
           /\ \A q \in Waiters(r) : Replies(q, "none")
           /\ refreshing' = [refreshing EXCEPT ![req[r].p] = None]
           /\ UNCHANGED <<authentik, jar, known, discovery>>
<1>1. r \notin Waiters(r) /\ Waiters(r) \subseteq Requests
  BY DEF Waiters, SettleRefresh
<1>2. Outcome(r) \in {"clear", "tokens"}
  BY DEF Outcome
<1>3. req' = [q \in Requests |-> IF q = r THEN Answered(req[r], Outcome(r))
                                 ELSE IF q \in Waiters(r) THEN Answered(req[q], "none")
                                 ELSE req[q]]
  BY <1>1, Zenon DEF SettleRefresh
<1>4. \A q \in Requests : req[q] \in Reqs
  BY DEF TypeOK
<1>5. /\ Answered(req[r], Outcome(r)) \in Reqs
      /\ \A q \in Waiters(r) : Answered(req[q], "none") \in Reqs
  BY <1>1, <1>2, <1>4, AnsweredFields
<1>6. Moved({r} \cup Waiters(r))
  BY <1>1, <1>2, <1>3, <1>4, <1>5, AnsweredFields DEF Moved
<1>7. Replies(r, Outcome(r)) /\ \A q \in Waiters(r) : Replies(q, "none")
  BY <1>1, <1>2, <1>3, <1>4, AnsweredFields DEF Replies
<1> QED
  BY <1>2, <1>6, <1>7 DEF SettleRefresh

\* What a request does once it knows the server, or that there is none.
Proceeds(r) ==
    \/ req[r].op = "logout" /\ Replies(r, "clear")
    \/ req[r].op # "logout" /\ Carries(r) /\ req'[r].pc \in {"token", "settle"}

Told(r) == {r} \cup {q \in Requests : req[q].pc = "joined" /\ req[q].p = req[r].p}

LEMMA ProceedEffect ==
    ASSUME TypeOK, NEW S \in SUBSET Requests, NEW found \in BOOLEAN,
           req' = [q \in Requests |-> IF q \in S THEN Proceed(req[q], found) ELSE req[q]]
    PROVE  Moved(S) /\ \A q \in S : Proceeds(q)
<1>1. \A q \in Requests : req[q] \in Reqs
  BY DEF TypeOK
<1>2. \A q \in S : Proceed(req[q], found) \in Reqs
  BY <1>1, ProceedFields
<1>3. Moved(S)
  BY <1>1, <1>2, ProceedFields DEF Moved
<1>4. \A q \in S : Proceeds(q)
  BY <1>1, ProceedFields DEF Proceeds, Replies, Carries
<1> QED
  BY <1>3, <1>4

LEMMA ProceedPlaced ==
    ASSUME NEW r \in Requests, req[r].pc \in {"server", "discovering", "joined"},
           PlacedAt(req[r]), NEW S \in SUBSET Requests, r \in S, Moved(S), Proceeds(r)
    PROVE  PlacedAt(req'[r])
<1>1. req'[r].op = req[r].op /\ req'[r].b = req[r].b /\ req'[r].p = req[r].p
  BY DEF Moved
<1>2. CASE req[r].op = "logout" /\ Replies(r, "clear")
  BY <1>1, <1>2 DEF PlacedAt, Replies, Calling
<1>3. CASE req[r].op # "logout" /\ Carries(r) /\ req'[r].pc \in {"token", "settle"}
  BY <1>1, <1>3 DEF PlacedAt, Carries, Calling
<1> QED
  BY <1>2, <1>3 DEF Proceeds

\* A process that is started anew has forgotten its requests and its promises.
LEMMA RestartEffect ==
    ASSUME TypeOK, NEW p \in Procs, Restart(p)
    PROVE  /\ req' \in [Requests -> Reqs]
           /\ \A r \in Requests : req'[r] = IF req[r].p = p /\ req[r].pc # "reply" THEN Idle
                                            ELSE req[r]
  BY IdleFields DEF Restart, TypeOK

\* A response is taken, or it is not.
LEMMA ReceiveEffect ==
    ASSUME TypeOK, NEW r \in Requests, Receive(r)
    PROVE  /\ req[r].pc = "reply" /\ req' \in [Requests -> Reqs] /\ req'[r] = Idle
           /\ \A q \in Requests : q # r => req'[q] = req[q]
           /\ jar' = [jar EXCEPT ![req[r].b] = Apply(jar[req[r].b], req[r])]
           /\ asked' = IF req[r].op = "authorize"
                       THEN [asked EXCEPT ![req[r].attempt] = req[r].b] ELSE asked
           /\ UNCHANGED <<who, access, refresh, signer, spent, server>>
  BY IdleFields DEF Receive, TypeOK

\* The users for whom the token endpoint is asked.
LEMMA GrantsTyped ==
    ASSUME TypeInv, NEW r \in Requests, req[r].pc = "token"
    PROVE  /\ req[r].op = "session" => /\ req[r].sent.refresh \in Grants
                                       /\ who[req[r].sent.refresh] \in Users \cup {None}
           /\ req[r].op = "callback" => /\ req[r].attempt \in Attempts
                                        /\ signer[req[r].attempt] \in Users \cup {None}
<1>1. req[r] \in Reqs /\ req[r].sent \in Cookies
  BY ReqFields DEF TypeInv, TypeOK
<1> QED
  BY <1>1, ReqFields, CookieFields DEF TypeInv, TypeOK, Placed, PlacedAt, Calling

-----------------------------------------------------------------------------
(* Types.                                                                  *)

LEMMA TypeInvInit == Init => TypeInv
<1> SUFFICES ASSUME Init PROVE TypeInv
  OBVIOUS
<1>1. TypeOK
  BY IdleFields DEF Init, TypeOK
<1>2. Placed
  BY IdleFields DEF Init, Placed, PlacedAt, Calling
<1> QED
  BY <1>1, <1>2 DEF TypeInv

\* A request is sent.
LEMMA TypeAsk ==
    ASSUME TypeInv, NEW r \in Requests, NEW b \in Browsers, NEW p \in Procs,
           \/ AskSession(r, b, p) \/ AskLogout(r, b, p)
           \/ AskAction(r, b, p) \/ AskAuthorize(r, b, p)
           \/ \E a \in Attempts, u \in Users : AskCallback(r, b, p, a, u)
    PROVE  TypeInv'
<1> USE DEF TypeInv, TypeOK, Placed, PlacedAt, authentik, server, Calling, PCs
<1>1. jar[b] \in Cookies
  OBVIOUS
<1>2. CASE AskSession(r, b, p)
  BY <1>2, SendEffect DEF AskSession
<1>3. CASE AskLogout(r, b, p)
  BY <1>3, SendEffect DEF AskLogout
<1>4. CASE AskAction(r, b, p)
  <2>1. Reads("action", jar[b]).session # None
    BY <1>1, <1>4, CookiesRead DEF AskAction, AllOps
  <2> QED
    BY <1>4, <2>1, SendEffect DEF AskAction
<1>5. ASSUME NEW a \in Attempts, Send(r, b, p, "authorize", a, "reply"), UNCHANGED authentik
      PROVE  TypeInv'
  BY <1>5, SendEffect
<1>6. ASSUME NEW a \in Attempts, NEW u \in Users, AskCallback(r, b, p, a, u)
      PROVE  TypeInv'
  BY <1>6, SendEffect, NoneIsNothing DEF AskCallback
<1> QED
  BY <1>2, <1>3, <1>4, <1>5, <1>6 DEF AskAuthorize

\* A request goes on.
LEMMA TypeStep ==
    ASSUME TypeInv, NEW r \in Requests, Step(r)
    PROVE  TypeInv'
<1> USE DEF TypeInv, TypeOK, Placed, authentik, server
<1>0. req[r] \in Reqs
  OBVIOUS
<1>1. CASE AnswerNow(r)
  BY <1>1, AnswerEffect DEF AnswerNow, AtGetSession, Moved, Replies, PlacedAt, Calling, PCs
<1>2. CASE JoinRefresh(r)
  BY <1>2, GotoEffect DEF JoinRefresh, NeedsRefresh, AtGetSession, Moved, Carries, PlacedAt, Calling, PCs
<1>3. CASE StartRefresh(r)
  BY <1>3, GotoEffect DEF StartRefresh, NeedsRefresh, AtGetSession, Moved, Carries, PlacedAt, Calling, PCs
<1>4. CASE SettleRefresh(r)
  BY <1>4, SettleEffect DEF Moved, Replies, Waiters, PlacedAt, Calling, PCs
<1>5. CASE ServerKnown(r)
  <2>1. Moved({r}) /\ Proceeds(r)
    BY <1>5, ProceedEffect DEF ServerKnown
  <2>2. TypeOK'
    BY <1>5, <2>1 DEF ServerKnown, Moved
  <2>3. Placed'
    BY <1>5, <2>1, ProceedPlaced DEF ServerKnown, Moved
  <2> QED
    BY <2>2, <2>3
<1>6. CASE JoinDiscovery(r)
  BY <1>6, GotoEffect DEF JoinDiscovery, Moved, Carries, PlacedAt, Calling, PCs
<1>7. CASE StartDiscovery(r)
  BY <1>7, GotoEffect DEF StartDiscovery, Moved, Carries, PlacedAt, Calling, PCs
<1>8. CASE FinishDiscovery(r)
  <2>1. Moved(Told(r)) /\ \A q \in Told(r) : Proceeds(q)
    BY <1>8, ProceedEffect DEF FinishDiscovery, Told
  <2>2. TypeOK'
    BY <1>8, <2>1 DEF FinishDiscovery, Moved
  <2>3. Placed'
    <3>1. ASSUME NEW q \in Told(r) PROVE PlacedAt(req'[q])
      <4>1. q \in Requests /\ req[q].pc \in {"discovering", "joined"} /\ req[q].p = req[r].p
        BY <1>8 DEF FinishDiscovery, Told
      <4> QED
        BY <2>1, <3>1, <4>1, ProceedPlaced DEF Told
    <3> QED
      BY <2>1, <3>1 DEF Moved
  <2> QED
    BY <2>2, <2>3
<1>9. CASE RefreshGrant(r)
  <2>1. PICK withRefresh \in BOOLEAN : Issue(r, who[req[r].sent.refresh], withRefresh)
    BY <1>9 DEF RefreshGrant
  <2>2. req[r].sent.refresh \in Grants
    BY <1>0, <1>9, ReqFields, CookieFields DEF RefreshGrant, PlacedAt, Calling
  <2>3. who[req[r].sent.refresh] \in Users \cup {None}
    BY <2>2
  <2>4. PICK g \in Grants : Issued(r, g, who[req[r].sent.refresh])
    BY <2>1, <2>3, IssueEffect
  <2>5. UNCHANGED spent
    BY <1>9 DEF RefreshGrant
  <2>6. TypeOK'
    BY <2>3, <2>4, <2>5 DEF Issued, Moved
  <2>7. Placed'
    BY <1>9, <2>4 DEF RefreshGrant, Issued, Moved, PlacedAt, Calling
  <2> QED
    BY <2>6, <2>7
<1>10. CASE CodeGrant(r)
  <2>1. PICK withRefresh \in BOOLEAN : Issue(r, signer[req[r].attempt], withRefresh)
    BY <1>10 DEF CodeGrant
  <2>2. req[r].attempt \in Attempts
    BY <1>0, <1>10, ReqFields DEF CodeGrant, PlacedAt, Calling
  <2>3. PICK g \in Grants : Issued(r, g, signer[req[r].attempt])
    BY <2>1, <2>2, IssueEffect
  <2>4. spent' \subseteq Attempts
    BY <1>10, <2>2 DEF CodeGrant
  <2>5. TypeOK'
    BY <2>2, <2>3, <2>4 DEF Issued, Moved
  <2>6. Placed'
    BY <1>10, <2>3 DEF CodeGrant, Issued, Moved, PlacedAt, Calling
  <2> QED
    BY <2>5, <2>6
<1>11. CASE GrantFails(r)
  BY <1>11, GotoEffect DEF GrantFails, Moved, Carries, PlacedAt, Calling, PCs
<1>12. CASE HandleCallback(r)
  BY <1>12, GotoEffect, AnswerEffect DEF HandleCallback, Moved, Carries, Replies, PlacedAt, Calling, PCs
<1>13. CASE FinishCallback(r)
  BY <1>13, AnswerEffect DEF FinishCallback, Moved, Replies, PlacedAt, Calling, PCs
<1>14. CASE HandleLogout(r)
  BY <1>14, GotoEffect DEF HandleLogout, Moved, Carries, PlacedAt, Calling, PCs
<1>15. CASE HandleAction(r)
  BY <1>15, AnswerEffect DEF HandleAction, Moved, Replies, PlacedAt, Calling, PCs
<1>16. CASE Receive(r)
  <2>1. req[r].b \in Browsers /\ jar[req[r].b] \in Cookies
    BY <1>16 DEF Receive, PlacedAt
  <2>2. Apply(jar[req[r].b], req[r]) \in Cookies
    BY <1>0, <2>1, ApplyFields DEF PlacedAt
  <2>3. jar' \in [Browsers -> Cookies]
    BY <1>16, <2>1, <2>2, ReceiveEffect
  <2>4. asked' \in [Attempts -> Browsers \cup {None}]
    BY <1>16, <2>1, ReceiveEffect
  <2>5. TypeOK'
    BY <1>16, <2>3, <2>4, ReceiveEffect
  <2>6. Placed'
    BY <1>16, ReceiveEffect, IdleFields DEF PlacedAt, Calling
  <2> QED
    BY <2>5, <2>6
<1>17. CASE LoseReply(r)
  BY <1>17, IdleFields DEF LoseReply, PlacedAt, Calling, PCs
<1> QED
  BY <1>1, <1>2, <1>3, <1>4, <1>5, <1>6, <1>7, <1>8, <1>9, <1>10, <1>11, <1>12,
     <1>13, <1>14, <1>15, <1>16, <1>17 DEF Step

LEMMA TypeInvNext == TypeInv /\ [Next]_vars => TypeInv'
<1> SUFFICES ASSUME TypeInv, [Next]_vars PROVE TypeInv'
  OBVIOUS
<1> USE DEF TypeInv, TypeOK, Placed, PlacedAt, authentik, server
<1>1. CASE Ask
  BY <1>1, TypeAsk DEF Ask
<1>2. ASSUME NEW r \in Requests, Step(r) PROVE TypeInv'
  BY <1>2, TypeStep
<1>3. ASSUME NEW b \in Browsers, DropLogin(b) PROVE TypeInv'
  BY <1>3 DEF DropLogin, Cookies
<1>4. ASSUME NEW g \in Grants, Age(g) PROVE TypeInv'
  BY <1>4 DEF Age
<1>5. ASSUME NEW p \in Procs, AgeServer(p) PROVE TypeInv'
  BY <1>5 DEF AgeServer
<1>6. ASSUME NEW p \in Procs, Restart(p) PROVE TypeInv'
  BY <1>6, RestartEffect, IdleFields DEF Restart, Calling
<1>7. CASE UNCHANGED vars
  BY <1>7 DEF vars
<1> QED
  BY <1>1, <1>2, <1>3, <1>4, <1>5, <1>6, <1>7 DEF Next

\* Every variable keeps its type, whatever fails, is lost or expires.
THEOREM SessionTypeCorrect == Spec => []TypeOK
<1>1. TypeInv => TypeOK
  BY DEF TypeInv
<1> QED
  BY <1>1, TypeInvInit, TypeInvNext, PTL DEF Spec

-----------------------------------------------------------------------------
(* The shared promises.                                                    *)

\* A step of one request that neither makes nor resolves a promise: the request
\* holds and awaits none before and after, or it stays what it is to them.
Quiet(q) == q.pc \in {"idle", "sent", "reply"}
Alike(x, y) ==
    \/ Quiet(x) /\ Quiet(y)
    \/ /\ y.p = x.p /\ y.op = x.op
       /\ x.op = "session" => (y.pc \in Calling <=> x.pc \in Calling)
       /\ y.pc = "discovering" <=> x.pc = "discovering"
       /\ y.pc = "await" => refreshing[x.p] # None
       /\ y.pc = "joined" => discovery[x.p] # None

LEMMA AlikeStep ==
    ASSUME SingleFlight, UNCHANGED <<discovery, refreshing>>, NEW r \in Requests,
           \A q \in Requests : q # r => req'[q] = req[q], Alike(req[r], req'[r])
    PROVE  SingleFlight'
<1> SUFFICES ASSUME NEW p \in Procs, NEW q \in Requests
             PROVE  /\ req'[q].p = p /\ req'[q].op = "session" /\ req'[q].pc \in Calling
                           <=> refreshing[p] = q
                    /\ req'[q].p = p /\ req'[q].pc = "discovering" <=> discovery[p] = q
                    /\ req'[q].p = p =>
                          /\ req'[q].pc = "await" => refreshing[p] # None
                          /\ req'[q].pc = "joined" => discovery[p] # None
  BY DEF SingleFlight
<1>1. /\ req[q].p = p /\ req[q].op = "session" /\ req[q].pc \in Calling
             <=> refreshing[p] = q
      /\ req[q].p = p /\ req[q].pc = "discovering" <=> discovery[p] = q
      /\ req[q].p = p => /\ req[q].pc = "await" => refreshing[p] # None
                         /\ req[q].pc = "joined" => discovery[p] # None
  BY DEF SingleFlight
<1>2. CASE q # r
  BY <1>1, <1>2
<1>3. CASE q = r
  BY <1>1, <1>3 DEF Alike, Quiet, Calling
<1> QED
  BY <1>2, <1>3

LEMMA FlightAsk ==
    ASSUME TypeInv, SingleFlight, NEW r \in Requests, NEW b \in Browsers, NEW p \in Procs,
           \/ AskSession(r, b, p) \/ AskLogout(r, b, p)
           \/ AskAction(r, b, p) \/ AskAuthorize(r, b, p)
           \/ \E a \in Attempts, u \in Users : AskCallback(r, b, p, a, u)
    PROVE  SingleFlight'
<1>1. PICK op \in AllOps, a \in Attempts \cup {None}, pc \in {"sent", "reply"} :
          Send(r, b, p, op, a, pc)
  BY DEF AskSession, AskLogout, AskAction, AskAuthorize, AskCallback, AllOps
<1>2. /\ req[r].pc = "idle" /\ req'[r].pc \in {"sent", "reply"}
      /\ \A q \in Requests : q # r => req'[q] = req[q]
      /\ UNCHANGED <<discovery, refreshing>>
  BY <1>1, SendEffect DEF TypeInv, PCs, server
<1> QED
  BY <1>2, AlikeStep DEF Alike, Quiet

LEMMA FlightStep ==
    ASSUME TypeInv, SingleFlight, NEW r \in Requests, Step(r)
    PROVE  SingleFlight'
<1> USE DEF Alike, Quiet
<1>0. /\ TypeOK /\ req \in [Requests -> Reqs]
      /\ req[r].pc # "idle" => req[r].p \in Procs
      /\ refreshing \in [Procs -> Requests \cup {None}]
      /\ discovery \in [Procs -> Requests \cup {None}]
  BY DEF TypeInv, TypeOK, Placed, PlacedAt
<1>1. CASE AnswerNow(r)
  BY <1>0, <1>1, AnswerEffect, AlikeStep DEF AnswerNow, AtGetSession, Moved, Replies, server
<1>2. CASE JoinRefresh(r)
  <2>1. Goto(r, "await") /\ req[r].pc = "sent" /\ refreshing[req[r].p] # None
        /\ UNCHANGED <<discovery, refreshing>>
    BY <1>2 DEF JoinRefresh, NeedsRefresh, AtGetSession, server
  <2>2. Moved({r}) /\ req'[r].pc = "await"
    BY <1>0, <2>1, GotoEffect DEF PCs
  <2> QED
    BY <2>1, <2>2, AlikeStep DEF Moved, Calling
<1>3. CASE StartRefresh(r)
  <2>1. /\ Goto(r, "server") /\ req[r].pc = "sent" /\ req[r].op = "session"
        /\ refreshing[req[r].p] = None /\ UNCHANGED discovery
        /\ refreshing' = [refreshing EXCEPT ![req[r].p] = r]
    BY <1>3 DEF StartRefresh, NeedsRefresh, AtGetSession
  <2>2. Moved({r}) /\ req'[r].pc = "server"
    BY <1>0, <2>1, GotoEffect DEF PCs
  <2> QED
    BY <1>0, <2>1, <2>2, NoneIsNothing DEF Moved, SingleFlight, Calling
<1>4. CASE SettleRefresh(r)
  <2>1. /\ req[r].pc = "settle" /\ req[r].op = "session"
        /\ Moved({r} \cup Waiters(r))
        /\ \A q \in {r} \cup Waiters(r) : req'[q].pc = "reply"
        /\ refreshing' = [refreshing EXCEPT ![req[r].p] = None] /\ UNCHANGED discovery
    BY <1>0, <1>4, SettleEffect DEF Replies
  <2>2. refreshing[req[r].p] = r
    BY <1>0, <2>1 DEF SingleFlight, Calling
  <2> QED
    BY <1>0, <2>1, <2>2, NoneIsNothing DEF Moved, Waiters, SingleFlight, Calling
<1>5. CASE ServerKnown(r)
  <2>1. Moved({r}) /\ Proceeds(r)
    BY <1>0, <1>5, ProceedEffect DEF ServerKnown
  <2>2. /\ req[r].pc = "server" /\ UNCHANGED <<discovery, refreshing>>
        /\ \/ req[r].op = "logout" /\ req'[r].pc = "reply"
           \/ req'[r].pc \in {"token", "settle"}
    BY <1>5, <2>1 DEF ServerKnown, server, Proceeds, Replies
  <2> QED
    BY <2>1, <2>2, AlikeStep DEF Moved, Calling
<1>6. CASE JoinDiscovery(r)
  <2>1. Goto(r, "joined") /\ req[r].pc = "server" /\ discovery[req[r].p] # None
        /\ UNCHANGED <<discovery, refreshing>>
    BY <1>6 DEF JoinDiscovery, server
  <2>2. Moved({r}) /\ req'[r].pc = "joined"
    BY <1>0, <2>1, GotoEffect DEF PCs
  <2> QED
    BY <2>1, <2>2, AlikeStep DEF Moved, Calling
<1>7. CASE StartDiscovery(r)
  <2>1. /\ Goto(r, "discovering") /\ req[r].pc = "server"
        /\ discovery[req[r].p] = None /\ UNCHANGED refreshing
        /\ discovery' = [discovery EXCEPT ![req[r].p] = r]
    BY <1>7 DEF StartDiscovery
  <2>2. Moved({r}) /\ req'[r].pc = "discovering"
    BY <1>0, <2>1, GotoEffect DEF PCs
  <2> QED
    BY <1>0, <2>1, <2>2, NoneIsNothing DEF Moved, SingleFlight, Calling
<1>8. CASE FinishDiscovery(r)
  <2>1. Moved(Told(r)) /\ \A q \in Told(r) : Proceeds(q)
    BY <1>0, <1>8, ProceedEffect DEF FinishDiscovery, Told
  <2>2. /\ req[r].pc = "discovering" /\ UNCHANGED refreshing
        /\ discovery' = [discovery EXCEPT ![req[r].p] = None]
    BY <1>8 DEF FinishDiscovery
  <2>3. ASSUME NEW q \in Told(r)
        PROVE  /\ q \in Requests /\ req[q].pc \in {"discovering", "joined"}
               /\ req[q].p = req[r].p /\ req'[q].p = req[q].p /\ req'[q].op = req[q].op
               /\ \/ req[q].op = "logout" /\ req'[q].pc = "reply"
                  \/ req'[q].pc \in {"token", "settle"}
    BY <2>1, <2>2 DEF Told, Moved, Proceeds, Replies
  <2>4. discovery[req[r].p] = r
    BY <1>0, <2>2 DEF SingleFlight
  <2>5. \A q \in Requests : q \notin Told(r) =>
            /\ req'[q] = req[q]
            /\ req[q].pc = "joined" => req[q].p # req[r].p
    BY <2>1 DEF Moved, Told
  <2>6. req[r].p \in Procs /\ r \in Told(r)
    BY <1>0, <2>2 DEF Told
  <2> HIDE DEF Told
  <2> SUFFICES ASSUME NEW p \in Procs, NEW q \in Requests
               PROVE  /\ req'[q].p = p /\ req'[q].op = "session" /\ req'[q].pc \in Calling
                             <=> refreshing'[p] = q
                      /\ req'[q].p = p /\ req'[q].pc = "discovering" <=> discovery'[p] = q
                      /\ req'[q].p = p =>
                            /\ req'[q].pc = "await" => refreshing'[p] # None
                            /\ req'[q].pc = "joined" => discovery'[p] # None
    BY DEF SingleFlight
  <2>7. /\ req[q].p = p /\ req[q].op = "session" /\ req[q].pc \in Calling
               <=> refreshing[p] = q
        /\ req[q].p = p /\ req[q].pc = "discovering" <=> discovery[p] = q
        /\ req[q].p = p => /\ req[q].pc = "await" => refreshing[p] # None
                           /\ req[q].pc = "joined" => discovery[p] # None
    BY DEF SingleFlight
  <2>8. discovery'[p] = (IF p = req[r].p THEN None ELSE discovery[p])
    BY <1>0, <2>2, <2>6
  <2>9. CASE q \in Told(r)
    BY <2>2, <2>3, <2>4, <2>7, <2>8, <2>9, NoneIsNothing DEF Calling
  <2>10. CASE q \notin Told(r)
    BY <2>2, <2>4, <2>5, <2>6, <2>7, <2>8, <2>10, NoneIsNothing
  <2> QED
    BY <2>9, <2>10
<1>9. CASE RefreshGrant(r)
  <2>1. PICK withRefresh \in BOOLEAN : Issue(r, who[req[r].sent.refresh], withRefresh)
    BY <1>9 DEF RefreshGrant
  <2>2. req[r].pc = "token" /\ who[req[r].sent.refresh] \in Users \cup {None}
    BY <1>9, GrantsTyped DEF RefreshGrant
  <2>3. PICK g \in Grants : Issued(r, g, who[req[r].sent.refresh])
    BY <1>0, <2>1, <2>2, IssueEffect
  <2> QED
    BY <2>2, <2>3, AlikeStep DEF Issued, Moved, server, Calling
<1>10. CASE CodeGrant(r)
  <2>1. PICK withRefresh \in BOOLEAN : Issue(r, signer[req[r].attempt], withRefresh)
    BY <1>10 DEF CodeGrant
  <2>2. req[r].pc = "token" /\ signer[req[r].attempt] \in Users \cup {None}
    BY <1>10, GrantsTyped DEF CodeGrant
  <2>3. PICK g \in Grants : Issued(r, g, signer[req[r].attempt])
    BY <1>0, <2>1, <2>2, IssueEffect
  <2> QED
    BY <2>2, <2>3, AlikeStep DEF Issued, Moved, server, Calling
<1>11. CASE GrantFails(r)
  BY <1>0, <1>11, GotoEffect, AlikeStep DEF GrantFails, Moved, server, Calling, PCs
<1>12. CASE HandleCallback(r)
  <2>1. /\ req[r].pc = "sent" /\ req[r].op = "callback"
        /\ UNCHANGED <<discovery, refreshing>>
        /\ (Answer(r, "none") \/ Goto(r, "server"))
    BY <1>12 DEF HandleCallback, server
  <2>2. Moved({r}) /\ req'[r].pc \in {"reply", "server"}
    BY <1>0, <2>1, GotoEffect, AnswerEffect DEF Replies, PCs
  <2> QED
    BY <2>1, <2>2, AlikeStep DEF Moved
<1>13. CASE FinishCallback(r)
  BY <1>0, <1>13, AnswerEffect, AlikeStep DEF FinishCallback, Moved, Replies, server
<1>14. CASE HandleLogout(r)
  BY <1>0, <1>14, GotoEffect, AlikeStep DEF HandleLogout, Moved, server, PCs
<1>15. CASE HandleAction(r)
  BY <1>0, <1>15, AnswerEffect, AlikeStep DEF HandleAction, Moved, Replies, server
<1>16. CASE Receive(r)
  BY <1>0, <1>16, ReceiveEffect, IdleFields, AlikeStep DEF server
<1>17. CASE LoseReply(r)
  BY <1>0, <1>17, IdleFields, AlikeStep DEF LoseReply, server
<1> QED
  BY <1>1, <1>2, <1>3, <1>4, <1>5, <1>6, <1>7, <1>8, <1>9, <1>10, <1>11, <1>12,
     <1>13, <1>14, <1>15, <1>16, <1>17 DEF Step

LEMMA FlightNext == TypeInv /\ SingleFlight /\ [Next]_vars => SingleFlight'
<1> SUFFICES ASSUME TypeInv, SingleFlight, [Next]_vars PROVE SingleFlight'
  OBVIOUS
<1>1. CASE Ask
  BY <1>1, FlightAsk DEF Ask
<1>2. ASSUME NEW r \in Requests, Step(r) PROVE SingleFlight'
  BY <1>2, FlightStep
<1>3. ASSUME UNCHANGED <<req, discovery, refreshing>> PROVE SingleFlight'
  BY <1>3 DEF SingleFlight
<1>4. ASSUME NEW p \in Procs, Restart(p) PROVE SingleFlight'
  <2>1. /\ discovery \in [Procs -> Requests \cup {None}]
        /\ refreshing \in [Procs -> Requests \cup {None}]
        /\ discovery' = [discovery EXCEPT ![p] = None]
        /\ refreshing' = [refreshing EXCEPT ![p] = None]
    BY <1>4 DEF Restart, TypeInv, TypeOK
  <2>2. \A r \in Requests :
            \/ req'[r].pc \in {"idle", "reply"} /\ req[r].p = p
            \/ req'[r] = req[r] /\ req[r].p # p
    BY <1>4, RestartEffect, IdleFields DEF TypeInv
  <2> QED
    BY <2>1, <2>2, NoneIsNothing DEF SingleFlight, Calling
<1> QED
  BY <1>1, <1>2, <1>3, <1>4 DEF Next, DropLogin, Age, AgeServer, vars, server

\* Each process has at most one refresh and one discovery under way, which is
\* the one its promise stands for, and nobody awaits a promise that is not there.
THEOREM OneRefreshAtATime == Spec => []SingleFlight
<1>1. Init => SingleFlight
  BY IdleFields, NoneIsNothing DEF Init, SingleFlight, Calling
<1> QED
  BY <1>1, TypeInvInit, TypeInvNext, FlightNext, PTL DEF Spec

-----------------------------------------------------------------------------
(* Whose tokens these are.                                                 *)

\* Attempt a was redirected from browser b; the user of grant g signed in at
\* one of the attempts of b.
Mine(b, a) == b \in Browsers /\ asked[a] = b
Owned(b, g) == who[g] # None /\ \E a \in Attempts : Mine(b, a) /\ signer[a] = who[g]

\* The cookies c hold tokens and a state of browser b.
HoldsOwn(b, c) ==
    /\ c.session # None => Owned(b, c.session)
    /\ c.refresh # None => Owned(b, c.refresh)
    /\ c.login # None => Mine(b, c.login)

\* So do the cookies a request was sent with and the grant it will answer with;
\* a callback is one of an attempt at which somebody has signed in.
CarriesOwn(q) ==
    /\ HoldsOwn(q.b, q.sent)
    /\ q.grant # None => Owned(q.b, q.grant)
    /\ q.op = "callback" /\ q.attempt # None =>
           asked[q.attempt] # None /\ signer[q.attempt] # None

JarsOwn == \A b \in Browsers : HoldsOwn(b, jar[b])
RequestsOwn == \A r \in Requests : CarriesOwn(req[r])

\* Until its response is taken, an attempt belongs to one request for a login.
AttemptsFresh ==
    \A r \in Requests :
        req[r].op = "authorize" =>
            /\ req[r].attempt # None /\ asked[req[r].attempt] = None
            /\ \A q \in Requests : q # r => req[q].attempt # req[r].attempt

OwnInv == JarsOwn /\ RequestsOwn /\ AttemptsFresh

\* What Authentik has learnt of users and browsers it does not forget.
Learns ==
    /\ \A g \in Grants : who[g] # None => who'[g] = who[g]
    /\ \A a \in Attempts : asked[a] # None => asked'[a] = asked[a]
    /\ \A a \in Attempts : signer[a] # None => signer'[a] = signer[a]

LEMMA StillMine ==
    ASSUME Learns, NEW b, NEW a \in Attempts, Mine(b, a)
    PROVE  Mine(b, a)'
  BY NoneIsNothing DEF Learns, Mine

LEMMA StillOwned ==
    ASSUME Learns, NEW b, NEW g \in Grants, Owned(b, g)
    PROVE  Owned(b, g)'
<1>1. PICK a \in Attempts : Mine(b, a) /\ signer[a] = who[g] /\ who[g] # None
  BY DEF Owned
<1>2. Mine(b, a)' /\ signer'[a] = who'[g] /\ who'[g] # None
  BY <1>1, StillMine DEF Learns
<1> QED
  BY <1>2 DEF Owned

LEMMA StillHolds ==
    ASSUME Learns, NEW b, NEW c \in Cookies, HoldsOwn(b, c)
    PROVE  HoldsOwn(b, c)'
  BY CookieFields, StillMine, StillOwned DEF HoldsOwn

LEMMA StillCarries ==
    ASSUME Learns, NEW q \in Reqs, CarriesOwn(q)
    PROVE  CarriesOwn(q)'
<1>1. HoldsOwn(q.b, q.sent)'
  BY ReqFields, StillHolds DEF CarriesOwn
<1>2. q.grant # None => Owned(q.b, q.grant)'
  BY ReqFields, StillOwned DEF CarriesOwn
<1>3. q.op = "callback" /\ q.attempt # None =>
          asked'[q.attempt] # None /\ signer'[q.attempt] # None
  BY ReqFields DEF CarriesOwn, Learns
<1> QED
  BY <1>1, <1>2, <1>3 DEF CarriesOwn

\* A request that keeps, of what it carries, some or nothing.
Fewer(x, y) ==
    \/ y = x \/ y = Idle
    \/ /\ x.op # "authorize" /\ y.op = x.op /\ y.b = x.b
       /\ y.sent = x.sent \/ y.sent = NoCookies
       /\ y.grant = x.grant \/ y.grant = None
       /\ y.attempt = x.attempt \/ y.attempt = None

LEMMA FewerCarries ==
    ASSUME Learns, NEW x \in Reqs, NEW y, CarriesOwn(x), Fewer(x, y)
    PROVE  CarriesOwn(y)'
<1>1. CarriesOwn(x)'
  BY StillCarries
<1>2. CarriesOwn(Idle)'
  BY IdleFields DEF CarriesOwn, HoldsOwn
<1>3. HoldsOwn(x.b, NoCookies)'
  BY IdleFields DEF HoldsOwn
<1> QED
  BY <1>1, <1>2, <1>3 DEF Fewer, CarriesOwn

LEMMA OwnFewer ==
    ASSUME TypeOK, OwnInv, UNCHANGED <<who, asked, signer, jar>>,
           \A q \in Requests : Fewer(req[q], req'[q])
    PROVE  OwnInv'
<1>1. Learns
  BY DEF Learns
<1>2. JarsOwn'
  BY <1>1, StillHolds DEF JarsOwn, OwnInv, TypeOK
<1>3. RequestsOwn'
  BY <1>1, FewerCarries DEF RequestsOwn, OwnInv, TypeOK
<1>4. \A q \in Requests : /\ req'[q].op = "authorize" => req'[q] = req[q]
                          /\ req'[q].attempt \in {req[q].attempt, None}
  BY IdleFields DEF Fewer
<1>5. AttemptsFresh'
  BY <1>4 DEF AttemptsFresh, OwnInv
<1> QED
  BY <1>2, <1>3, <1>5 DEF OwnInv

\* A grant of a user who signed in at an attempt of the request's browser.
LEMMA OwnGrant ==
    ASSUME TypeOK, OwnInv, NEW r \in Requests, NEW g \in Grants, NEW u \in Users \cup {None},
           Issued(r, g, u), req[r].op # "authorize", u # None,
           NEW a \in Attempts, Mine(req[r].b, a), signer[a] = u
    PROVE  OwnInv'
<1>1. Learns /\ who'[g] = u
  BY DEF Learns, Issued, TypeOK
<1>2. JarsOwn'
  BY <1>1, StillHolds DEF JarsOwn, OwnInv, TypeOK, Issued
<1>3. PICK x \in Reqs : x = req[r] /\ CarriesOwn(x)
  BY DEF TypeOK, OwnInv, RequestsOwn
<1>4. Mine(x.b, a)' /\ Owned(x.b, g)'
  BY <1>1, <1>3, StillMine DEF Owned, Issued
<1>5. CarriesOwn(x)'
  BY <1>1, <1>3, StillCarries
<1>6. /\ req'[r].op = x.op /\ req'[r].b = x.b /\ req'[r].sent = x.sent
      /\ req'[r].attempt = x.attempt /\ req'[r].grant \in {g, None}
      /\ \A q \in Requests : q # r => req'[q] = req[q]
      /\ asked' = asked
  BY <1>3 DEF Issued, Moved
<1>7. RequestsOwn'
  <2>1. CarriesOwn(req[r])'
    BY <1>4, <1>5, <1>6 DEF CarriesOwn
  <2>2. ASSUME NEW q \in Requests, q # r PROVE CarriesOwn(req[q])'
    <3>1. PICK y \in Reqs : y = req[q] /\ CarriesOwn(y)
      BY DEF TypeOK, OwnInv, RequestsOwn
    <3>2. CarriesOwn(y)'
      BY <1>1, <3>1, StillCarries
    <3> QED
      BY <1>6, <2>2, <3>1, <3>2
  <2> QED
    BY <2>1, <2>2 DEF RequestsOwn
<1>8. AttemptsFresh'
  BY <1>3, <1>6 DEF AttemptsFresh, OwnInv
<1> QED
  BY <1>2, <1>7, <1>8 DEF OwnInv

\* A response is taken by the browser that sent the request; that of a login
\* tells Authentik which browser the attempt was redirected from.
LEMMA OwnReceive ==
    ASSUME TypeInv, OwnInv, NEW r \in Requests, Receive(r)
    PROVE  OwnInv'
<1>1. PICK q \in Reqs : q = req[r] /\ CarriesOwn(q) /\ PlacedAt(q)
  BY DEF TypeInv, TypeOK, Placed, OwnInv, RequestsOwn
<1>2. /\ q.pc = "reply" /\ q.b \in Browsers
      /\ q.op = "authorize" => q.reply = "none"
      /\ jar' = [jar EXCEPT ![q.b] = Apply(jar[q.b], q)]
      /\ asked' = IF q.op = "authorize" THEN [asked EXCEPT ![q.attempt] = q.b] ELSE asked
      /\ req'[r] = Idle /\ \A x \in Requests : x # r => req'[x] = req[x]
      /\ UNCHANGED <<who, signer>>
  BY <1>1, ReceiveEffect DEF TypeInv, PlacedAt
<1>3. q.op = "authorize" =>
          /\ q.attempt \in Attempts /\ asked[q.attempt] = None
          /\ \A x \in Requests : x # r => req[x].attempt # q.attempt
  BY <1>1, ReqFields DEF OwnInv, AttemptsFresh
<1>4. Learns
  BY <1>2, <1>3 DEF Learns, TypeInv, TypeOK
<1>5. JarsOwn'
  <2>1. PICK c \in Cookies : c = jar[q.b] /\ HoldsOwn(q.b, c)
    BY <1>2 DEF TypeInv, TypeOK, OwnInv, JarsOwn
  <2>2. HoldsOwn(q.b, c)'
    BY <1>4, <2>1, StillHolds
  <2>3. q.grant # None => Owned(q.b, q.grant)'
    BY <1>1, <1>4, StillCarries DEF CarriesOwn
  <2>4. q.op = "authorize" => Mine(q.b, q.attempt)'
    BY <1>2, <1>3 DEF Mine, TypeInv, TypeOK
  <2>5. PICK d \in Cookies :
            /\ d = Apply(c, q)
            /\ d.session \in {c.session, None} \/ d.session = q.grant
            /\ d.refresh \in {c.refresh, None} \/ d.refresh = q.grant
            /\ d.login \in {c.login, None} \/ (q.op = "authorize" /\ d.login = q.attempt)
    BY <1>2, ApplyFields
  <2>6. HoldsOwn(q.b, d)'
    BY <2>2, <2>3, <2>4, <2>5 DEF HoldsOwn
  <2>7. \A b \in Browsers : jar'[b] = IF b = q.b THEN d ELSE jar[b]
    BY <1>2, <2>1, <2>5 DEF TypeInv, TypeOK
  <2>8. ASSUME NEW b \in Browsers, b # q.b PROVE HoldsOwn(b, jar[b])'
    <3>1. PICK e \in Cookies : e = jar[b] /\ HoldsOwn(b, e)
      BY DEF TypeInv, TypeOK, OwnInv, JarsOwn
    <3>2. HoldsOwn(b, e)'
      BY <1>4, <3>1, StillHolds
    <3> QED
      BY <2>7, <2>8, <3>1, <3>2
  <2> QED
    BY <2>6, <2>7, <2>8 DEF JarsOwn
<1>6. RequestsOwn'
  <2>1. CarriesOwn(req[r])'
    BY <1>2, IdleFields DEF CarriesOwn, HoldsOwn
  <2>2. ASSUME NEW x \in Requests, x # r PROVE CarriesOwn(req[x])'
    <3>1. PICK y \in Reqs : y = req[x] /\ CarriesOwn(y)
      BY DEF TypeInv, TypeOK, OwnInv, RequestsOwn
    <3>2. CarriesOwn(y)'
      BY <1>4, <3>1, StillCarries
    <3> QED
      BY <1>2, <2>2, <3>1, <3>2
  <2> QED
    BY <2>1, <2>2 DEF RequestsOwn
<1>7. AttemptsFresh'
  <2>1. ASSUME NEW x \in Requests, req'[x].op = "authorize"
        PROVE  /\ req'[x].attempt # None /\ asked'[req'[x].attempt] = None
               /\ \A y \in Requests : y # x => req'[y].attempt # req'[x].attempt
    <3>1. x # r /\ req'[x] = req[x]
      BY <1>2, <2>1, IdleFields
    <3>2. /\ req[x].attempt \in Attempts /\ asked[req[x].attempt] = None
          /\ \A y \in Requests : y # x => req[y].attempt # req[x].attempt
      BY <2>1, <3>1, ReqFields DEF OwnInv, AttemptsFresh, TypeInv, TypeOK
    <3>3. asked'[req[x].attempt] = None
      BY <1>2, <1>3, <3>1, <3>2 DEF TypeInv, TypeOK
    <3> QED
      BY <1>2, <3>1, <3>2, <3>3, IdleFields, NoneIsNothing
  <2> QED
    BY <2>1 DEF AttemptsFresh
<1> QED
  BY <1>5, <1>6, <1>7 DEF OwnInv

\* A request carries cookies of its browser; that of a login has an attempt of
\* its own, and a callback one that was redirected and signed in at.
LEMMA OwnSend ==
    ASSUME TypeInv, OwnInv, Learns, asked' = asked, UNCHANGED who,
           NEW r \in Requests, NEW b \in Browsers, NEW p \in Procs, NEW op,
           NEW a \in Attempts \cup {None}, NEW pc \in PCs, Send(r, b, p, op, a, pc),
           op = "callback" => asked[a] # None /\ signer'[a] # None,
           op = "authorize" => a # None /\ Unused(a),
           a = None \/ op = "authorize" \/ asked[a] # None
    PROVE  OwnInv'
<1>1. /\ op \in AllOps /\ UNCHANGED jar
      /\ \A q \in Requests : q # r => req'[q] = req[q]
      /\ req'[r].op = op /\ req'[r].b = b /\ req'[r].sent = Reads(op, jar[b])
      /\ req'[r].attempt = a /\ req'[r].grant = None
  <2>1. TypeOK
    BY DEF TypeInv
  <2>2. /\ req[r].pc = "idle" /\ op \in AllOps
        /\ req' \in [Requests -> Reqs]
        /\ \A q \in Requests : q # r => req'[q] = req[q]
        /\ req'[r].pc = pc /\ req'[r].op = op /\ req'[r].b = b /\ req'[r].p = p
        /\ req'[r].sent = Reads(op, jar[b])
        /\ req'[r].attempt = a /\ req'[r].grant = None /\ req'[r].reply = "none"
        /\ UNCHANGED <<jar, server>>
    BY <2>1, SendEffect, Zenon
  <2> QED
    BY <2>2
<1>2. ASSUME NEW x \in Browsers PROVE HoldsOwn(x, jar[x])'
  <2>1. PICK e \in Cookies : e = jar[x] /\ HoldsOwn(x, e)
    BY DEF TypeInv, TypeOK, OwnInv, JarsOwn
  <2>2. HoldsOwn(x, e)'
    BY <2>1, StillHolds
  <2> QED
    BY <1>1, <2>1, <2>2
<1>3. CarriesOwn(req[r])'
  <2>1. PICK c \in Cookies : c = jar[b] /\ HoldsOwn(b, c)'
    BY <1>1, <1>2 DEF TypeInv, TypeOK
  <2>2. PICK d \in Cookies :
            /\ d = Reads(op, c) /\ d.session \in {c.session, None}
            /\ d.refresh \in {c.refresh, None} /\ d.login \in {c.login, None}
    BY <1>1, CookiesRead
  <2>3. HoldsOwn(b, d)'
    BY <2>1, <2>2 DEF HoldsOwn
  <2> QED
    BY <1>1, <2>1, <2>2, <2>3 DEF CarriesOwn
<1>4. ASSUME NEW x \in Requests, x # r PROVE CarriesOwn(req[x])'
  <2>1. PICK y \in Reqs : y = req[x] /\ CarriesOwn(y)
    BY DEF TypeInv, TypeOK, OwnInv, RequestsOwn
  <2>2. CarriesOwn(y)'
    BY <2>1, StillCarries
  <2> QED
    BY <1>1, <1>4, <2>1, <2>2
<1>5. AttemptsFresh'
  BY <1>1 DEF AttemptsFresh, OwnInv, Unused
<1> QED
  BY <1>2, <1>3, <1>4, <1>5 DEF OwnInv, JarsOwn, RequestsOwn

LEMMA OwnAsk ==
    ASSUME TypeInv, OwnInv, NEW r \in Requests, NEW b \in Browsers, NEW p \in Procs,
           \/ AskSession(r, b, p) \/ AskLogout(r, b, p)
           \/ AskAction(r, b, p) \/ AskAuthorize(r, b, p)
           \/ \E a \in Attempts, u \in Users : AskCallback(r, b, p, a, u)
    PROVE  OwnInv'
<1>1. ASSUME NEW op \in {"session", "logout", "action"}, Send(r, b, p, op, None, "sent"),
             UNCHANGED authentik
      PROVE  OwnInv'
  BY <1>1, OwnSend DEF authentik, Learns, PCs
<1>2. ASSUME NEW a \in Attempts, Unused(a), Send(r, b, p, "authorize", a, "reply"),
             UNCHANGED authentik
      PROVE  OwnInv'
  BY <1>2, OwnSend, NoneIsNothing DEF authentik, Learns, PCs
<1>3. ASSUME NEW a \in Attempts, NEW u \in Users, AskCallback(r, b, p, a, u)
      PROVE  OwnInv'
  <2>1. /\ asked[a] # None /\ signer'[a] # None /\ UNCHANGED <<who, asked>>
        /\ Learns /\ Send(r, b, p, "callback", a, "sent")
    BY <1>3, NoneIsNothing DEF AskCallback, Learns, TypeInv, TypeOK
  <2> QED
    BY <2>1, OwnSend DEF PCs
<1> QED
  BY <1>1, <1>2, <1>3 DEF AskSession, AskLogout, AskAction, AskAuthorize

\* Requests of S that are not yet answered keep what they carry or are answered.
LEMMA OwnMoved ==
    ASSUME TypeInv, OwnInv, UNCHANGED <<who, asked, signer, jar>>,
           NEW S \in SUBSET Requests, Moved(S),
           \A q \in S : /\ req[q].pc # "reply"
                        /\ Carries(q) \/ \E reply \in {"none", "clear", "tokens"} : Replies(q, reply)
    PROVE  OwnInv'
<1>1. ASSUME NEW q \in S PROVE Fewer(req[q], req'[q])
  <2>1. req[q].op # "authorize"
    BY <1>1 DEF TypeInv, Placed, PlacedAt
  <2>2. CASE Carries(q)
    BY <2>1, <2>2 DEF Moved, Carries, Fewer
  <2>3. CASE \E reply \in {"none", "clear", "tokens"} : Replies(q, reply)
    BY <2>1, <2>3 DEF Moved, Replies, Fewer
  <2> QED
    BY <1>1, <2>2, <2>3
<1>2. \A q \in Requests : Fewer(req[q], req'[q])
  BY <1>1 DEF Moved, Fewer
<1> QED
  BY <1>2, OwnFewer DEF TypeInv

LEMMA OwnGoto ==
    ASSUME TypeInv, OwnInv, NEW r \in Requests, NEW pc \in PCs, Goto(r, pc),
           req[r].pc # "reply", UNCHANGED <<who, asked, signer, jar>>
    PROVE  OwnInv'
<1>1. Moved({r}) /\ Carries(r)
  BY GotoEffect DEF TypeInv, TypeOK
<1> QED
  BY <1>1, OwnMoved

LEMMA OwnAnswer ==
    ASSUME TypeInv, OwnInv, NEW r \in Requests, NEW reply \in {"none", "clear", "tokens"},
           Answer(r, reply), req[r].pc # "reply", UNCHANGED <<who, asked, signer, jar>>
    PROVE  OwnInv'
<1>1. Moved({r}) /\ Replies(r, reply)
  BY AnswerEffect DEF TypeInv, TypeOK
<1> QED
  BY <1>1, OwnMoved

LEMMA OwnStep ==
    ASSUME TypeInv, OwnInv, NEW r \in Requests, Step(r)
    PROVE  OwnInv'
<1>0. TypeOK /\ req \in [Requests -> Reqs]
  BY DEF TypeInv, TypeOK
<1> USE DEF authentik
<1>1. CASE AnswerNow(r)
  BY <1>1, OwnAnswer DEF AnswerNow, AtGetSession
<1>2. CASE JoinRefresh(r)
  BY <1>2, OwnGoto DEF JoinRefresh, NeedsRefresh, AtGetSession, PCs
<1>3. CASE StartRefresh(r)
  BY <1>3, OwnGoto DEF StartRefresh, NeedsRefresh, AtGetSession, PCs
<1>4. CASE SettleRefresh(r)
  <2>1. PICK S \in SUBSET Requests : S = {r} \cup Waiters(r)
    BY DEF Waiters
  <2>2. /\ Moved(S) /\ UNCHANGED <<who, asked, signer, jar>>
        /\ \A q \in S : /\ req[q].pc # "reply"
                       /\ \E reply \in {"none", "clear", "tokens"} : Replies(q, reply)
    BY <1>0, <1>4, <2>1, SettleEffect DEF Waiters
  <2> QED
    BY <2>2, OwnMoved
<1>5. CASE ServerKnown(r)
  <2>1. Moved({r}) /\ Proceeds(r)
    BY <1>0, <1>5, ProceedEffect DEF ServerKnown
  <2>2. req[r].pc = "server" /\ UNCHANGED <<who, asked, signer, jar>>
    BY <1>5 DEF ServerKnown
  <2> QED
    BY <2>1, <2>2, OwnMoved DEF Proceeds
<1>6. CASE JoinDiscovery(r)
  BY <1>6, OwnGoto DEF JoinDiscovery, PCs
<1>7. CASE StartDiscovery(r)
  BY <1>7, OwnGoto DEF StartDiscovery, PCs
<1>8. CASE FinishDiscovery(r)
  <2>1. Moved(Told(r)) /\ \A q \in Told(r) : Proceeds(q)
    BY <1>0, <1>8, ProceedEffect DEF FinishDiscovery, Told
  <2>2. /\ Told(r) \in SUBSET Requests /\ \A q \in Told(r) : req[q].pc # "reply"
        /\ UNCHANGED <<who, asked, signer, jar>>
    BY <1>8 DEF FinishDiscovery, Told
  <2> HIDE DEF Told
  <2> QED
    BY <2>1, <2>2, OwnMoved DEF Proceeds
<1>9. CASE RefreshGrant(r)
  <2>1. PICK withRefresh \in BOOLEAN : Issue(r, who[req[r].sent.refresh], withRefresh)
    BY <1>9 DEF RefreshGrant
  <2>2. /\ req[r].op = "session" /\ req[r].pc = "token" /\ req[r].sent.refresh \in Grants
        /\ who[req[r].sent.refresh] \in Users \cup {None}
    BY <1>9, GrantsTyped DEF RefreshGrant
  <2>3. PICK g \in Grants : Issued(r, g, who[req[r].sent.refresh])
    BY <1>0, <2>1, <2>2, IssueEffect
  <2>4. Owned(req[r].b, req[r].sent.refresh)
    BY <2>2, NoneIsNothing DEF OwnInv, RequestsOwn, CarriesOwn, HoldsOwn
  <2>5. PICK a \in Attempts : /\ Mine(req[r].b, a) /\ signer[a] = who[req[r].sent.refresh]
                              /\ who[req[r].sent.refresh] # None
    BY <2>4 DEF Owned
  <2> QED
    BY <1>0, <2>2, <2>3, <2>5, OwnGrant
<1>10. CASE CodeGrant(r)
  <2>1. PICK withRefresh \in BOOLEAN : Issue(r, signer[req[r].attempt], withRefresh)
    BY <1>10 DEF CodeGrant
  <2>2. /\ req[r].op = "callback" /\ req[r].pc = "token" /\ req[r].attempt \in Attempts
        /\ signer[req[r].attempt] \in Users \cup {None}
        /\ req[r].sent.login = req[r].attempt
    BY <1>10, GrantsTyped DEF CodeGrant, StateMatches
  <2>3. PICK g \in Grants : Issued(r, g, signer[req[r].attempt])
    BY <1>0, <2>1, <2>2, IssueEffect
  <2>4. Mine(req[r].b, req[r].attempt) /\ signer[req[r].attempt] # None
    BY <2>2, NoneIsNothing DEF OwnInv, RequestsOwn, CarriesOwn, HoldsOwn
  <2> QED
    BY <1>0, <2>2, <2>3, <2>4, OwnGrant
<1>11. CASE GrantFails(r)
  BY <1>11, OwnGoto DEF GrantFails, PCs
<1>12. CASE HandleCallback(r)
  BY <1>12, OwnGoto, OwnAnswer DEF HandleCallback, PCs
<1>13. CASE FinishCallback(r)
  BY <1>13, OwnAnswer DEF FinishCallback
<1>14. CASE HandleLogout(r)
  BY <1>14, OwnGoto DEF HandleLogout, PCs
<1>15. CASE HandleAction(r)
  BY <1>15, OwnAnswer DEF HandleAction
<1>16. CASE Receive(r)
  BY <1>16, OwnReceive
<1>17. CASE LoseReply(r)
  <2>1. \A q \in Requests : Fewer(req[q], req'[q])
    BY <1>0, <1>17 DEF LoseReply, TypeOK, Fewer
  <2> QED
    BY <1>0, <1>17, <2>1, OwnFewer DEF LoseReply
<1> QED
  BY <1>1, <1>2, <1>3, <1>4, <1>5, <1>6, <1>7, <1>8, <1>9, <1>10, <1>11, <1>12,
     <1>13, <1>14, <1>15, <1>16, <1>17 DEF Step

LEMMA OwnNext == TypeInv /\ OwnInv /\ [Next]_vars => OwnInv'
<1> SUFFICES ASSUME TypeInv, OwnInv, [Next]_vars PROVE OwnInv'
  OBVIOUS
<1>0. TypeOK
  BY DEF TypeInv
<1>1. CASE Ask
  BY <1>1, OwnAsk DEF Ask
<1>2. ASSUME NEW r \in Requests, Step(r) PROVE OwnInv'
  BY <1>2, OwnStep
<1>3. ASSUME NEW b \in Browsers, DropLogin(b) PROVE OwnInv'
  <2>1. /\ UNCHANGED <<who, asked, signer, req>>
        /\ \A x \in Browsers : /\ jar'[x].session = jar[x].session
                               /\ jar'[x].refresh = jar[x].refresh
                               /\ jar'[x].login \in {jar[x].login, None}
    BY <1>0, <1>3 DEF DropLogin, authentik, TypeOK, Cookies
  <2> QED
    BY <2>1 DEF OwnInv, JarsOwn, RequestsOwn, AttemptsFresh, CarriesOwn, HoldsOwn, Owned, Mine
<1>4. ASSUME UNCHANGED <<who, asked, signer, jar, req>> PROVE OwnInv'
  BY <1>0, <1>4, OwnFewer DEF Fewer
<1>5. ASSUME NEW p \in Procs, Restart(p) PROVE OwnInv'
  <2>1. \A q \in Requests : Fewer(req[q], req'[q])
    BY <1>0, <1>5, RestartEffect DEF Fewer
  <2> QED
    BY <1>0, <1>5, <2>1, OwnFewer DEF Restart, authentik
<1> QED
  BY <1>1, <1>2, <1>3, <1>4, <1>5 DEF Next, Age, AgeServer, vars, authentik

\* However logins, refreshes, logouts and restarts of any number of browsers
\* overlap, a browser's cookies are tokens of a user who signed in there.
THEOREM CookiesAreOwn == Spec => []JarIsOwn
<1>1. Init => OwnInv
  BY IdleFields DEF Init, OwnInv, JarsOwn, RequestsOwn, AttemptsFresh, CarriesOwn, HoldsOwn
<1>2. TypeInv /\ OwnInv => JarIsOwn
  BY DEF TypeInv, TypeOK, OwnInv, JarsOwn, HoldsOwn, Owned, Mine, JarIsOwn, SignedIn
<1> QED
  BY <1>1, <1>2, TypeInvInit, TypeInvNext, OwnNext, PTL DEF Spec
=============================================================================
