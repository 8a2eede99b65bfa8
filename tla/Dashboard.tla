----------------------------- MODULE Dashboard ------------------------------
(***************************************************************************)
(* One browser tab of the dashboard: its pages and who is let in, the      *)
(* menu, the queries of the overview page, logout, and the smoke test,     *)
(* which creates an item, works on it and deletes it.                      *)
(*                                                                         *)
(* TOKEN is the session cookie as the proxy and the backend see it:        *)
(* "good", "expired" (or dropped, with a refresh token left), "refused" by *)
(* the backend although it has not expired, or "none" at all.  Everything  *)
(* the tab remembers is gone when it loads a page anew; following a link   *)
(* of the menu keeps it.  Server actions are POSTs to the page: they pass  *)
(* the proxy, are sent one at a time, and may stay without an answer.      *)
(* What the cards and the menu look like is left out.                      *)
(***************************************************************************)
EXTENDS Integers, FiniteSets, Sequences, SequencesExt

CONSTANTS
    Standings,    \* what the backend may hold of the account
    AdminQueries, \* adminUsersCount, auditCount, recentActivity
    Runs,         \* bound: the runs of the smoke test
    MaxFaults,    \* bound: changes of the account or the token, lost answers, rollbacks
    Readable,     \* do error messages reach the browser, as in a development build?
    None

ASSUME DashboardAssumption ==
    /\ Standings \subseteq {"free", "paid", "admin", "blocked"} /\ Standings # {}
    /\ AdminQueries \subseteq {"adminUsersCount", "auditCount", "recentActivity"}
    /\ Runs \subseteq Nat \ {0} /\ MaxFaults \in Nat /\ Readable \in BOOLEAN

VARIABLES
    token, standing, faults,
    page, view,   \* the page in the tab and how it came out; "out" is any other place
    leaving,      \* a logout is under way
    query,        \* the query cache: data, and whether a fetch is under way
    queue,        \* the server actions called and not yet answered, in order
    run,          \* each run of the smoke test: where it is, createdId, its results
    panel,        \* the run that the mounted SmokeTest shows
    item,         \* the item of each run in the database
    left          \* history: what has kept a run from deleting its item

account == <<standing, faults>>
place == <<page, view, leaving>>
smoke == <<run, panel, item, left>>
vars == <<token, account, place, query, queue, smoke>>

Pages == {"dashboard", "plain", "paid", "admin"}
Queries == {"currentUser", "systemInfo"} \cup AdminQueries
Blank == [q \in Queries |-> [data |-> None, fetching |-> FALSE]]
Call(op, r) == [op |-> op, run |-> r, tries |-> 0, heard |-> TRUE]

Init ==
    /\ token = "none" /\ standing \in Standings /\ faults = 0
    /\ page = "out" /\ view = "shown" /\ leaving = FALSE
    /\ query = Blank /\ queue = <<>>
    /\ run = [r \in Runs |-> [pc |-> "idle", created |-> FALSE, tally |-> "passed"]]
    /\ panel = None
    /\ item = [r \in Runs |-> "none"] /\ left = [r \in Runs |-> "nothing"]

-----------------------------------------------------------------------------
(* The proxy in front of every page and action, and the backend behind.    *)

Admitted == token \in {"good", "refused"}

\* ROLE_HIERARCHY: free, paid, admin.
hasRole(role, required) == required = "free" \/ role \in {required, "admin"}

\* What an endpoint answers: health is open, items ask for the token only.
Verdict(op) ==
    IF op = "systemInfo" THEN "ok"
    ELSE IF token = "refused" THEN "unauthorized"
    ELSE IF op \in Queries /\ standing = "blocked" THEN "blocked"
    ELSE IF op \in AdminQueries /\ standing # "admin" THEN "forbidden"
    ELSE "ok"

Fault == faults < MaxFaults /\ faults' = faults + 1

\* The answer, or none: the proxy redirects, 10 s are over, the server fails.
Outcome(op, o) ==
    \/ o = "lost" /\ ~Admitted /\ UNCHANGED faults
    \/ o = "lost" /\ Admitted /\ Fault
    \/ o = Verdict(op) /\ Admitted /\ UNCHANGED faults

withAuth(outcome) ==
    token' = IF outcome \in {"unauthorized", "blocked"} THEN "none" ELSE token

\* GET /api/auth/session, which refreshes; Session models how.
CheckAuth(ok) ==
    \/ ok /\ Admitted /\ UNCHANGED <<token, faults>>
    \/ ok /\ token = "expired" /\ token' = "good" /\ UNCHANGED faults
    \/ ~ok /\ token = "none" /\ UNCHANGED <<token, faults>>
    \/ ~ok /\ token # "none" /\ UNCHANGED token /\ Fault
    \/ ~ok /\ token = "expired" /\ token' = "none" /\ Fault

\* The two admin pages: every other answer ends in the error boundary.
AdminPage == IF Verdict("currentUser") = "ok" /\ standing = "admin" THEN "shown" ELSE "error"

PaidPage ==
    CASE Verdict("currentUser") = "unauthorized" -> <<"dashboard", "shown">>
      [] Verdict("currentUser") = "blocked"      -> <<"paid", "error">>
      [] OTHER -> <<"paid", IF hasRole(standing, "paid") THEN "shown" ELSE "denied">>

\* Where a request for a page ends, and what it shows.
Served(p, to) ==
    \/ /\ to = CASE ~Admitted   -> <<"out", "shown">>
                 [] p = "admin" -> <<p, AdminPage>>
                 [] p = "paid"  -> PaidPage
                 [] OTHER       -> <<p, "shown">>
       /\ UNCHANGED faults
    \/ Admitted /\ p \in {"admin", "paid"} /\ to = <<p, "error">> /\ Fault

-----------------------------------------------------------------------------
(* The tab.                                                                *)

Overview == page = "dashboard" /\ view = "shown"

\* Queries that start when their component is mounted: at once without data,
\* with data only when it is older than staleTime.
Start(qy, qu, mounted) ==
    \E S \in SUBSET {q \in mounted : ~qy[q].fetching} :
        /\ \A q \in mounted \ S : qy[q].fetching \/ qy[q].data # None
        /\ query' = [q \in Queries |->
                        IF q \in S THEN [qy[q] EXCEPT !.fetching = TRUE] ELSE qy[q]]
        /\ queue' = qu \o SetToSeq({Call(q, 0) : q \in S})

\* useDashboardStats and useRecentActivity ask for an administrator only.
Enabled(qy) == IF qy["currentUser"].data = "admin" THEN AdminQueries ELSE {}

\* The shell asks who the user is; the overview asks again, and for the rest.
Mounted(qy, to) ==
    CASE to = <<"dashboard", "shown">> -> {"currentUser", "systemInfo"} \cup Enabled(qy)
      [] to[1] = "out"                 -> {}
      [] OTHER                         -> {"currentUser"}

Screens == {"out", "dashboard", "plain", "paid", "admin"} \X {"shown", "denied", "error"}
Ended == {"idle", "done", "killed"}

\* A page is loaded anew: the tab's memory is gone, and the runs with it.
Load(to) ==
    /\ page' = to[1] /\ view' = to[2] /\ leaving' = FALSE
    /\ Start(Blank, <<>>, Mounted(Blank, to))
    /\ run' = [r \in Runs |-> IF run[r].pc \in Ended THEN run[r]
                              ELSE [run[r] EXCEPT !.pc = "killed"]]
    /\ panel' = None
    /\ UNCHANGED <<standing, item, left>>

\* A link of the menu: runs go on, SmokeTest forgets its own.
Follow(to) ==
    /\ page' = to[1] /\ view' = to[2]
    /\ IF to[1] = "dashboard" /\ ~Overview
       THEN Start(query, queue, Mounted(query, to))
       ELSE UNCHANGED <<query, queue>>
    /\ panel' = IF to[1] = "dashboard" /\ Overview THEN panel ELSE None
    /\ UNCHANGED <<standing, leaving, run, item, left>>

\* AppNavbar, CommandPalette: what the menu offers, by the role in the cache.
Menu ==
    LET role == query["currentUser"].data
    IN {"dashboard", "plain"}
       \cup (IF hasRole(role, "paid") THEN {"paid"} ELSE {})
       \cup (IF hasRole(role, "admin") THEN {"admin"} ELSE {})

Push(p) ==
    /\ page # "out" /\ ~leaving /\ p \in Menu
    /\ \E to \in Screens :
          Served(p, to) /\ (IF to[1] = "out" THEN Load(to) ELSE Follow(to))
    /\ UNCHANGED token

\* An address typed, a reload, the way back from the error page; its buttons
\* that call reset() render once more what the server sent, and change nothing.
Visit(p) ==
    /\ ~leaving
    /\ \E to \in Screens : Served(p, to) /\ Load(to)
    /\ UNCHANGED token

\* SessionGuard, when the browser restores the page, and /auth/refresh.
Revalidate(ok) ==
    /\ page # "out" /\ ~leaving
    /\ CheckAuth(ok)
    /\ \/ ok /\ UNCHANGED <<standing, place, query, queue, smoke>>
       \/ Load(IF ok THEN <<"dashboard", "shown">> ELSE <<"out", "shown">>)

Login ==
    /\ page = "out"
    /\ token' = "good" /\ UNCHANGED faults
    /\ Load(<<"dashboard", "shown">>)

\* Mutant: the cache is emptied but still takes what its fetches return.
Logout_Listens ==
    /\ page # "out" /\ ~leaving
    /\ leaving' = TRUE
    /\ query' = Blank
    /\ UNCHANGED <<token, account, page, view, queue, smoke>>

\* useAuth.logout, up to its first await: the cache is emptied.
Logout ==
    /\ page # "out" /\ ~leaving
    /\ leaving' = TRUE
    /\ query' = Blank
    /\ queue' = [i \in DOMAIN queue |-> [queue[i] EXCEPT !.heard = @ /\ queue[i].run # 0]]
    /\ UNCHANGED <<token, account, page, view, smoke>>

\* Its POST has been answered, or not, and the frame has loaded, or not.
LoggedOut ==
    /\ leaving
    /\ \/ token' = "none" /\ UNCHANGED faults
       \/ UNCHANGED token /\ Fault
    /\ Load(<<"out", "shown">>)

\* SystemInfo refetches every minute.
Poll ==
    /\ Overview /\ ~query["systemInfo"].fetching
    /\ query' = [query EXCEPT !["systemInfo"].fetching = TRUE]
    /\ queue' = Append(queue, Call("systemInfo", 0))
    /\ UNCHANGED <<token, account, place, smoke>>

\* Mutant: a query is retried until it succeeds.
Received_Forever(c, outcome) ==
    /\ \/ /\ outcome = "ok" /\ c.heard
          /\ LET data == IF c.op = "currentUser" THEN standing ELSE "ok"
                 answered == [query EXCEPT ![c.op] = [data |-> data, fetching |-> FALSE]]
                 now == IF Overview THEN Enabled(answered) \ Enabled(query) ELSE {}
             IN Start(answered, Tail(queue), now)
       \/ /\ outcome # "ok" /\ c.heard
          /\ Readable => outcome = "lost"
          /\ Overview \/ c.op = "currentUser"
          /\ queue' = Append(Tail(queue), c)
          /\ UNCHANGED query
       \/ /\ ~c.heard
          /\ queue' = Tail(queue)
          /\ UNCHANGED query
    /\ UNCHANGED smoke

\* The answer to a query: once more after a failure, then given up.
Received(c, outcome) ==
    /\ \/ /\ outcome = "ok" /\ c.heard
          /\ LET data == IF c.op = "currentUser" THEN standing ELSE "ok"
                 answered == [query EXCEPT ![c.op] = [data |-> data, fetching |-> FALSE]]
                 now == IF Overview THEN Enabled(answered) \ Enabled(query) ELSE {}
             IN Start(answered, Tail(queue), now)
       \/ /\ outcome # "ok" /\ c.heard /\ c.tries = 0
          /\ Readable => outcome = "lost"
          /\ Overview \/ c.op = "currentUser"
          /\ queue' = Append(Tail(queue), [c EXCEPT !.tries = 1])
          /\ UNCHANGED query
       \/ /\ outcome # "ok" /\ c.heard
          /\ \/ c.tries = 1
             \/ Readable /\ outcome # "lost"
             \/ ~Overview /\ c.op # "currentUser"
          /\ query' = [query EXCEPT ![c.op].fetching = FALSE]
          /\ queue' = Tail(queue)
       \/ /\ ~c.heard
          /\ queue' = Tail(queue)
          /\ UNCHANGED query
    /\ UNCHANGED smoke

-----------------------------------------------------------------------------
(* The smoke test.  The backend answers before it commits: an item whose   *)
(* creation is "pending" is not found, one that is "deleting" may come     *)
(* "back".  Nothing can be seen of an update that is still to be committed.  *)

Crud == {"create", "read", "update", "delete", "list", "cleanup"}

\* Mutant: the finally block is forgotten.
Goes_NoCleanup(s, ok) ==
    CASE s.pc = "auth"   -> IF ok THEN "create" ELSE "health"
      [] s.pc = "create" -> IF ok THEN "read" ELSE "list"
      [] s.pc = "read"   -> "update"
      [] s.pc = "update" -> "delete"
      [] s.pc = "delete" -> "list"
      [] s.pc = "list"   -> "health"
      [] OTHER           -> "done"

\* Mutant: the cleanup is repeated until the item is gone.
Goes_CleansUpForever(s, ok) ==
    CASE s.pc = "auth"   -> IF ok THEN "create" ELSE "health"
      [] s.pc = "create" -> IF ok THEN "read" ELSE "list"
      [] s.pc = "read"   -> "update"
      [] s.pc = "update" -> "delete"
      [] s.pc = "delete" -> "list"
      [] s.pc = "list"   -> "health"
      [] s.pc = "health" -> IF s.created THEN "cleanup" ELSE "done"
      [] OTHER           -> IF ok THEN "done" ELSE "cleanup"

\* The steps of runTests, in order; a failed creation skips the next three.
Goes(s, ok) ==
    CASE s.pc = "auth"   -> IF ok THEN "create" ELSE "health"
      [] s.pc = "create" -> IF ok THEN "read" ELSE "list"
      [] s.pc = "read"   -> "update"
      [] s.pc = "update" -> "delete"
      [] s.pc = "delete" -> "list"
      [] s.pc = "list"   -> "health"
      [] s.pc = "health" -> IF s.created THEN "cleanup" ELSE "done"
      [] OTHER           -> "done"

\* Mutant: only a failed creation counts.
Tallied_CreateOnly(s, ok) ==
    CASE s.pc = "create" /\ ~ok -> "failed"
      [] s.pc = "auth" /\ ~ok   -> "skipped"
      [] OTHER                  -> s.tally

\* What the summary below the results will say.
Tallied(s, ok) ==
    CASE ok \/ s.pc = "cleanup" -> s.tally
      [] s.pc = "auth"          -> "skipped"
      [] OTHER                  -> "failed"

Advance(r, ok, rest) ==
    LET s == run[r]
        next == [pc |-> Goes(s, ok), tally |-> Tallied(s, ok),
                 created |-> CASE s.pc = "create" -> ok
                               [] s.pc = "delete" -> s.created /\ ~ok
                               [] OTHER           -> s.created]
    IN /\ run' = [run EXCEPT ![r] = next]
       /\ queue' = IF next.pc \in Crud THEN Append(rest, Call(next.pc, r)) ELSE rest

\* The button, disabled while the run on the panel is under way.
RunTests(r) ==
    /\ Overview /\ ~leaving
    /\ panel # None => run[panel].pc \in Ended
    /\ run[r].pc = "idle"
    /\ run' = [run EXCEPT ![r].pc = "auth"]
    /\ panel' = r
    /\ UNCHANGED <<token, account, place, query, queue, item, left>>

CheckedAuth(r, ok) ==
    /\ run[r].pc = "auth"
    /\ CheckAuth(ok)
    /\ Advance(r, ok, queue)
    /\ UNCHANGED <<standing, place, query, panel, item, left>>

\* fetch /health/live, straight to the backend.
CheckedHealth(r, ok) ==
    /\ run[r].pc = "health"
    /\ IF ok THEN UNCHANGED faults ELSE Fault
    /\ Advance(r, ok, queue)
    /\ UNCHANGED <<token, standing, place, query, panel, item, left>>

\* What carrying out a call makes of the item.
Carried(c) ==
    CASE c.op = "create"              -> {"pending", "there"}
      [] c.op \in {"delete", "cleanup"} -> {"deleting", "gone"}
      [] OTHER                        -> {item[c.run]}

\* The answer to a step; 404 when its item is not there.
Stepped(c, outcome) ==
    LET found == c.op \in {"create", "list"} \/ item[c.run] \in {"there", "back"}
        ok == outcome = "ok" /\ found
        cause == CASE c.op = "create" /\ ~ok /\ item'[c.run] # "none" -> "creation unanswered"
                   [] c.op = "cleanup" /\ outcome = "lost"             -> "cleanup unanswered"
                   [] c.op = "cleanup" /\ outcome \notin {"ok", "lost"} -> "cleanup refused"
                   [] c.op = "cleanup" /\ outcome = "ok" /\ item[c.run] = "pending"
                                                                       -> "cleanup too early"
                   [] OTHER                                            -> left[c.run]
    IN /\ \/ /\ ok \/ (outcome = "lost" /\ token = "good" /\ found)
             /\ \E i \in Carried(c) : item' = [item EXCEPT ![c.run] = i]
          \/ ~ok /\ UNCHANGED item
       /\ left' = [left EXCEPT ![c.run] = cause]
       /\ Advance(c.run, ok, Tail(queue))
       /\ UNCHANGED <<query, panel>>

\* The answer to the oldest server action.
Answer ==
    /\ queue # <<>>
    /\ LET c == Head(queue)
       IN \E outcome \in {"ok", "lost", "unauthorized", "blocked", "forbidden"} :
              /\ Outcome(c.op, outcome)
              /\ withAuth(outcome)
              /\ IF c.run = 0 THEN Received(c, outcome) ELSE Stepped(c, outcome)
    /\ UNCHANGED <<standing, place>>

\* get_db commits what was answered, or fails to.
Commit(r) ==
    /\ \/ item[r] = "pending" /\ item' = [item EXCEPT ![r] = "there"]
       \/ item[r] = "deleting" /\ item' = [item EXCEPT ![r] = "gone"]
    /\ UNCHANGED <<token, account, place, query, queue, run, panel, left>>

RollBack(r) ==
    /\ Fault
    /\ \/ item[r] = "pending" /\ item' = [item EXCEPT ![r] = "none"] /\ UNCHANGED left
       \/ /\ item[r] = "deleting" /\ item' = [item EXCEPT ![r] = "back"]
          /\ left' = [left EXCEPT ![r] = "deletion rolled back"]
    /\ UNCHANGED <<token, standing, place, query, queue, run, panel>>

-----------------------------------------------------------------------------
(* What happens without the tab.                                           *)

\* The account is blocked, or its role changed.
ChangeStanding(s) ==
    /\ Fault /\ s # standing /\ standing' = s
    /\ UNCHANGED <<token, place, query, queue, smoke>>

\* The token expires, or the backend no longer takes it.
LoseToken(t) ==
    /\ Fault /\ token = "good" /\ token' = t
    /\ UNCHANGED <<standing, place, query, queue, smoke>>

CheckedSome(r) == \E ok \in BOOLEAN : CheckedAuth(r, ok) \/ CheckedHealth(r, ok)

Next ==
    \/ \E p \in Pages : Push(p) \/ Visit(p)
    \/ \E ok \in BOOLEAN : Revalidate(ok)
    \/ Login \/ Logout \/ LoggedOut \/ Poll \/ Answer
    \/ \E r \in Runs : RunTests(r) \/ CheckedSome(r) \/ Commit(r) \/ RollBack(r)
    \/ \E s \in Standings : ChangeStanding(s)
    \/ \E t \in {"expired", "refused"} : LoseToken(t)

Spec == Init /\ [][Next]_vars

\* Every call is answered or broken off after 10 s; the browser ends a fetch.
FairSpec == Spec /\ WF_vars(Answer) /\ \A r \in Runs : WF_vars(CheckedSome(r))

-----------------------------------------------------------------------------
(* Properties.                                                             *)

PCs == Ended \cup Crud \cup {"auth", "health"}
Items == {"none", "pending", "there", "deleting", "gone", "back"}

\* Why an item may stay: the creation was carried out without an answer; the
\* cleanup had no answer, was refused with the token (401), or came before the
\* creation was committed (404); the commit of a deletion failed.
Uncleaned == {"creation unanswered", "cleanup unanswered", "cleanup refused",
               "cleanup too early"}
Causes == {"nothing", "deletion rolled back"} \cup Uncleaned

\* Every variable has its type; a query is being fetched exactly while one
\* call that it listens to is in the queue, and so is the call of each run.
TypeOK ==
    /\ token \in {"none", "good", "expired", "refused"}
    /\ standing \in Standings /\ faults \in 0 .. MaxFaults
    /\ page \in Pages \cup {"out"} /\ view \in {"shown", "denied", "error"}
    /\ leaving \in BOOLEAN /\ panel \in Runs \cup {None}
    /\ run \in [Runs -> [pc : PCs, created : BOOLEAN, tally : {"passed", "skipped", "failed"}]]
    /\ item \in [Runs -> Items] /\ left \in [Runs -> Causes]
    /\ \A q \in Queries :
          Cardinality({i \in DOMAIN queue : queue[i].op = q /\ queue[i].heard})
             = (IF query[q].fetching THEN 1 ELSE 0)
    /\ \A r \in Runs :
          Cardinality({i \in DOMAIN queue : queue[i].run = r})
             = (IF run[r].pc \in Crud THEN 1 ELSE 0)

\* A run that ended has left an item behind for one of the causes above only,
\* whichever of its steps fail: a cleanup that finds nothing to delete leaves
\* none, except before a late commit.  Unless it is a deletion that is rolled
\* back, the summary says that something failed (use-smoke-test.ts:126-135).
NoOrphan ==
    \A r \in Runs :
        run[r].pc = "done" /\ item[r] \in {"pending", "there", "back"}
            => \/ left[r] = "deletion rolled back"
               \/ left[r] \in Uncleaned /\ run[r].tally = "failed"

\* "All tests passed" is true: the item was stored, found and deleted; at
\* worst its deletion is rolled back (smoke-test.tsx:93-99).
PassedMeansDone ==
    \A r \in Runs :
        run[r].pc = "done" /\ run[r].tally = "passed"
            => item[r] \in {"deleting", "gone", "back"}

\* Every run ends, whatever fails, expires or is refused, and the button is
\* released, unless the page is loaded anew under it.
EveryRunEnds == \A r \in Runs : run[r].pc = "auth" ~> run[r].pc \in {"done", "killed"}

\* StatsCards does not stay a skeleton for ever, provided that the user stops
\* loading pages anew (use-dashboard-stats.ts:35, stats-cards.tsx).
Loading(q) == query[q].fetching /\ query[q].data = None
Skeleton == /\ Overview
            /\ \/ Loading("currentUser")
               \/ \E q \in Enabled(query) \ {"recentActivity"} : Loading(q)
Reload == (\E p \in Pages : Visit(p)) \/ (\E ok \in BOOLEAN : Revalidate(ok))
CardsAppear == <>[][~Reload]_vars => (Skeleton ~> ~Skeleton)
=============================================================================
