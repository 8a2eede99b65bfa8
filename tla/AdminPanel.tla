----------------------------- MODULE AdminPanel -----------------------------
(***************************************************************************)
(* The user administration page in one browser tab: the list of users in   *)
(* pages, the four dialogs of a row with their optimistic mutations, the   *)
(* query cache behind them and the calls they make.                        *)
(*                                                                         *)
(* A QUERY is one page of the list under its key (adminUsers, offset).  It *)
(* has data or None, may be invalidated, may have a fetch under way, and   *)
(* keeps the state to return to when that fetch is cancelled.  A CALL is a *)
(* server action; Next.js sends those of a tab one at a time, in order,    *)
(* and one whose answer nobody waits for any more keeps its turn.          *)
(* The backend answers a call and commits it afterwards (get_db leaves     *)
(* after the response), and a call without an answer after 10 s fails      *)
(* here, whatever becomes of it there.  A LATE change is one that the      *)
(* database has yet to commit when the tab has the answer.                 *)
(*                                                                         *)
(* A user is the number of his place in the listing, newest first; his     *)
(* name never changes.  No other tab edits.  Sorting and the check boxes   *)
(* change neither the rows on screen nor any call and are left out.        *)
(***************************************************************************)
EXTENDS Integers, FiniteSets, Sequences

CONSTANTS
    Count,        \* users at the start
    PageSize,     \* admin-users-client.tsx:9, 20 in the code
    Roles,
    Searches,     \* the users whom each text of the search box matches
    MaxEdits,     \* bound: the administrator submits at most this many changes
    None

Users == 1 .. Count
Row == [role: Roles, active: BOOLEAN]
Offsets == {o \in 0 .. Count - 1 : o % PageSize = 0}

\* A page of the list, and what a query keeps of it.  Deletions that were shown
\* at once may be more than there were users left.
Page == [total: (-MaxEdits) .. Count, users: UNION {[S -> Row] : S \in SUBSET Users},
         seen: 0 .. MaxEdits]
Data == Page \cup {None}
Query == [data: Data, valid: BOOLEAN, error: BOOLEAN]

ASSUME PanelAssumption ==
    /\ Count \in Nat \ {0} /\ PageSize \in Nat \ {0} /\ MaxEdits \in Nat
    /\ Roles # {}
    /\ Users \in Searches /\ Searches \subseteq SUBSET Users
    /\ None \notin Page \cup Query

VARIABLES
    db,       \* the users table: the row of each user who exists
    late,     \* changes the backend has answered or lost, and not committed
    landed,   \* history: how many late changes were committed
    offset,   \* AdminUsersClient: the page on screen
    search,   \* UsersTable: the users the search box matches
    dialog,   \* UserRowActions: the open dialog, of a row and an operation
    secret,   \* ResetPasswordDialog: rows that hold a temporary password
    entry,    \* the query of each page
    queue,    \* the server actions called and not yet answered, in order
    edits     \* how many changes were submitted

screen == <<offset, search, dialog, secret>>
backend == <<db, late, landed>>
vars == <<backend, screen, entry, queue, edits>>

EditOps == {"role", "status", "delete", "reset"}

-----------------------------------------------------------------------------
(* The calls and what the backend does with them.                          *)

\* GET /admin/users: a slice of the users and their number.  SEEN tells how many
\* late changes were in; one that comes between the two SELECTs is not.
PageAt(o) ==
    LET newer(u) == Cardinality({v \in DOMAIN db : v < u})
        ids == {u \in DOMAIN db : newer(u) \in o .. o + PageSize - 1}
    IN [total |-> Cardinality(DOMAIN db),
        users |-> [u \in ids |-> db[u]], seen |-> landed]

\* The row of an account whose role or status is changed.
Changed(row, c) ==
    IF c.op = "role" THEN [row EXCEPT !.role = c.arg] ELSE [row EXCEPT !.active = c.arg]

\* PATCH role, PATCH block, DELETE; a row that is gone stays gone.
Carried(c) ==
    CASE c.op = "reset"  -> db
      [] c.op = "delete" -> [u \in DOMAIN db \ {c.user} |-> db[u]]
      [] OTHER           -> [u \in DOMAIN db |-> IF u = c.user THEN Changed(db[u], c)
                                                ELSE db[u]]

Fetching(o, tries) == [op |-> "fetch", at |-> o, tries |-> tries, heard |-> TRUE]

\* The queue when the answers to the fetches of the pages O are not waited for
\* any more; which page such a call is for no longer matters.
Ignored == [op |-> "fetch", at |-> 0, tries |-> 0, heard |-> FALSE]
Unheard(q, O) ==
    [i \in DOMAIN q |-> IF q[i].op = "fetch" /\ q[i].at \in O THEN Ignored ELSE q[i]]

\* A mutation of a row that is still on screen, and its button disabled.
Busy(u, op) ==
    \E i \in DOMAIN queue : /\ queue[i].op = op
                            /\ queue[i].user = u
                            /\ queue[i].heard

-----------------------------------------------------------------------------
(* The query cache.  Its operators take and return <<entry, queue>>.       *)

Blank == [data |-> None, valid |-> TRUE, error |-> FALSE, fetch |-> None]

\* Mutant: the fetch it replaces is not cancelled.
Fetch_NotCancelled(e, q, o) ==
    IF e[o].data = None /\ e[o].fetch # None THEN <<e, q>>
    ELSE LET saved == [data |-> e[o].data, valid |-> e[o].valid, error |-> e[o].error]
         IN <<[e EXCEPT ![o].fetch = saved, ![o].error = @ /\ e[o].data # None],
              Append(q, Fetching(o, 0))>>

\* query.fetch with cancelRefetch: a first fetch under way is kept.
Fetch(e, q, o) ==
    IF e[o].data = None /\ e[o].fetch # None THEN <<e, q>>
    ELSE LET saved == [data |-> e[o].data, valid |-> e[o].valid, error |-> e[o].error]
         IN <<[e EXCEPT ![o].fetch = saved, ![o].error = @ /\ e[o].data # None],
              Append(Unheard(q, {o}), Fetching(o, 0))>>

\* cancelQueries: what a fetch under way would return is not taken.
Cancelled(e) ==
    [o \in Offsets |->
        IF e[o].fetch = None THEN e[o]
        ELSE [Blank EXCEPT !.data = e[o].fetch.data, !.valid = e[o].fetch.valid,
                           !.error = e[o].fetch.error]]

\* setQueryData: the data counts as fetched just now.
SetData(e, data) ==
    [o \in Offsets |->
        IF data[o] = None THEN e[o]
        ELSE [e[o] EXCEPT !.data = data[o], !.valid = TRUE, !.error = FALSE]]

\* Mutant: onSettled refetches the page on screen and forgets the others.
Invalidate_ShownOnly(e, q) ==
    Fetch([e EXCEPT ![offset].valid = @ /\ e[offset].data = None], q, offset)

\* Mutant: onSettled marks the pages and refetches none.
Invalidate_NoRefetch(e, q) ==
    <<[o \in Offsets |-> [e[o] EXCEPT !.valid = @ /\ e[o].data = None]], q>>

\* invalidateQueries: every page is out of date, the one on screen refetched.
Invalidate(e, q) ==
    Fetch([o \in Offsets |-> [e[o] EXCEPT !.valid = @ /\ e[o].data = None]], q, offset)

-----------------------------------------------------------------------------
(* What is on screen.  A row keeps its dialogs' state and hears of its     *)
(* mutations only for as long as it stays there.                           *)

Shown(e, o, s) ==
    IF e[o].data = None THEN {} ELSE (DOMAIN e[o].data.users) \cap s

Rows == Shown(entry, offset, search)

Render(eq, o, s, d, held) ==
    LET e == eq[1]
        rows == Shown(e, o, s)
    IN /\ entry' = e
       /\ offset' = o
       /\ search' = s
       /\ queue' = [i \in DOMAIN eq[2] |->
                       IF eq[2][i].op = "fetch" \/ eq[2][i].user \in rows THEN eq[2][i]
                       ELSE [eq[2][i] EXCEPT !.heard = FALSE]]
       /\ dialog' = IF d # None /\ d.user \in rows THEN d ELSE None
       /\ secret' = held \cap rows

Init ==
    /\ db \in [Users -> Row] /\ \A u \in Users : db[u].active
    /\ late = {} /\ landed = 0 /\ edits = 0
    /\ offset = 0 /\ search = Users
    /\ dialog = None /\ secret = {}
    /\ LET mounted == Fetch([o \in Offsets |-> Blank], <<>>, 0)
       IN entry = mounted[1] /\ queue = mounted[2]

-----------------------------------------------------------------------------
(* The administrator.                                                      *)

\* Prev and Next; the page is fetched unless its data is fresh or on its way.
GoTo(o) ==
    /\ dialog = None
    /\ entry[offset].data # None /\ entry[offset].data.total > PageSize
    /\ \/ o = offset - PageSize
       \/ o = offset + PageSize /\ o < entry[offset].data.total
    /\ o \in Offsets
    /\ \/ /\ entry[o].fetch = None
          /\ Render(Fetch(entry, queue, o), o, search, None, secret)
       \/ /\ entry[o].fetch # None \/ (entry[o].data # None /\ entry[o].valid)
          /\ Render(<<entry, queue>>, o, search, None, secret)
    /\ UNCHANGED <<backend, edits>>

Filter(s) ==
    /\ dialog = None /\ s # search
    /\ Render(<<entry, queue>>, offset, s, None, secret)
    /\ UNCHANGED <<backend, edits>>

Open(u, op) ==
    /\ dialog = None
    /\ dialog' = [user |-> u, op |-> op]
    /\ UNCHANGED <<backend, offset, search, secret, entry, queue, edits>>

\* Cancel, Done or the close button, also while the mutation is pending.
Close ==
    /\ dialog # None
    /\ dialog' = None
    /\ secret' = IF dialog.op = "reset" THEN secret \ {dialog.user} ELSE secret
    /\ UNCHANGED <<backend, offset, search, entry, queue, edits>>

\* The optimistic update of one page.
Patch(page, c) ==
    CASE page = None -> None
      [] page # None /\ c.op = "delete" ->
            [page EXCEPT !.total = @ - 1,
                         !.users = [u \in DOMAIN @ \ {c.user} |-> @[u]]]
      [] page # None /\ c.op # "delete" ->
            [page EXCEPT !.users = [u \in DOMAIN @ |-> IF u = c.user THEN Changed(@[u], c)
                                                      ELSE @[u]]]

\* onMutate: cancel the fetches, keep a snapshot, show the change at once.
OnMutate(c) ==
    LET e == Cancelled(entry)
        snapshot == [o \in Offsets |-> e[o].data]
    IN Render(<<SetData(e, [o \in Offsets |-> Patch(snapshot[o], c)]),
                Append(Unheard(queue, Offsets), [c EXCEPT !.before = snapshot])>>,
              offset, search, dialog, secret)

\* What a dialog submits: another role, the other status, or nothing.
Arguments(op, row) ==
    CASE op = "role"   -> Roles \ {row.role}
      [] op = "status" -> {~row.active}
      [] OTHER         -> {None}

\* The button of the open dialog.
Submit ==
    /\ dialog # None /\ edits < MaxEdits
    /\ ~Busy(dialog.user, dialog.op)
    /\ \E arg \in Arguments(dialog.op, entry[offset].data.users[dialog.user]) :
          LET call == [op |-> dialog.op, user |-> dialog.user, id |-> edits + 1,
                       arg |-> arg, before |-> None, heard |-> TRUE]
          IN IF dialog.op # "reset" THEN OnMutate(call)
             ELSE /\ dialog.user \notin secret
                  /\ queue' = Append(queue, call)
                  /\ UNCHANGED <<screen, entry>>
    /\ edits' = edits + 1
    /\ UNCHANGED backend

-----------------------------------------------------------------------------
(* The answers.                                                            *)

\* onSuccess and onSettled: the dialog closes, or shows the new password.
Succeed(c) ==
    LET open == [user |-> c.user, op |-> c.op]
    IN Render(Invalidate(entry, Tail(queue)), offset, search,
              IF c.heard /\ c.op # "reset" /\ dialog = open THEN None ELSE dialog,
              IF c.heard /\ c.op = "reset" THEN secret \cup {c.user} ELSE secret)

\* onError and onSettled: the snapshot is put back; a reset touches nothing.
Restore(c) ==
    Render(IF c.op = "reset" THEN <<entry, Tail(queue)>>
           ELSE Invalidate(SetData(entry, c.before), Tail(queue)),
           offset, search, dialog, secret)

\* The open transaction of an answered change holds the row's lock.
Locked(u) == \E c \in late : c.user = u /\ c.acked

Defer(c, acked) ==
    late' = late \cup {[op |-> c.op, user |-> c.user, arg |-> c.arg, id |-> c.id,
                        acked |-> acked]}

Do(c) == db' = Carried(c) /\ UNCHANGED late

\* Answered with success; the commit is done by now or still to come.
Accepted(c) ==
    /\ c.user \in DOMAIN db /\ ~Locked(c.user)
    /\ \/ Do(c)
       \/ c.op # "reset" /\ Defer(c, TRUE) /\ UNCHANGED db
    /\ Succeed(c)

\* Refused, unreachable, or broken off after 10 s: done, still to be done, or not.
Refused(c) ==
    /\ \/ UNCHANGED <<db, late>>
       \/ ~Locked(c.user) /\ Do(c)
       \/ c.op # "reset" /\ Defer(c, FALSE) /\ UNCHANGED db
    /\ Restore(c)

Listed(c) ==
    LET fetched == [Blank EXCEPT !.data = PageAt(c.at)]
    IN /\ Render(<<[entry EXCEPT ![c.at] = fetched], Tail(queue)>>,
                 offset, search, dialog, secret)
       /\ UNCHANGED <<db, late>>

\* retry: once, while the page is on screen, unless the error is final.
Retried(c) ==
    /\ c.tries = 0 /\ c.at = offset
    /\ queue' = Append(Tail(queue), Fetching(c.at, 1))
    /\ UNCHANGED <<db, late, screen, entry>>

GivenUp(c) ==
    LET failed == [entry[c.at] EXCEPT !.fetch = None, !.error = TRUE,
                                      !.valid = @ /\ entry[c.at].data = None]
    IN /\ Render(<<[entry EXCEPT ![c.at] = failed], Tail(queue)>>,
                 offset, search, dialog, secret)
       /\ UNCHANGED <<db, late>>

\* The answer to a fetch that was cancelled is not taken.
Discarded ==
    /\ queue' = Tail(queue)
    /\ UNCHANGED <<db, late, screen, entry>>

\* The answer to the oldest call.
Answer ==
    /\ queue # <<>>
    /\ LET c == Head(queue)
       IN CASE c.op = "fetch" /\ c.heard  -> Listed(c) \/ Retried(c) \/ GivenUp(c)
            [] c.op = "fetch" /\ ~c.heard -> Discarded
            [] c.op # "fetch" -> Accepted(c) \/ Refused(c)
    /\ UNCHANGED <<landed, edits>>

\* A late change is committed, or its transaction rolled back.
Land(c) ==
    /\ c.acked \/ ~Locked(c.user)
    /\ late' = late \ {c}
    /\ \/ db' = Carried(c) /\ landed' = landed + 1
       \/ UNCHANGED <<db, landed>>
    /\ UNCHANGED <<screen, entry, queue, edits>>

\* gcTime: the data of a page off screen is dropped.
Collect(o) ==
    /\ o # offset /\ entry[o].data # None /\ entry[o].fetch = None
    /\ entry' = [entry EXCEPT ![o] = Blank]
    /\ UNCHANGED <<backend, screen, queue, edits>>

LandSome == \E c \in late : Land(c)

Next ==
    \/ \E o \in Offsets : GoTo(o) \/ Collect(o)
    \/ \E s \in Searches : Filter(s)
    \/ \E u \in Rows, op \in EditOps : Open(u, op)
    \/ Close \/ Submit \/ Answer \/ LandSome

Spec == Init /\ [][Next]_vars

-----------------------------------------------------------------------------
(* Properties.                                                             *)

FetchCall == [op: {"fetch"}, at: Offsets, tries: {0, 1}, heard: BOOLEAN]
EditCall == [op: EditOps, user: Users, id: 1 .. MaxEdits,
             arg: Roles \cup BOOLEAN \cup {None},
             before: [Offsets -> Data] \cup {None}, heard: BOOLEAN]

\* Every variable has its type; at most one call for a page is waited for,
\* and one is exactly while the page's query says that it is being fetched.
TypeOK ==
    /\ \E S \in SUBSET Users : db \in [S -> Row]
    /\ \A c \in late : c.user \in Users /\ c.op \in EditOps \ {"reset"}
    /\ landed \in 0 .. MaxEdits /\ edits \in 0 .. MaxEdits
    /\ offset \in Offsets /\ search \in Searches
    /\ dialog = None \/ (dialog.user \in Rows /\ dialog.op \in EditOps)
    /\ secret \subseteq Rows
    /\ \A o \in Offsets :
          /\ [data |-> entry[o].data, valid |-> entry[o].valid, error |-> entry[o].error]
                \in Query
          /\ entry[o].fetch = None \/ entry[o].fetch \in Query
          /\ LET calls == {i \in DOMAIN queue : /\ queue[i].op = "fetch"
                                                /\ queue[i].heard /\ queue[i].at = o}
             IN Cardinality(calls) = (IF entry[o].fetch = None THEN 0 ELSE 1)
    /\ \A i \in DOMAIN queue :
          IF queue[i].op = "fetch" THEN queue[i] \in FetchCall ELSE queue[i] \in EditCall

Quiet == \A i \in DOMAIN queue : queue[i].op \in {"fetch", "reset"}

\* Whatever was submitted, failed, lost or overtaken: once no change is
\* pending, a page that counts as up to date is the database's, unless a
\* change was committed after the tab had been told of it (use-admin-users.ts).
SettledIsDatabase ==
    Quiet => \A o \in Offsets :
        LET page == entry[o].data
        IN page # None /\ entry[o].valid /\ page.seen = landed => page = PageAt(o)

\* Once no change is pending, the page on screen is up to date, or being
\* fetched, or the last fetch has failed: it never stays as it is unnoticed.
NeverLeftStale ==
    Quiet => \/ entry[offset].data # None /\ entry[offset].valid
             \/ entry[offset].fetch # None
             \/ entry[offset].error
=============================================================================
