------------------------------ MODULE AuditLog ------------------------------
(***************************************************************************)
(* The audit log page in one browser tab: the search box with its delay,   *)
(* the filter, the pager, the query of each (filter, search, offset) and   *)
(* the two SELECTs behind it, while administrators add entries.            *)
(*                                                                         *)
(* Entries are never changed or removed, so of a page only the number of   *)
(* its rows and the total that came with it are kept, and of an entry what *)
(* it matches.  Sorting a page and the wording of its rows are left out.   *)
(***************************************************************************)
EXTENDS Integers, FiniteSets, Sequences, FiniteSetsExt

CONSTANTS
    Actions,      \* actions one can filter by
    Texts,        \* what one can search for; an entry matches one text or none
    PageSize,     \* audit-log-client.tsx:11, 20 in the code
    Entries,      \* bound: the kinds of entries that administrators add
    MaxLog,       \* bound: number of entries
    MaxQueries,   \* bound: the user waits while the cache holds this many queries
    None          \* no filter, an empty box; of an entry: another action, no match

ASSUME AuditLogAssumption ==
    /\ PageSize \in Nat \ {0} /\ MaxLog \in Nat \ {0} /\ MaxQueries \in Nat \ {0}
    /\ None \notin Actions \cup Texts
    /\ Entries \subseteq [action: Actions \cup {None}, text: Texts \cup {None}]

VARIABLES
    log,          \* audit_log: what each entry matches, oldest first
    typed,        \* AuditLogClient: the text in the search box
    timer,        \* is its 300 ms timer running?
    shown,        \* debouncedSearch, actionFilter and offset: the query on screen
    query,        \* the data of each query, and whether a fetch is under way
    queue         \* the server actions called and not yet answered, in order

vars == <<log, typed, timer, shown, query, queue>>

Filters == Actions \cup {None}
Searches == Texts \cup {None}
Keys == [filter: Filters, search: Searches,
         offset: {o \in 0 .. MaxLog - 1 : o % PageSize = 0}]

\* SELECT count: the conditions that both SELECTs share.
Matching(k) ==
    Cardinality({i \in DOMAIN log : /\ k.filter \in {None, log[i].action}
                                    /\ k.search \in {None, log[i].text}})

\* SELECT ... OFFSET offset LIMIT limit: the number of rows it returns.
Rows(k) == Max({0, Min({PageSize, Matching(k) - k.offset})})

\* A call of fetchAuditLog; rows is -1 until the first SELECT has run.
Call(k, tries) == [key |-> k, tries |-> tries, rows |-> -1]

Blank == [data |-> None, fetching |-> FALSE]
Start == [filter |-> None, search |-> None, offset |-> 0]

\* Mutant: a query that is being fetched is fetched once more.
Show_Again(k) ==
    /\ shown' = k
    /\ IF k = shown THEN UNCHANGED <<query, queue>>
       ELSE /\ query' = [query EXCEPT ![k].fetching = TRUE]
            /\ queue' = Append(queue, Call(k, 0))

\* useQuery with another key: no data, or data that is out of date, is fetched.
Show(k) ==
    /\ shown' = k
    /\ IF k = shown \/ query[k].fetching THEN UNCHANGED <<query, queue>>
       ELSE \/ /\ query' = [query EXCEPT ![k].fetching = TRUE]
               /\ queue' = Append(queue, Call(k, 0))
            \/ /\ query[k].data # None
               /\ UNCHANGED <<query, queue>>

\* AuditLogTable and the pager: the rows and the total on screen.
OnScreen == query[shown].data

\* The bound on the cache.
Room == Cardinality({k \in Keys : query[k] # Blank}) < MaxQueries

\* The page is opened; its effect starts the timer at once.
Init ==
    /\ log = <<>>
    /\ typed = None /\ timer = TRUE /\ shown = Start
    /\ query = [[k \in Keys |-> Blank] EXCEPT ![Start].fetching = TRUE]
    /\ queue = <<Call(Start, 0)>>

-----------------------------------------------------------------------------

\* Mutant: the effect's cleanup stops the timer, and nothing starts it again.
Type_StopsTimer(t) ==
    /\ Room /\ t # typed
    /\ typed' = t /\ timer' = FALSE
    /\ UNCHANGED <<log, shown, query, queue>>

\* Every change of the text starts the 300 ms anew.
Type(t) ==
    /\ Room /\ t # typed
    /\ typed' = t /\ timer' = TRUE
    /\ UNCHANGED <<log, shown, query, queue>>

Debounced ==
    /\ timer
    /\ timer' = FALSE
    /\ Show([shown EXCEPT !.search = typed, !.offset = 0])
    /\ UNCHANGED <<log, typed>>

\* Mutant: another filter, the same page.
HandleActionFilter_SamePage(f) ==
    /\ Room
    /\ Show([shown EXCEPT !.filter = f])
    /\ UNCHANGED <<log, typed, timer>>

HandleActionFilter(f) ==
    /\ Room
    /\ Show([shown EXCEPT !.filter = f, !.offset = 0])
    /\ UNCHANGED <<log, typed, timer>>

\* Prev and Next, there when the page on screen says there is more than one.
Turn(o) ==
    LET page == OnScreen
    IN /\ Room /\ page # None /\ page.total > PageSize
       /\ \/ o = shown.offset - PageSize /\ o >= 0
          \/ o = shown.offset + PageSize /\ o < page.total
       /\ Show([shown EXCEPT !.offset = o])
       /\ UNCHANGED <<log, typed, timer>>

\* AuditLogService.list_entries: one SELECT for the entries, one for their number.
Select ==
    /\ queue # <<>> /\ Head(queue).rows = -1
    /\ queue' = [queue EXCEPT ![1].rows = Rows(Head(queue).key)]
    /\ UNCHANGED <<log, typed, timer, shown, query>>

\* Mutant: the number of entries of an earlier answer is kept.
Count_Kept ==
    /\ queue # <<>> /\ Head(queue).rows # -1
    /\ LET c == Head(queue)
           old == query[c.key].data
           total == IF old = None THEN Matching(c.key) ELSE old.total
           page == [rows |-> c.rows, total |-> total]
       IN query' = [query EXCEPT ![c.key] = [data |-> page, fetching |-> FALSE]]
    /\ queue' = Tail(queue)
    /\ UNCHANGED <<log, typed, timer, shown>>

Count ==
    /\ queue # <<>> /\ Head(queue).rows # -1
    /\ LET c == Head(queue)
           page == [rows |-> c.rows, total |-> Matching(c.key)]
       IN query' = [query EXCEPT ![c.key] = [data |-> page, fetching |-> FALSE]]
    /\ queue' = Tail(queue)
    /\ UNCHANGED <<log, typed, timer, shown>>

\* Mutant: a failed call is repeated for as long as its page is on screen.
Fail_Forever ==
    /\ queue # <<>>
    /\ LET c == Head(queue)
       IN \/ /\ c.key = shown
             /\ queue' = Append(Tail(queue), Call(c.key, 1))
             /\ UNCHANGED query
          \/ /\ c.key # shown
             /\ queue' = Tail(queue)
             /\ query' = [query EXCEPT ![c.key].fetching = FALSE]
    /\ UNCHANGED <<log, typed, timer, shown>>

\* The call fails; it is tried once more while its page is on screen.
Fail ==
    /\ queue # <<>>
    /\ LET c == Head(queue)
       IN \/ /\ c.tries = 0 /\ c.key = shown
             /\ queue' = Append(Tail(queue), Call(c.key, 1))
             /\ UNCHANGED query
          \/ /\ queue' = Tail(queue)
             /\ query' = [query EXCEPT ![c.key].fetching = FALSE]
    /\ UNCHANGED <<log, typed, timer, shown>>

\* gcTime: the data of a query off screen is dropped.
Collect(k) ==
    /\ k # shown /\ query[k].data # None /\ ~query[k].fetching
    /\ query' = [query EXCEPT ![k] = Blank]
    /\ UNCHANGED <<log, typed, timer, shown, queue>>

\* An administrator's operation is committed with its entry.
Record(e) ==
    /\ Len(log) < MaxLog
    /\ log' = Append(log, e)
    /\ UNCHANGED <<typed, timer, shown, query, queue>>

Serve == Select \/ Count \/ Fail

Next ==
    \/ \E t \in Searches : Type(t)
    \/ \E f \in Filters : HandleActionFilter(f)
    \/ \E o \in {k.offset : k \in Keys} : Turn(o)
    \/ \E k \in Keys : Collect(k)
    \/ \E e \in Entries : Record(e)
    \/ Debounced \/ Serve

Spec == Init /\ [][Next]_vars

\* The user pauses for 300 ms at some time; every call is answered or broken
\* off after 10 s.
FairSpec == Spec /\ WF_vars(Debounced) /\ WF_vars(Serve)

-----------------------------------------------------------------------------
(* Properties.                                                             *)

Page == [rows: 0 .. PageSize, total: 0 .. MaxLog]

\* Every variable has its type; a query is being fetched exactly while one
\* call for it is in the queue.
TypeOK ==
    /\ log \in Seq(Entries) /\ Len(log) \in 0 .. MaxLog
    /\ typed \in Searches /\ timer \in BOOLEAN /\ shown \in Keys
    /\ \A k \in Keys :
          /\ query[k].data = None \/ query[k].data \in Page
          /\ Cardinality({i \in DOMAIN queue : queue[i].key = k})
                = (IF query[k].fetching THEN 1 ELSE 0)
    /\ \A i \in DOMAIN queue : queue[i].rows \in -1 .. PageSize

\* Whatever is typed, filtered and turned in whatever order: the user is never
\* on a page past the end of the filtered log ("No entries match the current
\* filters", without a pager), audit-log-client.tsx:19-42.
NeverPastTheEnd ==
    LET page == OnScreen
    IN page # None /\ shown.offset > 0 => page.rows > 0

\* The number a page comes with counts at least the entries before and on it,
\* although entries are added between its two SELECTs (audit/service.py:58-64).
TotalCoversRows ==
    \A k \in Keys : LET page == query[k].data
                    IN page # None /\ page.rows > 0
                          => page.total >= k.offset + page.rows

\* What is typed is searched for in the end (audit-log-client.tsx:19-25).
SearchApplied == (typed # shown.search) ~> (typed = shown.search)

\* The first page, which every visit asks for, is loaded in the end or its
\* fetch has failed, whatever else is asked for (query-client.ts:13-21).
FirstPageSettles == query[Start].fetching ~> ~query[Start].fetching
=============================================================================
