-------------------------- MODULE AdminPanelProofs --------------------------
(***************************************************************************)
(* Theorems about the user administration page, for any number of users,   *)
(* pages and changes, any roles and any texts of the search box.           *)
(*                                                                         *)
(* The operators of the query cache take and return a pair of queries and  *)
(* calls.  What they leave true of the pair is shown once for each; every  *)
(* action of the page is a chain of them, ended by Render.                 *)
(***************************************************************************)
EXTENDS AdminPanel, TLAPS, FiniteSetTheorems

\* What the queries and calls may hold when N changes have been submitted: at
\* most N users too many were taken off the total of a page.
Tables == UNION {[S -> Row] : S \in SUBSET Users}
PageUpTo(n) == [total: (-n) .. Count, users: Tables, seen: 0 .. MaxEdits]
DataUpTo(n) == PageUpTo(n) \cup {None}
QueryUpTo(n) == [data: DataUpTo(n), valid: BOOLEAN, error: BOOLEAN]
EntryUpTo(n) == [data: DataUpTo(n), valid: BOOLEAN, error: BOOLEAN,
                 fetch: QueryUpTo(n) \cup {None}]

\* The argument of a change is one of its kind.
Fits(c) ==
    /\ c.op = "role" => c.arg \in Roles
    /\ c.op = "status" => c.arg \in BOOLEAN
EditUpTo(n) ==
    {c \in [op: EditOps, user: Users, id: 1 .. n, arg: Roles \cup BOOLEAN \cup {None},
            before: [Offsets -> DataUpTo(n)] \cup {None}, heard: BOOLEAN] :
        Fits(c) /\ (c.op # "reset" => c.before \in [Offsets -> DataUpTo(n)])}
LateUpTo(n) ==
    {c \in [op: EditOps \ {"reset"}, user: Users, id: 1 .. n,
            arg: Roles \cup BOOLEAN \cup {None}, acked: BOOLEAN] : Fits(c)}
CallUpTo(n) == FetchCall \cup EditUpTo(n)

\* At most one call for a page is waited for, and one is exactly while the page
\* is being fetched.
Fetches(c, o) == c.op = "fetch" /\ c.heard /\ c.at = o
OneFetch(e, q) ==
    /\ \A o \in Offsets : \A i, j \in DOMAIN q :
          Fetches(q[i], o) /\ Fetches(q[j], o) => i = j
    /\ \A o \in Offsets :
          e[o].fetch # None <=> \E i \in DOMAIN q : Fetches(q[i], o)

CacheOK(e, q, n) ==
    /\ e \in [Offsets -> EntryUpTo(n)]
    /\ q \in Seq(CallUpTo(n))
    /\ OneFetch(e, q)

\* A change is submitted once, and is pending, late or landed once: L are the
\* numbers of those that were committed late.
Numbered(q, lt, n, L) ==
    /\ \A i \in DOMAIN q : q[i].op # "fetch" => q[i].id \in (1 .. n) \ L
    /\ \A i, j \in DOMAIN q :
          q[i].op # "fetch" /\ q[j].op # "fetch" /\ q[i].id = q[j].id => i = j
    /\ \A c \in lt : c.id \in (1 .. n) \ L
    /\ \A c, d \in lt : c.id = d.id => c = d
    /\ \A c \in lt : \A i \in DOMAIN q : q[i].op # "fetch" => q[i].id # c.id

StoreInv ==
    /\ db \in Tables
    /\ late \subseteq LateUpTo(edits)
    /\ landed \in Nat /\ edits \in 0 .. MaxEdits
    /\ \E L \in SUBSET (1 .. edits) :
          Cardinality(L) = landed /\ Numbered(queue, late, edits, L)

ScreenInv ==
    /\ offset \in Offsets /\ search \in Searches
    /\ dialog = None \/ (dialog.user \in Rows /\ dialog.op \in EditOps)
    /\ secret \subseteq Rows

TypeInv == StoreInv /\ ScreenInv /\ CacheOK(entry, queue, edits)
-----------------------------------------------------------------------------
(* Pages, queries and calls, field by field.                               *)

LEMMA OffsetsAre ==
    /\ 0 \in Offsets /\ Offsets \subseteq Int
    /\ IsFiniteSet(Users) /\ Cardinality(Users) = Count
<1>1. IsFiniteSet(1 .. Count) /\ Cardinality(1 .. Count) = IF 1 > Count THEN 0 ELSE Count - 1 + 1
  BY PanelAssumption, FS_Interval
<1>2. Count \in Nat /\ Count > 0 /\ PageSize \in Nat /\ PageSize > 0
  BY PanelAssumption
<1>3. 0 % PageSize = 0
  BY <1>2
<1> QED  BY <1>1, <1>2, <1>3 DEF Offsets, Users

LEMMA PageFields ==
    ASSUME NEW n \in Nat, NEW p \in PageUpTo(n)
    PROVE  /\ p.total \in (-n) .. Count /\ p.users \in Tables /\ p.seen \in 0 .. MaxEdits
  BY DEF PageUpTo

LEMMA PagesArePages ==
    ASSUME NEW n \in 0 .. MaxEdits
    PROVE  /\ PageUpTo(n) \subseteq Page /\ None \notin PageUpTo(n)
           /\ QueryUpTo(n) \subseteq Query /\ None \notin QueryUpTo(n)
<1>1. (-n) .. Count \subseteq (-MaxEdits) .. Count
  BY PanelAssumption
<1>2. PageUpTo(n) \subseteq Page
  BY <1>1 DEF PageUpTo, Page, Tables
<1>3. DataUpTo(n) \subseteq Data
  BY <1>2 DEF DataUpTo, Data
<1>4. QueryUpTo(n) \subseteq Query
  BY <1>3 DEF QueryUpTo, Query
<1> QED  BY <1>2, <1>4, PanelAssumption

LEMMA EntryFields ==
    ASSUME NEW n \in Nat, NEW x \in EntryUpTo(n)
    PROVE  /\ x.data \in DataUpTo(n) /\ x.valid \in BOOLEAN /\ x.error \in BOOLEAN
           /\ x.fetch \in QueryUpTo(n) \cup {None}
           /\ x = [data |-> x.data, valid |-> x.valid, error |-> x.error, fetch |-> x.fetch]
  BY DEF EntryUpTo

LEMMA QueryFields ==
    ASSUME NEW n \in Nat, NEW x \in QueryUpTo(n)
    PROVE  x.data \in DataUpTo(n) /\ x.valid \in BOOLEAN /\ x.error \in BOOLEAN
  BY DEF QueryUpTo

LEMMA BlankType ==
    ASSUME NEW n
    PROVE  /\ Blank \in EntryUpTo(n) /\ Blank.fetch = None /\ Blank.data = None
           /\ Blank.valid
<1>1. Blank \in EntryUpTo(n) /\ Blank.fetch = None /\ Blank.data = None
  BY DEF Blank, EntryUpTo, DataUpTo
<1>2. Blank.valid = TRUE
  BY DEF Blank
<1> QED  BY <1>1, <1>2

LEMMA EditFields ==
    ASSUME NEW n \in Nat, NEW c \in EditUpTo(n)
    PROVE  /\ c.op \in EditOps /\ c.op # "fetch" /\ c.user \in Users /\ c.id \in 1 .. n
           /\ c.arg \in Roles \cup BOOLEAN \cup {None} /\ c.heard \in BOOLEAN
           /\ c.op # "reset" => c.before \in [Offsets -> DataUpTo(n)]
           /\ Fits(c)
  BY DEF EditUpTo, EditOps

LEMMA FetchFields ==
    ASSUME NEW c \in FetchCall
    PROVE  c.op = "fetch" /\ c.at \in Offsets /\ c.tries \in {0, 1} /\ c.heard \in BOOLEAN
  BY DEF FetchCall

LEMMA CallKinds ==
    ASSUME NEW n \in Nat, NEW c \in CallUpTo(n)
    PROVE  /\ c.op = "fetch" => c \in FetchCall
           /\ c.op # "fetch" => c \in EditUpTo(n)
  BY EditFields, FetchFields DEF CallUpTo

\* A change that is no longer listened to is the same change.
LEMMA EditUnheard ==
    ASSUME NEW n \in Nat, NEW c \in EditUpTo(n)
    PROVE  LET d == [c EXCEPT !.heard = FALSE]
           IN /\ d \in EditUpTo(n)
              /\ d.op = c.op /\ d.id = c.id /\ d.user = c.user /\ d.arg = c.arg
  BY DEF EditUpTo, Fits

LEMMA FetchingType ==
    ASSUME NEW o \in Offsets, NEW t \in {0, 1}
    PROVE  /\ Fetching(o, t) \in FetchCall /\ Fetches(Fetching(o, t), o)
           /\ Fetching(o, t).op = "fetch" /\ Fetching(o, t).at = o
           /\ Ignored \in FetchCall /\ Ignored.op = "fetch" /\ ~Ignored.heard
  BY OffsetsAre DEF Fetching, FetchCall, Fetches, Ignored

\* One more change, and everything may still be what it was.
LEMMA MoreEdits ==
    ASSUME NEW n \in Nat
    PROVE  /\ DataUpTo(n) \subseteq DataUpTo(n + 1)
           /\ EntryUpTo(n) \subseteq EntryUpTo(n + 1)
           /\ CallUpTo(n) \subseteq CallUpTo(n + 1)
           /\ LateUpTo(n) \subseteq LateUpTo(n + 1)
<1>1. (-n) .. Count \subseteq (-(n + 1)) .. Count /\ 1 .. n \subseteq 1 .. n + 1
  BY PanelAssumption
<1>2. DataUpTo(n) \subseteq DataUpTo(n + 1)
  BY <1>1 DEF PageUpTo, DataUpTo
<1>3. QueryUpTo(n) \subseteq QueryUpTo(n + 1)
  BY <1>2 DEF QueryUpTo
<1>4. EntryUpTo(n) \subseteq EntryUpTo(n + 1)
  BY <1>2, <1>3 DEF EntryUpTo
<1>5. [Offsets -> DataUpTo(n)] \subseteq [Offsets -> DataUpTo(n + 1)]
  BY <1>2
<1>6. EditUpTo(n) \subseteq EditUpTo(n + 1)
  BY <1>1, <1>5 DEF EditUpTo
<1>7. LateUpTo(n) \subseteq LateUpTo(n + 1)
  BY <1>1 DEF LateUpTo
<1> QED  BY <1>2, <1>4, <1>6, <1>7 DEF CallUpTo

-----------------------------------------------------------------------------
(* The queue.                                                              *)

\* Y is what is left of the queue X when K calls are answered: the same changes
\* in the same order, and perhaps more fetches.
Continues(x, y, k) ==
    /\ \A i \in DOMAIN y :
          y[i].op # "fetch" =>
              i + k \in DOMAIN x /\ x[i + k].op = y[i].op /\ x[i + k].id = y[i].id
    /\ \A i \in DOMAIN x : i > k => i - k \in DOMAIN y /\ y[i - k].op = x[i].op

LEMMA QueueTail ==
    ASSUME NEW T, NEW q \in Seq(T), q # <<>>
    PROVE  /\ Head(q) \in T /\ Head(q) = q[1] /\ 1 \in DOMAIN q
           /\ Tail(q) \in Seq(T)
           /\ \A i \in DOMAIN Tail(q) : i + 1 \in DOMAIN q /\ Tail(q)[i] = q[i + 1]
           /\ \A i \in DOMAIN q : i > 1 => i - 1 \in DOMAIN Tail(q) /\ Tail(q)[i - 1] = q[i]
           /\ Continues(q, Tail(q), 1)
<1>1. /\ Head(q) \in T /\ Head(q) = q[1] /\ 1 \in DOMAIN q
      /\ Tail(q) \in Seq(T)
      /\ DOMAIN Tail(q) = 1 .. Len(q) - 1
      /\ \A i \in DOMAIN Tail(q) : i + 1 \in DOMAIN q /\ Tail(q)[i] = q[i + 1]
  OBVIOUS
<1>2. \A i \in DOMAIN q : i > 1 => i - 1 \in DOMAIN Tail(q) /\ Tail(q)[i - 1] = q[i]
  BY <1>1
<1> QED  BY <1>1, <1>2 DEF Continues

LEMMA QueueAppend ==
    ASSUME NEW T, NEW q \in Seq(T), NEW c \in T
    PROVE  /\ Append(q, c) \in Seq(T)
           /\ Len(q) + 1 \in DOMAIN Append(q, c) /\ Append(q, c)[Len(q) + 1] = c
           /\ \A i \in DOMAIN q : i \in DOMAIN Append(q, c) /\ Append(q, c)[i] = q[i]
           /\ \A i \in DOMAIN Append(q, c) : i \in DOMAIN q \/ i = Len(q) + 1
           /\ Len(q) + 1 \notin DOMAIN q
OBVIOUS

LEMMA ContinuesItself ==
    ASSUME NEW T, NEW q \in Seq(T)
    PROVE  Continues(q, q, 0)
  BY DEF Continues

LEMMA ContinuesOn ==
    ASSUME NEW T, NEW x \in Seq(T), NEW y \in Seq(T), NEW z \in Seq(T), NEW k \in {0, 1},
           Continues(x, y, k), Continues(y, z, 0)
    PROVE  Continues(x, z, k)
<1>1. ASSUME NEW i \in DOMAIN z, z[i].op # "fetch"
      PROVE  i + k \in DOMAIN x /\ x[i + k].op = z[i].op /\ x[i + k].id = z[i].id
  <2>1. i + 0 \in DOMAIN y /\ y[i + 0].op = z[i].op /\ y[i + 0].id = z[i].id
    BY <1>1 DEF Continues
  <2>2. i + 0 = i
    OBVIOUS
  <2> QED  BY <1>1, <2>1, <2>2 DEF Continues
<1>2. ASSUME NEW i \in DOMAIN x, i > k
      PROVE  i - k \in DOMAIN z /\ z[i - k].op = x[i].op
  <2>1. i - k \in DOMAIN y /\ y[i - k].op = x[i].op /\ i - k > 0 /\ i - k - 0 = i - k
    BY <1>2 DEF Continues
  <2> QED  BY <2>1 DEF Continues
<1> QED  BY <1>1, <1>2 DEF Continues

\* A fetch at the end of the queue.
LEMMA ContinuesWithFetch ==
    ASSUME NEW T, NEW q \in Seq(T), NEW c \in T, c.op = "fetch"
    PROVE  Continues(q, Append(q, c), 0)
<1>1. /\ \A i \in DOMAIN q : i \in DOMAIN Append(q, c) /\ Append(q, c)[i] = q[i]
      /\ \A i \in DOMAIN Append(q, c) : i \in DOMAIN q \/ i = Len(q) + 1
      /\ Append(q, c)[Len(q) + 1] = c
      /\ \A i \in DOMAIN q : i + 0 = i /\ i - 0 = i
  BY QueueAppend
<1> QED  BY <1>1 DEF Continues

\* The numbers of the changes stay apart while the queue is worked off.
LEMMA NumberedOn ==
    ASSUME NEW T, NEW x \in Seq(T), NEW y \in Seq(T), NEW k \in {0, 1}, NEW n, NEW L, NEW lt,
           Numbered(x, lt, n, L), Continues(x, y, k)
    PROVE  Numbered(y, lt, n, L)
<1>1. \A i \in DOMAIN y : i \in Int /\ (y[i].op # "fetch" =>
          i + k \in DOMAIN x /\ x[i + k].op = y[i].op /\ x[i + k].id = y[i].id)
  BY DEF Continues
<1>2. \A i, j \in DOMAIN y :
         y[i].op # "fetch" /\ y[j].op # "fetch" /\ y[i].id = y[j].id => i = j
  <2> SUFFICES ASSUME NEW i \in DOMAIN y, NEW j \in DOMAIN y,
                      y[i].op # "fetch", y[j].op # "fetch", y[i].id = y[j].id
               PROVE  i = j
    OBVIOUS
  <2>1. PICK a \in DOMAIN x, b \in DOMAIN x : a = i + k /\ b = j + k
    BY <1>1
  <2>2. x[a].op # "fetch" /\ x[b].op # "fetch" /\ x[a].id = x[b].id
    BY <1>1, <2>1
  <2>3. a = b
    BY <2>2 DEF Numbered
  <2> QED  BY <2>1, <2>3, <1>1
<1> QED  BY <1>1, <1>2 DEF Numbered

\* The oldest call is a change, and is late from now on.
LEMMA NumberedLate ==
    ASSUME NEW T, NEW x \in Seq(T), NEW y \in Seq(T), NEW n, NEW L, NEW lt, NEW d,
           Numbered(x, lt, n, L), Continues(x, y, 1), x # <<>>, x[1].op # "fetch", d.id = x[1].id
    PROVE  Numbered(y, lt \cup {d}, n, L)
<1>1. Numbered(y, lt, n, L)
  BY NumberedOn
<1>2. 1 \in DOMAIN x
  OBVIOUS
<1>3. \A i \in DOMAIN y : y[i].op # "fetch" => y[i].id # d.id
  <2> SUFFICES ASSUME NEW i \in DOMAIN y, y[i].op # "fetch", y[i].id = d.id
               PROVE  FALSE
    OBVIOUS
  <2>1. i + 1 \in DOMAIN x /\ x[i + 1].op # "fetch" /\ x[i + 1].id = x[1].id
    BY DEF Continues
  <2>2. i + 1 = 1
    BY <1>2, <2>1 DEF Numbered
  <2> QED  BY <2>2
<1>4. d.id \in (1 .. n) \ L /\ \A c \in lt : c.id # d.id
  BY <1>2 DEF Numbered
<1> QED  BY <1>1, <1>3, <1>4 DEF Numbered

\* A new change has the next number.
LEMMA NumberedNext ==
    ASSUME NEW T, NEW x \in Seq(T), NEW y \in Seq(T), NEW n \in Nat, NEW L, NEW lt, NEW d \in T,
           Numbered(x, lt, n, L), L \subseteq 1 .. n, Continues(x, y, 0), d.id = n + 1
    PROVE  Numbered(Append(y, d), lt, n + 1, L)
<1>1. Numbered(y, lt, n, L)
  BY NumberedOn
<1>2. /\ \A i \in DOMAIN y : i \in DOMAIN Append(y, d) /\ Append(y, d)[i] = y[i]
      /\ \A i \in DOMAIN Append(y, d) : i \in DOMAIN y \/ i = Len(y) + 1
      /\ Append(y, d)[Len(y) + 1] = d
  BY QueueAppend
<1>3. n + 1 \in (1 .. n + 1) \ L /\ n + 1 \notin 1 .. n /\ 1 .. n \subseteq 1 .. n + 1
  OBVIOUS
<1> QED  BY <1>1, <1>2, <1>3 DEF Numbered

-----------------------------------------------------------------------------
(* The query cache.                                                        *)

LEMMA UnheardOK ==
    ASSUME NEW n \in Nat, NEW q \in Seq(CallUpTo(n)), NEW O \in SUBSET Offsets
    PROVE  /\ Unheard(q, O) \in Seq(CallUpTo(n)) /\ Len(Unheard(q, O)) = Len(q)
           /\ DOMAIN Unheard(q, O) = DOMAIN q
           /\ Continues(q, Unheard(q, O), 0)
           /\ \A i \in DOMAIN q : \A o \in Offsets :
                 Fetches(Unheard(q, O)[i], o) <=> Fetches(q[i], o) /\ o \notin O
<1> DEFINE u == Unheard(q, O)
<1>1. /\ DOMAIN u = 1 .. Len(q)
      /\ \A i \in DOMAIN q :
            u[i] = IF q[i].op = "fetch" /\ q[i].at \in O THEN Ignored ELSE q[i]
  BY DEF Unheard
<1>2. Ignored \in FetchCall /\ Ignored.op = "fetch" /\ ~Ignored.heard
  BY FetchingType, OffsetsAre
<1>3. \A i \in DOMAIN q : u[i] \in CallUpTo(n)
  BY <1>1, <1>2 DEF CallUpTo
<1>4. u \in Seq(CallUpTo(n)) /\ Len(u) = Len(q) /\ DOMAIN u = DOMAIN q
  BY <1>1, <1>3 DEF Unheard
<1>5. \A i \in DOMAIN q : /\ u[i].op = q[i].op
                          /\ q[i].op # "fetch" => u[i] = q[i]
                          /\ i + 0 = i /\ i - 0 = i
  BY <1>1, <1>2
<1> HIDE DEF u
<1>6. Continues(q, u, 0)
  BY <1>4, <1>5 DEF Continues
<1>7. ASSUME NEW i \in DOMAIN q, NEW o \in Offsets
      PROVE  Fetches(u[i], o) <=> Fetches(q[i], o) /\ o \notin O
  BY <1>1, <1>2 DEF Fetches
<1> QED  BY <1>4, <1>6, <1>7 DEF u

LEMMA FetchOK ==
    ASSUME NEW n \in 0 .. MaxEdits, NEW e, NEW q, CacheOK(e, q, n), NEW o \in Offsets
    PROVE  \E e2, q2 :
              /\ Fetch(e, q, o) = <<e2, q2>>
              /\ CacheOK(e2, q2, n) /\ Continues(q, q2, 0) /\ e2[o].fetch # None
              /\ \A p \in Offsets : e2[p].data = e[p].data /\ e2[p].valid = e[p].valid
<1>0. n \in Nat
  BY PanelAssumption
<1>1. e \in [Offsets -> EntryUpTo(n)] /\ q \in Seq(CallUpTo(n)) /\ OneFetch(e, q)
  BY DEF CacheOK
<1>2. CASE e[o].data = None /\ e[o].fetch # None
  BY <1>1, <1>2, ContinuesItself DEF Fetch
<1>3. CASE ~(e[o].data = None /\ e[o].fetch # None)
  <2> DEFINE saved == [data |-> e[o].data, valid |-> e[o].valid, error |-> e[o].error]
             e2 == [e EXCEPT ![o].fetch = saved, ![o].error = @ /\ e[o].data # None]
             u == Unheard(q, {o})
             c == Fetching(o, 0)
             q2 == Append(u, c)
  <2>1. Fetch(e, q, o) = <<e2, q2>>
    BY <1>3 DEF Fetch
  <2>2. /\ u \in Seq(CallUpTo(n)) /\ DOMAIN u = DOMAIN q
        /\ Continues(q, u, 0)
        /\ \A i \in DOMAIN u : \A p \in Offsets : Fetches(u[i], p) <=> Fetches(q[i], p) /\ p # o
    BY <1>0, <1>1, UnheardOK
  <2>3. /\ c \in CallUpTo(n) /\ c.op = "fetch" /\ \A p \in Offsets : Fetches(c, p) <=> p = o
    BY FetchingType DEF CallUpTo, Fetches
  <2>4. /\ e[o].data \in DataUpTo(n) /\ e[o].valid \in BOOLEAN /\ e[o].error \in BOOLEAN
        /\ e[o] = [data |-> e[o].data, valid |-> e[o].valid, error |-> e[o].error,
                   fetch |-> e[o].fetch]
    BY <1>0, <1>1, EntryFields
  <2>5. saved \in QueryUpTo(n) /\ saved # None
    BY <2>4, PagesArePages DEF QueryUpTo
  <2>6. \E b \in BOOLEAN :
           e2[o] = [data |-> e[o].data, valid |-> e[o].valid, error |-> b, fetch |-> saved]
    <3>1. PICK x, w, b : x = e[o] /\ w = saved /\ b = (e[o].error /\ e[o].data # None)
      OBVIOUS
    <3>2. e2 = [[e EXCEPT ![o] = [@ EXCEPT !.fetch = w]] EXCEPT ![o] = [@ EXCEPT !.error = b]]
      BY <1>1, <3>1
    <3> HIDE DEF e2
    <3>3. e2[o] = [[x EXCEPT !.fetch = w] EXCEPT !.error = b]
      BY <1>1, <3>1, <3>2
    <3>4. x = [data |-> e[o].data, valid |-> e[o].valid, error |-> e[o].error,
               fetch |-> e[o].fetch]
      BY <2>4, <3>1
    <3>5. e2[o] = [data |-> e[o].data, valid |-> e[o].valid, error |-> b, fetch |-> w]
      BY <3>3, <3>4
    <3>6. b \in BOOLEAN
      BY <3>1
    <3> QED  BY <3>1, <3>5, <3>6
  <2>7. e2 \in [Offsets -> EntryUpTo(n)]
    <3>1. e2[o] \in EntryUpTo(n)
      BY <2>4, <2>5, <2>6 DEF EntryUpTo
    <3> QED  BY <1>1, <3>1
  <2>8. /\ e2[o].fetch # None
        /\ \A p \in Offsets : /\ e2[p].data = e[p].data /\ e2[p].valid = e[p].valid
                              /\ p # o => e2[p].fetch = e[p].fetch
    BY <1>1, <2>5, <2>6
  <2> HIDE DEF e2, u, c, q2, saved
  <2>9. /\ q2 \in Seq(CallUpTo(n)) /\ Continues(u, q2, 0)
        /\ Len(u) + 1 \in DOMAIN q2 /\ q2[Len(u) + 1] = c
        /\ \A i \in DOMAIN u : i \in DOMAIN q2 /\ q2[i] = u[i]
        /\ \A i \in DOMAIN q2 : i \in DOMAIN u \/ i = Len(u) + 1
        /\ Len(u) + 1 \notin DOMAIN u
    BY <2>2, <2>3, QueueAppend, ContinuesWithFetch DEF q2
  <2>10. \A p \in Offsets : \A i, j \in DOMAIN q2 :
            Fetches(q2[i], p) /\ Fetches(q2[j], p) => i = j
    BY <1>1, <2>2, <2>3, <2>9 DEF OneFetch
  <2>11. \A p \in Offsets : e2[p].fetch # None <=> \E i \in DOMAIN q2 : Fetches(q2[i], p)
    <3> TAKE p \in Offsets
    <3>1. CASE p = o
      BY <3>1, <2>3, <2>8, <2>9
    <3>2. CASE p # o
      <4>1. e2[p].fetch # None <=> \E i \in DOMAIN q : Fetches(q[i], p)
        BY <1>1, <2>8, <3>2 DEF OneFetch
      <4>2. (\E i \in DOMAIN q : Fetches(q[i], p)) <=> \E i \in DOMAIN q2 : Fetches(q2[i], p)
        BY <2>2, <2>3, <2>9, <3>2
      <4> QED  BY <4>1, <4>2
    <3> QED  BY <3>1, <3>2
  <2>12. CacheOK(e2, q2, n)
    BY <2>7, <2>9, <2>10, <2>11 DEF CacheOK, OneFetch
  <2>13. Continues(q, q2, 0)
    BY <1>1, <2>2, <2>9, ContinuesOn
  <2> QED  BY <2>1, <2>8, <2>12, <2>13
<1> QED  BY <1>2, <1>3

\* cancelQueries: nothing is being fetched any more.
LEMMA CancelledOK ==
    ASSUME NEW n \in 0 .. MaxEdits, NEW e, NEW q, CacheOK(e, q, n)
    PROVE  /\ CacheOK(Cancelled(e), Unheard(q, Offsets), n)
           /\ Continues(q, Unheard(q, Offsets), 0)
<1>0. n \in Nat
  BY PanelAssumption
<1>1. e \in [Offsets -> EntryUpTo(n)] /\ q \in Seq(CallUpTo(n)) /\ OneFetch(e, q)
  BY DEF CacheOK
<1> DEFINE u == Unheard(q, Offsets)
<1>2. /\ u \in Seq(CallUpTo(n)) /\ DOMAIN u = DOMAIN q
      /\ Continues(q, u, 0)
      /\ \A i \in DOMAIN u : \A o \in Offsets : ~Fetches(u[i], o)
  BY <1>0, <1>1, UnheardOK
<1>3. ASSUME NEW o \in Offsets
      PROVE  /\ Cancelled(e)[o] \in EntryUpTo(n)
             /\ Cancelled(e)[o].fetch = None
  <2>1. CASE e[o].fetch = None
    BY <1>1, <2>1 DEF Cancelled
  <2>2. CASE e[o].fetch # None
    <3>1. e[o].fetch \in QueryUpTo(n)
      BY <1>0, <1>1, <2>2, EntryFields
    <3>2. PICK f \in QueryUpTo(n) : f = e[o].fetch
      BY <3>1
    <3>3. Cancelled(e)[o] = [data |-> f.data, valid |-> f.valid, error |-> f.error, fetch |-> None]
      BY <2>2, <3>2 DEF Cancelled, Blank
    <3>4. f.data \in DataUpTo(n) /\ f.valid \in BOOLEAN /\ f.error \in BOOLEAN
      BY <1>0, QueryFields
    <3> QED  BY <3>3, <3>4 DEF EntryUpTo
  <2> QED  BY <2>1, <2>2
<1>4. Cancelled(e) \in [Offsets -> EntryUpTo(n)]
  BY <1>3 DEF Cancelled
<1> HIDE DEF u
<1>5. OneFetch(Cancelled(e), u)
  BY <1>2, <1>3 DEF OneFetch
<1> QED  BY <1>2, <1>4, <1>5 DEF CacheOK, u

\* setQueryData: what is being fetched still is.
LEMMA SetDataOK ==
    ASSUME NEW n \in 0 .. MaxEdits, NEW e, NEW q, CacheOK(e, q, n),
           NEW data \in [Offsets -> DataUpTo(n)]
    PROVE  CacheOK(SetData(e, data), q, n)
<1>0. n \in Nat
  BY PanelAssumption
<1>1. e \in [Offsets -> EntryUpTo(n)] /\ q \in Seq(CallUpTo(n)) /\ OneFetch(e, q)
  BY DEF CacheOK
<1>2. ASSUME NEW o \in Offsets
      PROVE  SetData(e, data)[o] \in EntryUpTo(n) /\ SetData(e, data)[o].fetch = e[o].fetch
  <2>1. PICK x \in EntryUpTo(n) : x = e[o]
    BY <1>1
  <2>2. SetData(e, data)[o] = IF data[o] = None THEN x
                              ELSE [data |-> data[o], valid |-> TRUE, error |-> FALSE,
                                    fetch |-> x.fetch]
    <3>1. PICK d, v, r, f : x = [data |-> d, valid |-> v, error |-> r, fetch |-> f]
      BY <1>0, EntryFields
    <3>2. SetData(e, data)[o] = IF data[o] = None THEN x
                                ELSE [x EXCEPT !.data = data[o], !.valid = TRUE, !.error = FALSE]
      BY <2>1 DEF SetData
    <3> QED  BY <3>1, <3>2
  <2>3. data[o] \in DataUpTo(n) /\ x.fetch \in QueryUpTo(n) \cup {None}
    BY <1>0, EntryFields
  <2> QED  BY <2>1, <2>2, <2>3 DEF EntryUpTo
<1>3. SetData(e, data) \in [Offsets -> EntryUpTo(n)]
  BY <1>2 DEF SetData
<1>4. OneFetch(SetData(e, data), q)
  BY <1>1, <1>2 DEF OneFetch
<1> QED  BY <1>1, <1>3, <1>4 DEF CacheOK

\* invalidateQueries: no page counts as up to date, and the one on screen is
\* being fetched.
LEMMA InvalidateOK ==
    ASSUME NEW n \in 0 .. MaxEdits, NEW e, NEW q, CacheOK(e, q, n), offset \in Offsets
    PROVE  \E e2, q2 :
              /\ Invalidate(e, q) = <<e2, q2>>
              /\ CacheOK(e2, q2, n) /\ Continues(q, q2, 0) /\ e2[offset].fetch # None
              /\ \A p \in Offsets : ~(e2[p].data # None /\ e2[p].valid)
<1>0. n \in Nat
  BY PanelAssumption
<1>1. e \in [Offsets -> EntryUpTo(n)] /\ q \in Seq(CallUpTo(n)) /\ OneFetch(e, q)
  BY DEF CacheOK
<1> DEFINE m == [o \in Offsets |-> [e[o] EXCEPT !.valid = @ /\ e[o].data = None]]
<1>2. ASSUME NEW o \in Offsets
      PROVE  /\ m[o] \in EntryUpTo(n) /\ m[o].fetch = e[o].fetch
             /\ ~(m[o].data # None /\ m[o].valid)
  <2>1. PICK x \in EntryUpTo(n) : x = e[o]
    BY <1>1
  <2>2. m[o] = [data |-> x.data, valid |-> (x.valid /\ x.data = None), error |-> x.error,
                fetch |-> x.fetch]
    BY <1>0, <2>1, EntryFields
  <2> QED  BY <1>0, <2>1, <2>2, EntryFields DEF EntryUpTo
<1>3. m \in [Offsets -> EntryUpTo(n)]
  BY <1>2
<1>4. CacheOK(m, q, n)
  BY <1>1, <1>2, <1>3 DEF CacheOK, OneFetch
<1>5. Invalidate(e, q) = Fetch(m, q, offset)
  BY DEF Invalidate
<1> HIDE DEF m
<1>6. PICK e2, q2 :
         /\ Fetch(m, q, offset) = <<e2, q2>>
         /\ CacheOK(e2, q2, n) /\ Continues(q, q2, 0) /\ e2[offset].fetch # None
         /\ \A p \in Offsets : e2[p].data = m[p].data /\ e2[p].valid = m[p].valid
  BY <1>4, FetchOK
<1>7. \A p \in Offsets : ~(e2[p].data # None /\ e2[p].valid)
  BY <1>2, <1>6
<1> QED  BY <1>5, <1>6, <1>7

LEMMA MoreCache ==
    ASSUME NEW n \in Nat, NEW e, NEW q, CacheOK(e, q, n)
    PROVE  CacheOK(e, q, n + 1)
<1>1. e \in [Offsets -> EntryUpTo(n + 1)]
  BY MoreEdits DEF CacheOK
<1>2. q \in Seq(CallUpTo(n + 1))
  BY MoreEdits DEF CacheOK
<1> QED  BY <1>1, <1>2 DEF CacheOK

\* A call that nobody waits for leaves the queue: a change, or a fetch that was
\* cancelled.
LEMMA UnheardServed ==
    ASSUME NEW n \in Nat, NEW e, NEW q, CacheOK(e, q, n), q # <<>>,
           \A o \in Offsets : ~Fetches(Head(q), o)
    PROVE  CacheOK(e, Tail(q), n) /\ Continues(q, Tail(q), 1)
<1>1. e \in [Offsets -> EntryUpTo(n)] /\ q \in Seq(CallUpTo(n)) /\ OneFetch(e, q)
  BY DEF CacheOK
<1> DEFINE t == Tail(q)
<1>2. /\ Head(q) = q[1] /\ t \in Seq(CallUpTo(n)) /\ Continues(q, t, 1)
      /\ \A i \in DOMAIN t : i \in Int /\ i + 1 \in DOMAIN q /\ t[i] = q[i + 1]
      /\ \A i \in DOMAIN q : i > 1 => i - 1 \in DOMAIN t /\ t[i - 1] = q[i]
      /\ \A i \in DOMAIN q : i = 1 \/ i > 1
  BY <1>1, QueueTail
<1> HIDE DEF t
<1>3. ASSUME NEW o \in Offsets, NEW i \in DOMAIN t, NEW j \in DOMAIN t,
             Fetches(t[i], o), Fetches(t[j], o)
      PROVE  i = j
  <2>1. PICK a \in DOMAIN q, b \in DOMAIN q : a = i + 1 /\ b = j + 1 /\ t[i] = q[a] /\ t[j] = q[b]
    BY <1>2
  <2>2. a = b
    BY <1>1, <1>3, <2>1 DEF OneFetch
  <2> QED  BY <1>2, <2>1, <2>2
<1>4. \A o \in Offsets :
         (\E i \in DOMAIN q : Fetches(q[i], o)) <=> \E i \in DOMAIN t : Fetches(t[i], o)
  BY <1>2
<1>5. OneFetch(e, t)
  BY <1>1, <1>3, <1>4 DEF OneFetch
<1> QED  BY <1>1, <1>2, <1>5 DEF CacheOK, t

\* A fetch is answered, and its page is not being fetched any more.
LEMMA FetchServed ==
    ASSUME NEW n \in Nat, NEW e, NEW q, CacheOK(e, q, n), q # <<>>,
           NEW o \in Offsets, Fetches(Head(q), o),
           NEW e2 \in [Offsets -> EntryUpTo(n)], e2[o].fetch = None,
           \A p \in Offsets \ {o} : e2[p].fetch = e[p].fetch
    PROVE  CacheOK(e2, Tail(q), n) /\ Continues(q, Tail(q), 1)
<1>1. e \in [Offsets -> EntryUpTo(n)] /\ q \in Seq(CallUpTo(n)) /\ OneFetch(e, q)
  BY DEF CacheOK
<1> DEFINE t == Tail(q)
<1>2. /\ Head(q) = q[1] /\ t \in Seq(CallUpTo(n)) /\ Continues(q, t, 1) /\ 1 \in DOMAIN q
      /\ \A i \in DOMAIN t : i \in Int /\ i > 0 /\ i + 1 \in DOMAIN q /\ t[i] = q[i + 1]
      /\ \A i \in DOMAIN q : i > 1 => i - 1 \in DOMAIN t /\ t[i - 1] = q[i]
      /\ \A i \in DOMAIN q : i = 1 \/ i > 1
  BY <1>1, QueueTail
<1> HIDE DEF t
<1>3. ASSUME NEW p \in Offsets, NEW i \in DOMAIN t, NEW j \in DOMAIN t,
             Fetches(t[i], p), Fetches(t[j], p)
      PROVE  i = j
  <2>1. PICK a \in DOMAIN q, b \in DOMAIN q : a = i + 1 /\ b = j + 1 /\ t[i] = q[a] /\ t[j] = q[b]
    BY <1>2
  <2>2. a = b
    BY <1>1, <1>3, <2>1 DEF OneFetch
  <2> QED  BY <1>2, <2>1, <2>2
<1>4. ASSUME NEW i \in DOMAIN t PROVE ~Fetches(t[i], o)
  <2>1. PICK a \in DOMAIN q : a = i + 1 /\ t[i] = q[a] /\ a # 1
    BY <1>2
  <2> QED  BY <1>1, <1>2, <2>1 DEF OneFetch
<1>5. \A p \in Offsets : p # o => ~Fetches(q[1], p)
  BY <1>2 DEF Fetches
<1>6. \A p \in Offsets : e2[p].fetch # None <=> \E i \in DOMAIN t : Fetches(t[i], p)
  <2> TAKE p \in Offsets
  <2>1. CASE p = o
    BY <1>4, <2>1
  <2>2. CASE p # o
    <3>1. (\E i \in DOMAIN q : Fetches(q[i], p)) <=> \E i \in DOMAIN t : Fetches(t[i], p)
      BY <1>2, <1>5, <2>2
    <3> QED  BY <1>1, <2>2, <3>1 DEF OneFetch
  <2> QED  BY <2>1, <2>2
<1>7. OneFetch(e2, t)
  BY <1>3, <1>6 DEF OneFetch
<1> QED  BY <1>2, <1>7 DEF CacheOK, t

\* A page that was not being fetched is.
LEMMA FetchSent ==
    ASSUME NEW n \in Nat, NEW e, NEW q, CacheOK(e, q, n), NEW o \in Offsets, NEW t \in {0, 1},
           e[o].fetch = None,
           NEW e2 \in [Offsets -> EntryUpTo(n)], e2[o].fetch # None,
           \A p \in Offsets \ {o} : e2[p].fetch = e[p].fetch
    PROVE  CacheOK(e2, Append(q, Fetching(o, t)), n)
<1>1. e \in [Offsets -> EntryUpTo(n)] /\ q \in Seq(CallUpTo(n)) /\ OneFetch(e, q)
  BY DEF CacheOK
<1>2. PICK c : c = Fetching(o, t)
  OBVIOUS
<1>3. c \in CallUpTo(n) /\ c.op = "fetch" /\ \A p \in Offsets : Fetches(c, p) <=> p = o
  BY <1>2, FetchingType DEF CallUpTo, Fetches
<1> DEFINE q2 == Append(q, c)
<1>4. /\ q2 \in Seq(CallUpTo(n))
      /\ Len(q) + 1 \in DOMAIN q2 /\ q2[Len(q) + 1] = c
      /\ \A i \in DOMAIN q : i \in DOMAIN q2 /\ q2[i] = q[i]
      /\ \A i \in DOMAIN q2 : i \in DOMAIN q \/ i = Len(q) + 1
  BY <1>1, <1>3, QueueAppend
<1> HIDE DEF q2
<1>5. \A i \in DOMAIN q : ~Fetches(q[i], o)
  BY <1>1 DEF OneFetch
<1>6. \A p \in Offsets : \A i, j \in DOMAIN q2 : Fetches(q2[i], p) /\ Fetches(q2[j], p) => i = j
  BY <1>1, <1>3, <1>4, <1>5 DEF OneFetch
<1>7. \A p \in Offsets : e2[p].fetch # None <=> \E i \in DOMAIN q2 : Fetches(q2[i], p)
  <2> TAKE p \in Offsets
  <2>1. CASE p = o
    BY <2>1, <1>3, <1>4
  <2>2. CASE p # o
    <3>1. (\E i \in DOMAIN q : Fetches(q[i], p)) <=> \E i \in DOMAIN q2 : Fetches(q2[i], p)
      BY <1>3, <1>4, <2>2
    <3> QED  BY <1>1, <2>2, <3>1 DEF OneFetch
  <2> QED  BY <2>1, <2>2
<1> QED  BY <1>2, <1>4, <1>6, <1>7 DEF CacheOK, OneFetch, q2

\* A change is sent.
LEMMA EditSent ==
    ASSUME NEW n \in Nat, NEW e, NEW q, CacheOK(e, q, n), NEW c \in EditUpTo(n)
    PROVE  CacheOK(e, Append(q, c), n)
<1>1. e \in [Offsets -> EntryUpTo(n)] /\ q \in Seq(CallUpTo(n)) /\ OneFetch(e, q)
  BY DEF CacheOK
<1>2. c \in CallUpTo(n) /\ \A p \in Offsets : ~Fetches(c, p)
  BY EditFields DEF CallUpTo, Fetches
<1> DEFINE q2 == Append(q, c)
<1>3. /\ q2 \in Seq(CallUpTo(n)) /\ q2[Len(q) + 1] = c
      /\ \A i \in DOMAIN q : i \in DOMAIN q2 /\ q2[i] = q[i]
      /\ \A i \in DOMAIN q2 : i \in DOMAIN q \/ i = Len(q) + 1
  BY <1>1, <1>2, QueueAppend
<1> HIDE DEF q2
<1>4. OneFetch(e, q2)
  <2>1. \A p \in Offsets : \A i \in DOMAIN q2 : Fetches(q2[i], p) => i \in DOMAIN q /\ Fetches(q[i], p)
    BY <1>2, <1>3
  <2>2. \A p \in Offsets : \A i \in DOMAIN q : Fetches(q[i], p) => i \in DOMAIN q2 /\ Fetches(q2[i], p)
    BY <1>3
  <2> QED  BY <1>1, <2>1, <2>2 DEF OneFetch
<1> QED  BY <1>1, <1>3, <1>4 DEF CacheOK, q2

\* What is on screen now: rows that went have closed their dialogs and hear of
\* their changes no more; the queries and calls are otherwise what they were.
LEMMA RenderOK ==
    ASSUME NEW n \in Nat, NEW e, NEW q, CacheOK(e, q, n),
           NEW o \in Offsets, NEW s \in Searches, NEW d, d = None \/ d.op \in EditOps, NEW held,
           Render(<<e, q>>, o, s, d, held)
    PROVE  /\ entry' = e /\ offset' = o /\ search' = s
           /\ CacheOK(entry', queue', n) /\ Continues(q, queue', 0)
           /\ ScreenInv'
<1>1. e \in [Offsets -> EntryUpTo(n)] /\ q \in Seq(CallUpTo(n)) /\ OneFetch(e, q)
  BY DEF CacheOK
<1>2. /\ entry' = e /\ offset' = o /\ search' = s
      /\ queue' = [i \in DOMAIN q |->
                      IF q[i].op = "fetch" \/ q[i].user \in Shown(e, o, s) THEN q[i]
                      ELSE [q[i] EXCEPT !.heard = FALSE]]
      /\ dialog' = IF d # None /\ d.user \in Shown(e, o, s) THEN d ELSE None
      /\ secret' = held \cap Shown(e, o, s)
  BY DEF Render
<1>3. Rows' = Shown(e, o, s)
  BY <1>2 DEF Rows, Shown
<1>4. ScreenInv'
  BY <1>2, <1>3 DEF ScreenInv
<1>5. PICK y : y = queue'
  OBVIOUS
<1>6. ASSUME NEW i \in DOMAIN q
      PROVE  /\ y[i] \in CallUpTo(n) /\ y[i].op = q[i].op
             /\ q[i].op = "fetch" => y[i] = q[i]
             /\ q[i].op # "fetch" => y[i].id = q[i].id
  <2>1. q[i] \in CallUpTo(n)
    BY <1>1
  <2>2. CASE q[i].op = "fetch" \/ q[i].user \in Shown(e, o, s)
    BY <1>2, <1>5, <2>1, <2>2
  <2>3. CASE ~(q[i].op = "fetch" \/ q[i].user \in Shown(e, o, s))
    <3>1. q[i] \in EditUpTo(n) /\ y[i] = [q[i] EXCEPT !.heard = FALSE]
      BY <1>2, <1>5, <2>1, <2>3, CallKinds
    <3> QED  BY <2>3, <3>1, EditUnheard DEF CallUpTo
  <2> QED  BY <2>2, <2>3
<1>7. y \in Seq(CallUpTo(n)) /\ DOMAIN y = DOMAIN q
  <2>1. y = [i \in DOMAIN q |-> y[i]]
    BY <1>2, <1>5
  <2>2. PICK m \in Nat : DOMAIN q = 1 .. m
    BY <1>1
  <2>3. y \in [1 .. m -> CallUpTo(n)]
    BY <1>6, <2>1, <2>2
  <2> QED  BY <2>2, <2>3
<1>8. \A i \in DOMAIN q : \A p \in Offsets : Fetches(y[i], p) <=> Fetches(q[i], p)
  BY <1>6 DEF Fetches
<1>9. OneFetch(e, y)
  BY <1>1, <1>7, <1>8 DEF OneFetch
<1>10. Continues(q, y, 0)
  <2>1. \A i \in DOMAIN q : i + 0 = i /\ i - 0 = i
    BY <1>1
  <2> QED  BY <1>6, <1>7, <2>1 DEF Continues
<1> QED  BY <1>1, <1>2, <1>4, <1>5, <1>7, <1>9, <1>10 DEF CacheOK

-----------------------------------------------------------------------------
(* The users table and the pages of the list.                              *)

LEMMA TableFields ==
    ASSUME NEW t \in Tables
    PROVE  /\ DOMAIN t \subseteq Users /\ t = [u \in DOMAIN t |-> t[u]]
           /\ \A u \in DOMAIN t : t[u] \in Row
  BY DEF Tables

LEMMA TableMade ==
    ASSUME NEW S \in SUBSET Users, NEW t, t = [u \in S |-> t[u]], \A u \in S : t[u] \in Row
    PROVE  t \in Tables /\ DOMAIN t = S
<1>1. t \in [S -> Row]
  OBVIOUS
<1> QED  BY <1>1 DEF Tables

LEMMA ChangedType ==
    ASSUME NEW row \in Row, NEW c, Fits(c), c.op \in {"role", "status"}
    PROVE  Changed(row, c) \in Row
<1>1. CASE c.op = "role"
  <2>1. Changed(row, c) = [role |-> c.arg, active |-> row.active]
    BY <1>1 DEF Changed, Row
  <2> QED  BY <1>1, <2>1 DEF Fits, Row
<1>2. CASE c.op = "status"
  <2>1. Changed(row, c) = [role |-> row.role, active |-> c.arg]
    BY <1>2 DEF Changed, Row
  <2> QED  BY <1>2, <2>1 DEF Fits, Row
<1> QED  BY <1>1, <1>2

LEMMA CarriedType ==
    ASSUME db \in Tables, NEW c, Fits(c), c.op \in EditOps
    PROVE  Carried(c) \in Tables
<1>0. DOMAIN db \subseteq Users /\ \A u \in DOMAIN db : db[u] \in Row
  BY TableFields
<1>1. CASE c.op = "reset"
  BY <1>1 DEF Carried
<1>2. CASE c.op = "delete"
  <2>1. Carried(c) = [u \in DOMAIN db \ {c.user} |-> db[u]]
    BY <1>2 DEF Carried
  <2> QED  BY <1>0, <2>1, TableMade
<1>3. CASE c.op \in {"role", "status"}
  <2> DEFINE f(u) == IF u = c.user THEN Changed(db[u], c) ELSE db[u]
  <2>1. Carried(c) = [u \in DOMAIN db |-> f(u)]
    BY <1>3 DEF Carried
  <2>2. \A u \in DOMAIN db : f(u) \in Row
    BY <1>0, <1>3, ChangedType
  <2> HIDE DEF f
  <2> QED  BY <1>0, <2>1, <2>2, TableMade
<1> QED  BY <1>1, <1>2, <1>3 DEF EditOps

LEMMA PatchType ==
    ASSUME NEW n \in Nat, NEW page \in DataUpTo(n), NEW c, Fits(c),
           c.op \in EditOps \ {"reset"}
    PROVE  Patch(page, c) \in DataUpTo(n + 1)
<1>1. CASE page = None
  BY <1>1 DEF Patch, DataUpTo
<1>2. CASE page # None
  <2>1. PICK t \in (-n) .. Count, us \in Tables, seen \in 0 .. MaxEdits :
           page = [total |-> t, users |-> us, seen |-> seen]
    BY <1>2 DEF DataUpTo, PageUpTo
  <2>2. t - 1 \in (-(n + 1)) .. Count /\ t \in (-(n + 1)) .. Count
    BY PanelAssumption
  <2>3. DOMAIN us \subseteq Users /\ \A u \in DOMAIN us : us[u] \in Row
    BY TableFields
  <2>4. CASE c.op = "delete"
    <3>1. Patch(page, c) = [page EXCEPT !.total = @ - 1,
                                        !.users = [u \in DOMAIN @ \ {c.user} |-> @[u]]]
      BY <1>2, <2>4 DEF Patch
    <3>2. Patch(page, c) = [total |-> t - 1, users |-> [u \in DOMAIN us \ {c.user} |-> us[u]],
                            seen |-> seen]
      BY <2>1, <3>1
    <3>3. [u \in DOMAIN us \ {c.user} |-> us[u]] \in Tables
      BY <2>3, TableMade
    <3> QED  BY <2>2, <3>2, <3>3 DEF DataUpTo, PageUpTo
  <2>5. CASE c.op \in {"role", "status"}
    <3> DEFINE f(u) == IF u = c.user THEN Changed(us[u], c) ELSE us[u]
               g == [u \in DOMAIN us |-> f(u)]
    <3>1. Patch(page, c) = [page EXCEPT !.users = [u \in DOMAIN @ |->
                                IF u = c.user THEN Changed(@[u], c) ELSE @[u]]]
      BY <1>2, <2>5 DEF Patch
    <3>2. Patch(page, c) = [total |-> t, users |-> g, seen |-> seen]
      BY <2>1, <3>1
    <3>3. \A u \in DOMAIN us : f(u) \in Row
      BY <2>3, <2>5, ChangedType
    <3> HIDE DEF f
    <3>4. g \in Tables
      BY <2>3, <3>3, TableMade
    <3> HIDE DEF g
    <3> QED  BY <2>2, <3>2, <3>4 DEF DataUpTo, PageUpTo
  <2> QED  BY <2>4, <2>5 DEF EditOps
<1> QED  BY <1>1, <1>2

LEMMA PageAtType ==
    ASSUME NEW n \in Nat, db \in Tables, landed \in 0 .. MaxEdits, NEW o \in Offsets
    PROVE  PageAt(o) \in PageUpTo(n) /\ PageAt(o).seen = landed
<1> DEFINE ids == {u \in DOMAIN db : Cardinality({v \in DOMAIN db : v < u}) \in o .. o + PageSize - 1}
           us == [u \in ids |-> db[u]]
<1>1. PageAt(o) = [total |-> Cardinality(DOMAIN db), users |-> us, seen |-> landed]
  BY DEF PageAt
<1>2. DOMAIN db \subseteq Users /\ \A u \in DOMAIN db : db[u] \in Row
  BY TableFields
<1>3. ids \subseteq DOMAIN db
  OBVIOUS
<1> HIDE DEF ids
<1>4. us \in Tables
  BY <1>2, <1>3, TableMade
<1>5. Cardinality(DOMAIN db) \in (-n) .. Count
  <2>1. IsFiniteSet(DOMAIN db) /\ Cardinality(DOMAIN db) <= Cardinality(Users)
    BY <1>2, OffsetsAre, FS_Subset
  <2>2. Cardinality(DOMAIN db) \in Nat
    BY <2>1, FS_CardinalityType
  <2> QED  BY <2>1, <2>2, OffsetsAre, PanelAssumption
<1> HIDE DEF us
<1> QED  BY <1>1, <1>4, <1>5 DEF PageUpTo

\* No more changes were committed late than were submitted.
LEMMA SomeOf ==
    ASSUME NEW n \in Nat, NEW L \in SUBSET (1 .. n)
    PROVE  IsFiniteSet(L) /\ Cardinality(L) \in 0 .. n
<1>1. IsFiniteSet(1 .. n) /\ Cardinality(1 .. n) = IF 1 > n THEN 0 ELSE n - 1 + 1
  BY FS_Interval
<1>2. Cardinality(1 .. n) = n
  BY <1>1
<1>3. IsFiniteSet(L) /\ Cardinality(L) <= Cardinality(1 .. n)
  BY <1>1, FS_Subset
<1>4. Cardinality(L) \in Nat
  BY <1>3, FS_CardinalityType
<1> QED  BY <1>2, <1>3, <1>4

LEMMA LandedBound ==
    ASSUME StoreInv
    PROVE  landed \in 0 .. MaxEdits /\ edits \in Nat
<1>1. edits \in Nat /\ edits <= MaxEdits /\ MaxEdits \in Nat
  BY PanelAssumption DEF StoreInv
<1>2. landed \in 0 .. edits
  BY <1>1, SomeOf DEF StoreInv
<1> QED  BY <1>1, <1>2

\* A late change is committed, and is not pending or late any more.
LEMMA NumberedLanded ==
    ASSUME NEW q, NEW n \in Nat, NEW lt, NEW c \in lt, NEW L \in SUBSET (1 .. n),
           Numbered(q, lt, n, L)
    PROVE  /\ L \cup {c.id} \in SUBSET (1 .. n)
           /\ Cardinality(L \cup {c.id}) = Cardinality(L) + 1
           /\ Numbered(q, lt \ {c}, n, L \cup {c.id})
<1>1. c.id \in (1 .. n) \ L
  BY DEF Numbered
<1>2. Cardinality(L \cup {c.id}) = Cardinality(L) + 1
  BY <1>1, SomeOf, FS_AddElement
<1> QED  BY <1>1, <1>2 DEF Numbered

LEMMA LateFields ==
    ASSUME NEW n \in Nat, NEW c \in LateUpTo(n)
    PROVE  /\ c.op \in EditOps \ {"reset"} /\ c.user \in Users /\ c.id \in 1 .. n
           /\ c.acked \in BOOLEAN /\ Fits(c)
  BY DEF LateUpTo

-----------------------------------------------------------------------------
(* The administrator's steps.                                              *)

\* No page's data has changed, nor whether it counts as up to date.
SameData ==
    /\ UNCHANGED backend
    /\ \A p \in Offsets : entry'[p].data = entry[p].data /\ entry'[p].valid = entry[p].valid

\* The page on screen is up to date or being fetched.
Current == \/ entry[offset].data # None /\ entry[offset].valid
           \/ entry[offset].fetch # None

LEMMA RowsSame ==
    ASSUME UNCHANGED <<entry, offset, search>>
    PROVE  Rows' = Rows
  BY DEF Rows, Shown

LEMMA RowShown ==
    ASSUME TypeInv, NEW u \in Rows
    PROVE  /\ u \in Users /\ entry[offset].data # None
           /\ entry[offset].data.users[u] \in Row
<1>1. edits \in Nat /\ offset \in Offsets /\ entry \in [Offsets -> EntryUpTo(edits)]
  BY PanelAssumption DEF TypeInv, StoreInv, ScreenInv, CacheOK
<1>2. entry[offset].data # None /\ u \in DOMAIN entry[offset].data.users
  BY DEF Rows, Shown
<1>3. entry[offset].data \in DataUpTo(edits)
  BY <1>1, EntryFields
<1>4. entry[offset].data \in PageUpTo(edits)
  BY <1>2, <1>3 DEF DataUpTo
<1>5. entry[offset].data.users \in Tables
  BY <1>1, <1>4, PageFields
<1> QED  BY <1>2, <1>5, TableFields

\* What is said of the changes does not depend on who waits for which fetch.
LEMMA StoreOn ==
    ASSUME StoreInv, UNCHANGED <<backend, edits>>, NEW T, queue \in Seq(T), queue' \in Seq(T),
           NEW k \in {0, 1}, Continues(queue, queue', k)
    PROVE  StoreInv'
<1>1. PICK L \in SUBSET (1 .. edits) :
         Cardinality(L) = landed /\ Numbered(queue, late, edits, L)
  BY DEF StoreInv
<1>2. Numbered(queue', late, edits, L)
  BY <1>1, NumberedOn
<1>3. L \in SUBSET (1 .. edits') /\ Cardinality(L) = landed' /\ Numbered(queue', late', edits', L)
  BY <1>1, <1>2 DEF backend
<1> QED  BY <1>3 DEF StoreInv, backend

\* No change is submitted or answered; the calls answered are fetches or resets.
LEMMA QuietBefore ==
    ASSUME NEW T, queue \in Seq(T), NEW k \in {0, 1}, Continues(queue, queue', k), Quiet',
           k = 1 => queue[1].op \in {"fetch", "reset"}
    PROVE  Quiet
<1> SUFFICES ASSUME NEW i \in DOMAIN queue PROVE queue[i].op \in {"fetch", "reset"}
  BY DEF Quiet
<1>1. CASE i > k
  <2>1. i - k \in DOMAIN queue' /\ queue'[i - k].op = queue[i].op
    BY <1>1 DEF Continues
  <2> QED  BY <2>1 DEF Quiet
<1>2. CASE ~(i > k)
  <2>1. k = 1 /\ i = 1
    BY <1>2
  <2> QED  BY <2>1
<1> QED  BY <1>1, <1>2

LEMMA GoToOK ==
    ASSUME TypeInv, NEW o \in Offsets, GoTo(o)
    PROVE  TypeInv' /\ SameData /\ Current' /\ (Quiet' => Quiet)
<1>0. /\ CacheOK(entry, queue, edits) /\ edits \in 0 .. MaxEdits /\ edits \in Nat
      /\ queue \in Seq(CallUpTo(edits)) /\ entry \in [Offsets -> EntryUpTo(edits)]
      /\ search \in Searches
  BY PanelAssumption DEF TypeInv, StoreInv, ScreenInv, CacheOK
<1>1. UNCHANGED <<backend, edits>>
  BY DEF GoTo
<1>2. \E e, q : /\ Render(<<e, q>>, o, search, None, secret)
                /\ CacheOK(e, q, edits) /\ Continues(queue, q, 0)
                /\ \A p \in Offsets : e[p].data = entry[p].data /\ e[p].valid = entry[p].valid
                /\ e[o].fetch # None \/ (e[o].data # None /\ e[o].valid)
  <2>1. CASE entry[o].fetch = None /\ Render(Fetch(entry, queue, o), o, search, None, secret)
    <3>1. PICK e, q :
             /\ Fetch(entry, queue, o) = <<e, q>>
             /\ CacheOK(e, q, edits) /\ Continues(queue, q, 0) /\ e[o].fetch # None
             /\ \A p \in Offsets : e[p].data = entry[p].data /\ e[p].valid = entry[p].valid
      BY <1>0, FetchOK
    <3> QED  BY <2>1, <3>1
  <2>2. CASE /\ entry[o].fetch # None \/ (entry[o].data # None /\ entry[o].valid)
             /\ Render(<<entry, queue>>, o, search, None, secret)
    BY <1>0, <2>2, ContinuesItself
  <2> QED  BY <2>1, <2>2 DEF GoTo
<1>3. PICK e, q : /\ Render(<<e, q>>, o, search, None, secret)
                  /\ CacheOK(e, q, edits) /\ Continues(queue, q, 0)
                  /\ \A p \in Offsets : e[p].data = entry[p].data /\ e[p].valid = entry[p].valid
                  /\ e[o].fetch # None \/ (e[o].data # None /\ e[o].valid)
  BY <1>2
<1>4. /\ entry' = e /\ offset' = o /\ CacheOK(entry', queue', edits) /\ Continues(q, queue', 0)
      /\ ScreenInv'
  BY <1>0, <1>3, RenderOK
<1>5. q \in Seq(CallUpTo(edits)) /\ queue' \in Seq(CallUpTo(edits))
  BY <1>3, <1>4 DEF CacheOK
<1>6. Continues(queue, queue', 0)
  BY <1>0, <1>3, <1>4, <1>5, ContinuesOn
<1>7. StoreInv'
  BY <1>0, <1>1, <1>5, <1>6, StoreOn DEF TypeInv
<1>8. CacheOK(entry', queue', edits')
  BY <1>1, <1>4
<1>9. Quiet' => Quiet
  BY <1>0, <1>6, QuietBefore
<1>10. SameData /\ Current'
  BY <1>1, <1>3, <1>4 DEF SameData, Current
<1> QED  BY <1>4, <1>7, <1>8, <1>9, <1>10 DEF TypeInv

LEMMA FilterOK ==
    ASSUME TypeInv, NEW s \in Searches, Filter(s)
    PROVE  TypeInv' /\ SameData /\ UNCHANGED <<entry, offset>> /\ (Quiet' => Quiet)
<1>0. /\ CacheOK(entry, queue, edits) /\ edits \in Nat /\ offset \in Offsets
      /\ queue \in Seq(CallUpTo(edits))
  BY PanelAssumption DEF TypeInv, StoreInv, ScreenInv, CacheOK
<1>1. UNCHANGED <<backend, edits>> /\ Render(<<entry, queue>>, offset, s, None, secret)
  BY DEF Filter
<1>2. /\ entry' = entry /\ offset' = offset /\ CacheOK(entry', queue', edits)
      /\ Continues(queue, queue', 0) /\ ScreenInv'
  BY <1>0, <1>1, RenderOK
<1>3. queue' \in Seq(CallUpTo(edits))
  BY <1>2 DEF CacheOK
<1>4. StoreInv'
  BY <1>0, <1>1, <1>2, <1>3, StoreOn DEF TypeInv
<1>5. CacheOK(entry', queue', edits')
  BY <1>1, <1>2
<1>6. Quiet' => Quiet
  BY <1>0, <1>2, QuietBefore
<1>7. SameData
  BY <1>1, <1>2 DEF SameData
<1> QED  BY <1>2, <1>4, <1>5, <1>6, <1>7 DEF TypeInv

LEMMA OpenOK ==
    ASSUME TypeInv, NEW u \in Rows, NEW op \in EditOps, Open(u, op)
    PROVE  TypeInv' /\ UNCHANGED <<backend, entry, offset, queue>>
<1>1. UNCHANGED <<db, late, landed, offset, search, secret, entry, queue, edits>>
  BY DEF Open, backend
<1>2. dialog'.user = u /\ dialog'.op = op
  BY DEF Open
<1>3. Rows' = Rows
  BY <1>1, RowsSame
<1> QED  BY <1>1, <1>2, <1>3 DEF TypeInv, StoreInv, ScreenInv, backend

LEMMA CloseOK ==
    ASSUME TypeInv, Close
    PROVE  TypeInv' /\ UNCHANGED <<backend, entry, offset, queue>>
<1>1. UNCHANGED <<db, late, landed, offset, search, entry, queue, edits>>
  BY DEF Close, backend
<1>2. dialog' = None /\ secret' \subseteq secret
  BY DEF Close
<1>3. Rows' = Rows
  BY <1>1, RowsSame
<1> QED  BY <1>1, <1>2, <1>3 DEF TypeInv, StoreInv, ScreenInv, backend

LEMMA CollectOK ==
    ASSUME TypeInv, NEW o \in Offsets, Collect(o)
    PROVE  /\ TypeInv' /\ UNCHANGED <<backend, offset, queue>>
           /\ entry'[offset] = entry[offset]
           /\ \A p \in Offsets : entry'[p] = entry[p] \/ entry'[p].data = None
<1>1. UNCHANGED <<db, late, landed, offset, search, dialog, secret, queue, edits>>
  BY DEF Collect, backend, screen
<1>2. /\ o # offset /\ entry[o].fetch = None /\ entry' = [entry EXCEPT ![o] = Blank]
      /\ offset \in Offsets /\ entry \in [Offsets -> EntryUpTo(edits)]
  BY DEF Collect, TypeInv, ScreenInv, CacheOK
<1>3. Blank \in EntryUpTo(edits) /\ Blank.fetch = None /\ Blank.data = None
  BY BlankType
<1>4. /\ \A p \in Offsets : entry'[p] = IF p = o THEN Blank ELSE entry[p]
      /\ entry' \in [Offsets -> EntryUpTo(edits)]
  BY <1>2, <1>3
<1>5. Rows' = Rows
  BY <1>1, <1>2, <1>4 DEF Rows, Shown
<1>6. CacheOK(entry', queue', edits')
  BY <1>1, <1>2, <1>3, <1>4 DEF TypeInv, CacheOK, OneFetch
<1>7. StoreInv' /\ ScreenInv'
  BY <1>1, <1>5 DEF TypeInv, StoreInv, ScreenInv
<1>8. UNCHANGED <<backend, offset, queue>>
  BY <1>1 DEF backend
<1> QED  BY <1>2, <1>3, <1>4, <1>6, <1>7, <1>8 DEF TypeInv

LEMMA OnMutateOK ==
    ASSUME TypeInv, edits + 1 \in 0 .. MaxEdits,
           NEW op \in EditOps \ {"reset"}, NEW u \in Users, NEW arg,
           NEW c, c = [op |-> op, user |-> u, id |-> edits + 1, arg |-> arg, before |-> None,
                       heard |-> TRUE],
           arg \in Roles \cup BOOLEAN \cup {None}, Fits(c), OnMutate(c)
    PROVE  /\ CacheOK(entry', queue', edits + 1) /\ ScreenInv'
           /\ \E q, d : /\ q \in Seq(CallUpTo(edits + 1)) /\ d \in EditUpTo(edits + 1)
                        /\ Continues(queue, q, 0) /\ d.id = edits + 1 /\ d.op = op
                        /\ Continues(Append(q, d), queue', 0)
<1>0. /\ CacheOK(entry, queue, edits) /\ edits \in 0 .. MaxEdits /\ edits \in Nat
      /\ edits + 1 \in Nat /\ queue \in Seq(CallUpTo(edits))
      /\ offset \in Offsets /\ search \in Searches /\ (dialog = None \/ dialog.op \in EditOps)
  BY PanelAssumption DEF TypeInv, StoreInv, ScreenInv, CacheOK
<1>1. PICK n : n = edits + 1
  OBVIOUS
<1> DEFINE e == Cancelled(entry)
           q == Unheard(queue, Offsets)
           before == [o \in Offsets |-> e[o].data]
           after == [o \in Offsets |-> Patch(before[o], c)]
           d == [c EXCEPT !.before = before]
<1>2. CacheOK(e, q, edits) /\ Continues(queue, q, 0)
  BY <1>0, CancelledOK
<1>3. Render(<<SetData(e, after), Append(q, d)>>, offset, search, dialog, secret)
  BY DEF OnMutate
<1>4. d = [op |-> op, user |-> u, id |-> n, arg |-> arg, before |-> before, heard |-> TRUE]
  <2>1. PICK b : b = before
    OBVIOUS
  <2>2. d = [c EXCEPT !.before = b]
    BY <2>1
  <2> HIDE DEF d
  <2> QED  BY <1>1, <2>1, <2>2
<1> HIDE DEF e, q, d
<1>5. \A o \in Offsets : before[o] \in DataUpTo(edits)
  BY <1>0, <1>2, EntryFields DEF CacheOK
<1>6. \A o \in Offsets : before[o] \in DataUpTo(n) /\ after[o] \in DataUpTo(n)
  <2>1. c.op \in EditOps \ {"reset"}
    OBVIOUS
  <2> QED  BY <1>0, <1>1, <1>5, <2>1, MoreEdits, PatchType
<1>7. before \in [Offsets -> DataUpTo(n)] /\ after \in [Offsets -> DataUpTo(n)]
  BY <1>6
<1> HIDE DEF before, after
<1>8. d \in EditUpTo(n) /\ d.id = n /\ d.op = op
  <2>1. n \in 1 .. n /\ Fits(d)
    BY <1>0, <1>1, <1>4 DEF Fits
  <2> QED  BY <1>4, <1>7, <2>1 DEF EditUpTo
<1>9. CacheOK(SetData(e, after), q, n)
  BY <1>0, <1>1, <1>2, <1>7, MoreCache, SetDataOK
<1>10. CacheOK(SetData(e, after), Append(q, d), n)
  BY <1>0, <1>1, <1>8, <1>9, EditSent
<1>11. CacheOK(entry', queue', n) /\ Continues(Append(q, d), queue', 0) /\ ScreenInv'
  BY <1>0, <1>1, <1>3, <1>10, RenderOK
<1>12. q \in Seq(CallUpTo(n))
  BY <1>9 DEF CacheOK
<1> QED  BY <1>1, <1>2, <1>8, <1>11, <1>12

LEMMA ArgumentsFit ==
    ASSUME NEW op \in EditOps, NEW row \in Row, NEW arg \in Arguments(op, row),
           NEW c, c.op = op, c.arg = arg
    PROVE  arg \in Roles \cup BOOLEAN \cup {None} /\ Fits(c)
<1>1. CASE op = "role"
  BY <1>1 DEF Arguments, Fits
<1>2. CASE op = "status"
  BY <1>2 DEF Arguments, Fits
<1>3. CASE op \in {"delete", "reset"}
  BY <1>3 DEF Arguments, Fits
<1> QED  BY <1>1, <1>2, <1>3 DEF EditOps

LEMMA SubmitOK ==
    ASSUME TypeInv, Submit
    PROVE  /\ TypeInv' /\ UNCHANGED backend
           /\ ~Quiet' \/ (UNCHANGED <<entry, offset>> /\ (Quiet' => Quiet))
<1>0. /\ CacheOK(entry, queue, edits) /\ edits \in 0 .. MaxEdits /\ edits \in Nat
      /\ queue \in Seq(CallUpTo(edits))
  BY PanelAssumption DEF TypeInv, StoreInv, CacheOK
<1>1. /\ dialog # None /\ edits < MaxEdits /\ edits' = edits + 1 /\ UNCHANGED backend
      /\ dialog.user \in Rows /\ dialog.op \in EditOps
  BY DEF Submit, TypeInv, ScreenInv
<1>2. dialog.user \in Users /\ entry[offset].data.users[dialog.user] \in Row
  BY <1>1, RowShown
<1>3. PICK op \in EditOps, u \in Users : op = dialog.op /\ u = dialog.user
  BY <1>1, <1>2
<1>4. PICK arg \in Arguments(op, entry[offset].data.users[u]) :
         LET call == [op |-> op, user |-> u, id |-> edits + 1,
                      arg |-> arg, before |-> None, heard |-> TRUE]
         IN IF op # "reset" THEN OnMutate(call)
            ELSE /\ u \notin secret
                 /\ queue' = Append(queue, call)
                 /\ UNCHANGED <<screen, entry>>
  BY <1>3 DEF Submit
<1>5. PICK c : c = [op |-> op, user |-> u, id |-> edits + 1, arg |-> arg, before |-> None,
                    heard |-> TRUE]
  OBVIOUS
<1>6. PICK n : n = edits + 1
  OBVIOUS
<1>7. arg \in Roles \cup BOOLEAN \cup {None} /\ Fits(c)
  BY <1>2, <1>3, <1>5, ArgumentsFit
<1>8. n \in 0 .. MaxEdits /\ n \in Nat
  BY <1>0, <1>1, <1>6, PanelAssumption
<1>9. /\ CacheOK(entry', queue', n) /\ ScreenInv'
      /\ \E q, d : /\ q \in Seq(CallUpTo(n)) /\ d \in EditUpTo(n)
                   /\ Continues(queue, q, 0) /\ d.id = n
                   /\ Continues(Append(q, d), queue', 0)
      /\ ~Quiet' \/ (UNCHANGED <<entry, offset>> /\ (Quiet' => Quiet))
  <2>1. CASE op # "reset"
    <3>1. OnMutate(c)
      BY <1>4, <1>5, <2>1
    <3>2. /\ CacheOK(entry', queue', n) /\ ScreenInv'
          /\ \E q, d : /\ q \in Seq(CallUpTo(n)) /\ d \in EditUpTo(n)
                       /\ Continues(queue, q, 0) /\ d.id = n /\ d.op = op
                       /\ Continues(Append(q, d), queue', 0)
      BY <1>5, <1>6, <1>7, <1>8, <2>1, <3>1, OnMutateOK
    <3>3. ~Quiet'
      <4>1. PICK q, d : /\ q \in Seq(CallUpTo(n)) /\ d \in EditUpTo(n) /\ d.op = op
                        /\ Continues(Append(q, d), queue', 0)
        BY <3>2
      <4>2. /\ Len(q) + 1 \in DOMAIN Append(q, d) /\ Append(q, d)[Len(q) + 1] = d
            /\ Len(q) + 1 > 0 /\ Len(q) + 1 - 0 = Len(q) + 1
        BY <4>1, QueueAppend DEF CallUpTo
      <4>3. Len(q) + 1 \in DOMAIN queue' /\ queue'[Len(q) + 1].op = op
        BY <4>1, <4>2 DEF Continues
      <4> QED  BY <2>1, <4>3 DEF Quiet, EditOps
    <3> QED  BY <3>2, <3>3
  <2>2. CASE op = "reset"
    <3>1. queue' = Append(queue, c) /\ UNCHANGED <<offset, search, dialog, secret, entry>>
      BY <1>4, <1>5, <2>2 DEF screen
    <3>2. c \in EditUpTo(n) /\ c.id = n /\ c.op = "reset"
      <4>1. n \in 1 .. n
        BY <1>0, <1>6
      <4> QED  BY <1>5, <1>6, <1>7, <2>2, <4>1 DEF EditUpTo
    <3>3. CacheOK(entry, queue, n)
      BY <1>0, <1>6, MoreCache
    <3>4. CacheOK(entry', queue', n)
      BY <1>8, <3>1, <3>2, <3>3, EditSent
    <3>5. Rows' = Rows
      BY <3>1, RowsSame
    <3>6. ScreenInv'
      BY <3>1, <3>5 DEF TypeInv, ScreenInv
    <3>7. queue \in Seq(CallUpTo(n)) /\ queue' \in Seq(CallUpTo(n))
      BY <3>3, <3>4 DEF CacheOK
    <3>8. Continues(queue, queue, 0) /\ Continues(Append(queue, c), queue', 0)
      BY <3>1, <3>7, ContinuesItself
    <3>9. Quiet' => Quiet
      <4>1. \A i \in DOMAIN queue : i \in DOMAIN queue' /\ queue'[i] = queue[i]
        BY <3>1, <3>2, <3>7, QueueAppend DEF CallUpTo
      <4> QED  BY <4>1 DEF Quiet
    <3> QED  BY <3>1, <3>2, <3>4, <3>6, <3>7, <3>8, <3>9
  <2> QED  BY <2>1, <2>2
<1>10. StoreInv'
  <2>1. PICK L \in SUBSET (1 .. edits) :
           Cardinality(L) = landed /\ Numbered(queue, late, edits, L)
    BY DEF TypeInv, StoreInv
  <2>2. PICK q, d : /\ q \in Seq(CallUpTo(n)) /\ d \in EditUpTo(n)
                    /\ Continues(queue, q, 0) /\ d.id = n
                    /\ Continues(Append(q, d), queue', 0)
    BY <1>9
  <2>3. d \in CallUpTo(n) /\ queue \in Seq(CallUpTo(n)) /\ queue' \in Seq(CallUpTo(n))
    <3>1. CacheOK(entry, queue, n)
      BY <1>0, <1>6, MoreCache
    <3> QED  BY <1>9, <2>2, <3>1 DEF CallUpTo, CacheOK
  <2>4. Numbered(Append(q, d), late, n, L)
    BY <1>0, <1>6, <2>1, <2>2, <2>3, NumberedNext
  <2>5. Append(q, d) \in Seq(CallUpTo(n))
    BY <2>2, <2>3, QueueAppend
  <2>6. Numbered(queue', late, n, L)
    BY <2>2, <2>3, <2>4, <2>5, NumberedOn
  <2>7. L \in SUBSET (1 .. n) /\ late \subseteq LateUpTo(n)
    BY <1>0, <1>6, <2>1, MoreEdits DEF TypeInv, StoreInv
  <2>8. UNCHANGED <<db, late, landed>> /\ edits' = n
    BY <1>1, <1>6 DEF backend
  <2>9. L \in SUBSET (1 .. edits') /\ Cardinality(L) = landed' /\ Numbered(queue', late', edits', L)
    BY <2>1, <2>6, <2>7, <2>8
  <2> QED  BY <1>8, <2>7, <2>8, <2>9 DEF TypeInv, StoreInv
<1>11. CacheOK(entry', queue', edits')
  BY <1>1, <1>6, <1>9
<1> QED  BY <1>1, <1>9, <1>10, <1>11 DEF TypeInv

-----------------------------------------------------------------------------
(* The answers.                                                            *)

\* No page counts as up to date, and the one on screen is being fetched.
Renewed == /\ entry[offset].fetch # None
           /\ \A p \in Offsets : ~(entry[p].data # None /\ entry[p].valid)

LEMMA HeadServed ==
    ASSUME TypeInv, queue # <<>>, NEW c, c = Head(queue)
    PROVE  /\ c \in CallUpTo(edits) /\ queue \in Seq(CallUpTo(edits)) /\ queue[1] = c
           /\ edits \in Nat /\ edits \in 0 .. MaxEdits /\ landed \in 0 .. MaxEdits
           /\ offset \in Offsets /\ search \in Searches
           /\ dialog = None \/ dialog.op \in EditOps
           /\ entry \in [Offsets -> EntryUpTo(edits)]
           /\ Tail(queue) \in Seq(CallUpTo(edits)) /\ Continues(queue, Tail(queue), 1)
           /\ c.op # "fetch" \/ ~c.heard => CacheOK(entry, Tail(queue), edits)
<1>1. /\ edits \in Nat /\ edits \in 0 .. MaxEdits /\ CacheOK(entry, queue, edits)
      /\ landed \in 0 .. MaxEdits
  BY LandedBound DEF TypeInv, StoreInv
<1>2. queue \in Seq(CallUpTo(edits)) /\ entry \in [Offsets -> EntryUpTo(edits)]
  BY <1>1 DEF CacheOK
<1>3. /\ c \in CallUpTo(edits) /\ queue[1] = c
      /\ Tail(queue) \in Seq(CallUpTo(edits)) /\ Continues(queue, Tail(queue), 1)
  BY <1>2, QueueTail
<1>4. c.op # "fetch" \/ ~c.heard => CacheOK(entry, Tail(queue), edits)
  <2>1. c.op # "fetch" \/ ~c.heard => \A o \in Offsets : ~Fetches(c, o)
    BY DEF Fetches
  <2> QED  BY <1>1, <2>1, UnheardServed
<1> QED  BY <1>1, <1>2, <1>3, <1>4 DEF TypeInv, ScreenInv

\* A change was answered: what the backend has done, and what is left of it.
LEMMA StoreAnswered ==
    ASSUME TypeInv, queue # <<>>, NEW c, c = Head(queue), c.op # "fetch",
           \/ UNCHANGED <<db, late>>
           \/ Do(c)
           \/ \E acked \in BOOLEAN : c.op # "reset" /\ Defer(c, acked) /\ UNCHANGED db,
           UNCHANGED <<landed, edits>>,
           queue' \in Seq(CallUpTo(edits)), Continues(queue, queue', 1)
    PROVE  StoreInv'
<1>1. /\ c \in EditUpTo(edits) /\ edits \in Nat /\ queue \in Seq(CallUpTo(edits))
      /\ queue[1] = c
  BY HeadServed, CallKinds
<1>2. c.op \in EditOps /\ c.user \in Users /\ c.id \in 1 .. edits /\ Fits(c)
      /\ c.arg \in Roles \cup BOOLEAN \cup {None}
  BY <1>1, EditFields
<1>3. PICK L \in SUBSET (1 .. edits) :
         Cardinality(L) = landed /\ Numbered(queue, late, edits, L)
  BY DEF TypeInv, StoreInv
<1>4. /\ db' \in Tables /\ late' \subseteq LateUpTo(edits)
      /\ Numbered(queue', late', edits, L)
  <2>0. db \in Tables /\ late \subseteq LateUpTo(edits)
    BY DEF TypeInv, StoreInv
  <2>1. CASE UNCHANGED <<db, late>>
    BY <1>1, <1>3, <2>0, <2>1, NumberedOn
  <2>2. CASE Do(c)
    <3>1. db' = Carried(c) /\ late' = late
      BY <2>2 DEF Do
    <3>2. Carried(c) \in Tables
      BY <1>2, <2>0, CarriedType
    <3> QED  BY <1>1, <1>3, <2>0, <3>1, <3>2, NumberedOn
  <2>3. CASE \E acked \in BOOLEAN : c.op # "reset" /\ Defer(c, acked) /\ UNCHANGED db
    <3>1. PICK acked \in BOOLEAN : c.op # "reset" /\ Defer(c, acked) /\ UNCHANGED db
      BY <2>3
    <3>2. PICK d : d = [op |-> c.op, user |-> c.user, arg |-> c.arg, id |-> c.id,
                        acked |-> acked]
      OBVIOUS
    <3>3. late' = late \cup {d} /\ db' = db
      BY <3>1, <3>2 DEF Defer
    <3>4. d \in LateUpTo(edits) /\ d.id = c.id
      BY <1>2, <3>1, <3>2 DEF LateUpTo, Fits
    <3>5. Numbered(queue', late \cup {d}, edits, L)
      BY <1>1, <1>3, <3>4, NumberedLate
    <3> QED  BY <2>0, <3>3, <3>4, <3>5
  <2> QED  BY <2>1, <2>2, <2>3
<1>5. L \in SUBSET (1 .. edits') /\ Cardinality(L) = landed' /\ Numbered(queue', late', edits', L)
  BY <1>3, <1>4
<1> QED  BY <1>4, <1>5 DEF TypeInv, StoreInv

\* onSettled of any change, and onSuccess.
LEMMA SettledOK ==
    ASSUME TypeInv, queue # <<>>, NEW c, c = Head(queue), c.op # "fetch",
           NEW e, CacheOK(e, Tail(queue), edits), NEW d, d = None \/ d.op \in EditOps, NEW held,
           Render(Invalidate(e, Tail(queue)), offset, search, d, held)
    PROVE  /\ CacheOK(entry', queue', edits) /\ ScreenInv' /\ Renewed'
           /\ queue' \in Seq(CallUpTo(edits)) /\ Continues(queue, queue', 1)
<1>0. /\ edits \in Nat /\ edits \in 0 .. MaxEdits /\ offset \in Offsets /\ search \in Searches
      /\ queue \in Seq(CallUpTo(edits)) /\ Tail(queue) \in Seq(CallUpTo(edits))
      /\ Continues(queue, Tail(queue), 1)
  BY HeadServed
<1>1. PICK e2, q2 :
         /\ Invalidate(e, Tail(queue)) = <<e2, q2>>
         /\ CacheOK(e2, q2, edits) /\ Continues(Tail(queue), q2, 0) /\ e2[offset].fetch # None
         /\ \A p \in Offsets : ~(e2[p].data # None /\ e2[p].valid)
  BY <1>0, InvalidateOK
<1>2. Render(<<e2, q2>>, offset, search, d, held)
  BY <1>1
<1>3. /\ entry' = e2 /\ offset' = offset /\ CacheOK(entry', queue', edits)
      /\ Continues(q2, queue', 0) /\ ScreenInv'
  BY <1>0, <1>1, <1>2, RenderOK
<1>4. q2 \in Seq(CallUpTo(edits)) /\ queue' \in Seq(CallUpTo(edits))
  BY <1>1, <1>3 DEF CacheOK
<1>5. Continues(queue, q2, 1)
  BY <1>0, <1>1, <1>4, ContinuesOn
<1>6. Continues(queue, queue', 1)
  BY <1>0, <1>3, <1>4, <1>5, ContinuesOn
<1>7. Renewed'
  BY <1>1, <1>3 DEF Renewed
<1> QED  BY <1>3, <1>4, <1>6, <1>7

LEMMA AcceptedOK ==
    ASSUME TypeInv, queue # <<>>, NEW c, c = Head(queue), c.op # "fetch", Accepted(c),
           UNCHANGED <<landed, edits>>
    PROVE  TypeInv' /\ Renewed'
<1>0. /\ CacheOK(entry, Tail(queue), edits) /\ (dialog = None \/ dialog.op \in EditOps)
  BY HeadServed
<1>1. PICK d, held : /\ d = None \/ d.op \in EditOps
                     /\ Render(Invalidate(entry, Tail(queue)), offset, search, d, held)
  <2>1. PICK d, held :
           /\ d \in {None, dialog}
           /\ Render(Invalidate(entry, Tail(queue)), offset, search, d, held)
    BY DEF Accepted, Succeed
  <2> QED  BY <1>0, <2>1
<1>2. /\ CacheOK(entry', queue', edits) /\ ScreenInv' /\ Renewed'
      /\ queue' \in Seq(CallUpTo(edits)) /\ Continues(queue, queue', 1)
  BY <1>0, <1>1, SettledOK
<1>3. \/ Do(c)
      \/ \E acked \in BOOLEAN : c.op # "reset" /\ Defer(c, acked) /\ UNCHANGED db
  BY DEF Accepted
<1>4. StoreInv'
  BY <1>2, <1>3, StoreAnswered
<1>5. CacheOK(entry', queue', edits')
  BY <1>2
<1> QED  BY <1>2, <1>4, <1>5 DEF TypeInv

LEMMA RefusedOK ==
    ASSUME TypeInv, queue # <<>>, NEW c, c = Head(queue), c.op # "fetch", Refused(c),
           UNCHANGED <<landed, edits>>
    PROVE  /\ TypeInv'
           /\ Renewed' \/ (UNCHANGED <<db, landed, entry, offset>> /\ (Quiet' => Quiet))
<1>0. /\ CacheOK(entry, Tail(queue), edits) /\ (dialog = None \/ dialog.op \in EditOps)
      /\ c \in EditUpTo(edits) /\ edits \in Nat /\ edits \in 0 .. MaxEdits
      /\ offset \in Offsets /\ search \in Searches
      /\ queue \in Seq(CallUpTo(edits)) /\ Tail(queue) \in Seq(CallUpTo(edits))
      /\ Continues(queue, Tail(queue), 1) /\ queue[1] = c
  BY HeadServed, CallKinds
<1>1. /\ CacheOK(entry', queue', edits) /\ ScreenInv'
      /\ queue' \in Seq(CallUpTo(edits)) /\ Continues(queue, queue', 1)
      /\ Renewed' \/ (c.op = "reset" /\ UNCHANGED <<entry, offset>>)
  <2>1. CASE c.op = "reset"
    <3>1. Render(<<entry, Tail(queue)>>, offset, search, dialog, secret)
      BY <2>1 DEF Refused, Restore
    <3>2. /\ entry' = entry /\ offset' = offset /\ CacheOK(entry', queue', edits)
          /\ Continues(Tail(queue), queue', 0) /\ ScreenInv'
      BY <1>0, <3>1, RenderOK
    <3>3. queue' \in Seq(CallUpTo(edits))
      BY <3>2 DEF CacheOK
    <3>4. Continues(queue, queue', 1)
      BY <1>0, <3>2, <3>3, ContinuesOn
    <3> QED  BY <2>1, <3>2, <3>3, <3>4
  <2>2. CASE c.op # "reset"
    <3>1. Render(Invalidate(SetData(entry, c.before), Tail(queue)), offset, search, dialog, secret)
      BY <2>2 DEF Refused, Restore
    <3>2. c.before \in [Offsets -> DataUpTo(edits)]
      BY <1>0, <2>2, EditFields
    <3>3. CacheOK(SetData(entry, c.before), Tail(queue), edits)
      BY <1>0, <3>2, SetDataOK
    <3> QED  BY <1>0, <3>1, <3>3, SettledOK
  <2> QED  BY <2>1, <2>2
<1>2. \/ UNCHANGED <<db, late>>
      \/ Do(c)
      \/ \E acked \in BOOLEAN : c.op # "reset" /\ Defer(c, acked) /\ UNCHANGED db
  BY DEF Refused
<1>3. StoreInv'
  BY <1>1, <1>2, StoreAnswered
<1>4. c.op = "reset" => UNCHANGED db
  BY <1>2 DEF Do, Carried
<1>5. c.op = "reset" /\ Quiet' => Quiet
  BY <1>0, <1>1, QuietBefore
<1>6. CacheOK(entry', queue', edits')
  BY <1>1
<1> QED  BY <1>1, <1>3, <1>4, <1>5, <1>6 DEF TypeInv

\* What becomes of a fetch whose answer is waited for.
LEMMA FetchHead ==
    ASSUME TypeInv, queue # <<>>, NEW c, c = Head(queue), c.op = "fetch"
    PROVE  /\ c \in FetchCall /\ c.at \in Offsets /\ CacheOK(entry, queue, edits)
           /\ c.heard => Fetches(c, c.at)
<1>1. c \in FetchCall
  BY HeadServed, CallKinds
<1> QED  BY <1>1, FetchFields DEF Fetches, TypeInv

LEMMA ListedOK ==
    ASSUME TypeInv, queue # <<>>, NEW c, c = Head(queue), c.op = "fetch", c.heard, Listed(c),
           UNCHANGED <<landed, edits>>
    PROVE  /\ TypeInv' /\ UNCHANGED <<backend, offset>> /\ (Quiet' => Quiet)
           /\ \A p \in Offsets : entry'[p] = entry[p] \/ entry'[p].data = PageAt(p)
           /\ entry'[offset] = entry[offset] \/ Current'
<1>0. /\ edits \in Nat /\ edits \in 0 .. MaxEdits /\ landed \in 0 .. MaxEdits
      /\ offset \in Offsets /\ search \in Searches /\ (dialog = None \/ dialog.op \in EditOps)
      /\ queue \in Seq(CallUpTo(edits)) /\ Tail(queue) \in Seq(CallUpTo(edits))
      /\ Continues(queue, Tail(queue), 1) /\ queue[1] = c
      /\ entry \in [Offsets -> EntryUpTo(edits)]
  BY HeadServed
<1>1. PICK o \in Offsets : o = c.at /\ Fetches(c, o)
  BY FetchHead
<1>2. PICK page : page = PageAt(o)
  OBVIOUS
<1>3. page \in PageUpTo(edits)
  BY <1>0, <1>2, PageAtType DEF TypeInv, StoreInv
<1> DEFINE fetched == [Blank EXCEPT !.data = page]
           e == [entry EXCEPT ![o] = fetched]
<1>4. Render(<<e, Tail(queue)>>, offset, search, dialog, secret) /\ UNCHANGED <<db, late>>
  BY <1>1, <1>2 DEF Listed
<1>5. /\ fetched \in EntryUpTo(edits) /\ fetched.fetch = None
      /\ fetched.data = page /\ fetched.valid
  <2>1. PICK b \in EntryUpTo(edits) : b = Blank /\ b.fetch = None /\ b.valid
    BY BlankType
  <2>2. page \in DataUpTo(edits)
    BY <1>3 DEF DataUpTo
  <2>3. fetched = [b EXCEPT !.data = page]
    BY <2>1
  <2> HIDE DEF fetched
  <2> QED  BY <2>1, <2>2, <2>3 DEF EntryUpTo
<1>6. /\ e \in [Offsets -> EntryUpTo(edits)] /\ e[o] = fetched
      /\ \A p \in Offsets \ {o} : e[p] = entry[p]
  BY <1>0, <1>5
<1> HIDE DEF fetched, e
<1>8. CacheOK(e, Tail(queue), edits)
  BY <1>0, <1>1, <1>5, <1>6, FetchHead, FetchServed
<1>9. /\ entry' = e /\ offset' = offset /\ CacheOK(entry', queue', edits)
      /\ Continues(Tail(queue), queue', 0) /\ ScreenInv'
  BY <1>0, <1>4, <1>8, RenderOK
<1>10. queue' \in Seq(CallUpTo(edits))
  BY <1>9 DEF CacheOK
<1>11. Continues(queue, queue', 1)
  BY <1>0, <1>9, <1>10, ContinuesOn
<1>12. UNCHANGED <<backend, edits>>
  BY <1>4 DEF backend
<1>13. StoreInv'
  BY <1>0, <1>10, <1>11, <1>12, StoreOn DEF TypeInv
<1>14. Quiet' => Quiet
  BY <1>0, <1>11, QuietBefore
<1>15. \A p \in Offsets : entry'[p] = entry[p] \/ entry'[p].data = PageAt(p)
  BY <1>2, <1>6, <1>5, <1>9
<1>16. entry'[offset] = entry[offset] \/ Current'
  <2>1. CASE offset = o
    <3>1. page # None
      BY <1>0, <1>3, PagesArePages
    <3> QED  BY <1>6, <1>5, <1>9, <2>1, <3>1 DEF Current
  <2>2. CASE offset # o
    BY <1>0, <1>6, <1>9, <2>2
  <2> QED  BY <2>1, <2>2
<1>17. CacheOK(entry', queue', edits')
  BY <1>9
<1> QED  BY <1>9, <1>12, <1>13, <1>14, <1>15, <1>16, <1>17 DEF TypeInv

LEMMA GivenUpOK ==
    ASSUME TypeInv, queue # <<>>, NEW c, c = Head(queue), c.op = "fetch", c.heard, GivenUp(c),
           UNCHANGED <<landed, edits>>
    PROVE  /\ TypeInv' /\ UNCHANGED <<backend, offset>> /\ (Quiet' => Quiet)
           /\ \A p \in Offsets : /\ entry'[p].data = entry[p].data
                                 /\ entry'[p].valid => entry[p].valid
           /\ entry'[offset] = entry[offset] \/ entry'[offset].error
<1>0. /\ edits \in Nat /\ edits \in 0 .. MaxEdits
      /\ offset \in Offsets /\ search \in Searches /\ (dialog = None \/ dialog.op \in EditOps)
      /\ queue \in Seq(CallUpTo(edits)) /\ Tail(queue) \in Seq(CallUpTo(edits))
      /\ Continues(queue, Tail(queue), 1) /\ queue[1] = c
      /\ entry \in [Offsets -> EntryUpTo(edits)]
  BY HeadServed
<1>1. PICK o \in Offsets : o = c.at /\ Fetches(c, o)
  BY FetchHead
<1>2. PICK x \in EntryUpTo(edits) : x = entry[o]
  BY <1>0
<1> DEFINE failed == [x EXCEPT !.fetch = None, !.error = TRUE, !.valid = @ /\ x.data = None]
           e == [entry EXCEPT ![o] = failed]
<1>3. Render(<<e, Tail(queue)>>, offset, search, dialog, secret) /\ UNCHANGED <<db, late>>
  BY <1>1, <1>2 DEF GivenUp
<1>5. /\ failed \in EntryUpTo(edits) /\ failed.fetch = None /\ failed.data = x.data
      /\ failed.error /\ (failed.valid => x.valid)
  <2>1. PICK v \in BOOLEAN : v <=> x.valid /\ x.data = None
    OBVIOUS
  <2>2. failed = [x EXCEPT !.fetch = None, !.error = TRUE, !.valid = v]
    BY <2>1
  <2> HIDE DEF failed
  <2> QED  BY <2>1, <2>2 DEF EntryUpTo
<1>6. /\ e \in [Offsets -> EntryUpTo(edits)] /\ e[o] = failed
      /\ \A p \in Offsets \ {o} : e[p] = entry[p]
  BY <1>0, <1>5
<1> HIDE DEF failed, e
<1>7. CacheOK(e, Tail(queue), edits)
  BY <1>0, <1>1, <1>5, <1>6, FetchHead, FetchServed
<1>8. /\ entry' = e /\ offset' = offset /\ CacheOK(entry', queue', edits)
      /\ Continues(Tail(queue), queue', 0) /\ ScreenInv'
  BY <1>0, <1>3, <1>7, RenderOK
<1>9. queue' \in Seq(CallUpTo(edits))
  BY <1>8 DEF CacheOK
<1>10. Continues(queue, queue', 1)
  BY <1>0, <1>8, <1>9, ContinuesOn
<1>11. UNCHANGED <<backend, edits>>
  BY <1>3 DEF backend
<1>12. StoreInv'
  BY <1>0, <1>9, <1>10, <1>11, StoreOn DEF TypeInv
<1>13. Quiet' => Quiet
  BY <1>0, <1>10, QuietBefore
<1>14. \A p \in Offsets : /\ entry'[p].data = entry[p].data
                          /\ entry'[p].valid => entry[p].valid
  BY <1>2, <1>5, <1>6, <1>8
<1>15. entry'[offset] = entry[offset] \/ entry'[offset].error
  BY <1>0, <1>5, <1>6, <1>8
<1>16. CacheOK(entry', queue', edits')
  BY <1>8
<1> QED  BY <1>8, <1>11, <1>12, <1>13, <1>14, <1>15, <1>16 DEF TypeInv

\* Another try, or an answer that nobody waits for: nothing changes but the queue.
LEMMA QueueOnly ==
    ASSUME TypeInv, UNCHANGED <<backend, screen, entry, edits>>,
           CacheOK(entry, queue', edits), NEW k \in {0, 1}, Continues(queue, queue', k),
           k = 1 => queue[1].op = "fetch"
    PROVE  TypeInv' /\ UNCHANGED <<backend, entry, offset>> /\ (Quiet' => Quiet)
<1>1. queue \in Seq(CallUpTo(edits)) /\ queue' \in Seq(CallUpTo(edits))
  BY DEF TypeInv, CacheOK
<1>2. StoreInv'
  BY <1>1, StoreOn DEF TypeInv
<1>3. Rows' = Rows
  BY RowsSame DEF screen
<1>4. ScreenInv'
  BY <1>3 DEF TypeInv, ScreenInv, screen
<1>5. CacheOK(entry', queue', edits')
  OBVIOUS
<1>6. Quiet' => Quiet
  BY <1>1, QuietBefore
<1> QED  BY <1>2, <1>4, <1>5, <1>6 DEF TypeInv, screen

LEMMA RetriedOK ==
    ASSUME TypeInv, queue # <<>>, NEW c, c = Head(queue), c.op = "fetch", c.heard, Retried(c),
           UNCHANGED <<landed, edits>>
    PROVE  TypeInv' /\ UNCHANGED <<backend, entry, offset>> /\ (Quiet' => Quiet)
<1>0. /\ edits \in Nat /\ edits \in 0 .. MaxEdits
      /\ queue \in Seq(CallUpTo(edits)) /\ Tail(queue) \in Seq(CallUpTo(edits))
      /\ Continues(queue, Tail(queue), 1) /\ queue[1] = c
      /\ entry \in [Offsets -> EntryUpTo(edits)]
  BY HeadServed
<1>1. PICK o \in Offsets : o = c.at /\ Fetches(c, o)
  BY FetchHead
<1>2. PICK q : q = Tail(queue)
  OBVIOUS
<1>3. queue' = Append(q, Fetching(o, 1)) /\ UNCHANGED <<backend, screen, entry>>
  BY <1>1, <1>2 DEF Retried, backend
<1> DEFINE e == [entry EXCEPT ![o] = [@ EXCEPT !.fetch = None]]
<1>4. /\ e \in [Offsets -> EntryUpTo(edits)] /\ e[o].fetch = None
      /\ \A p \in Offsets \ {o} : e[p] = entry[p]
  <2>1. PICK x \in EntryUpTo(edits) : x = entry[o]
    BY <1>0
  <2>2. [x EXCEPT !.fetch = None] \in EntryUpTo(edits) /\ [x EXCEPT !.fetch = None].fetch = None
    BY DEF EntryUpTo
  <2> QED  BY <1>0, <2>1, <2>2
<1> HIDE DEF e
<1>5. CacheOK(e, q, edits)
  BY <1>0, <1>1, <1>2, <1>4, FetchHead, FetchServed
<1>6. entry[o].fetch # None
  <2>1. OneFetch(entry, queue) /\ 1 \in DOMAIN queue
    BY <1>0, QueueTail DEF TypeInv, CacheOK
  <2> QED  BY <1>0, <1>1, <2>1 DEF OneFetch
<1>7. CacheOK(entry, queue', edits)
  BY <1>0, <1>3, <1>4, <1>5, <1>6, FetchSent
<1>8. Continues(queue, queue', 1)
  <2>1. Fetching(o, 1) \in CallUpTo(edits) /\ Fetching(o, 1).op = "fetch"
    BY FetchingType DEF CallUpTo
  <2>2. Continues(q, queue', 0) /\ queue' \in Seq(CallUpTo(edits))
    BY <1>0, <1>2, <1>3, <2>1, ContinuesWithFetch, QueueAppend
  <2> QED  BY <1>0, <1>2, <2>2, ContinuesOn
<1> QED  BY <1>0, <1>3, <1>7, <1>8, QueueOnly

LEMMA DiscardedOK ==
    ASSUME TypeInv, queue # <<>>, NEW c, c = Head(queue), c.op = "fetch", ~c.heard, Discarded,
           UNCHANGED <<landed, edits>>
    PROVE  TypeInv' /\ UNCHANGED <<backend, entry, offset>> /\ (Quiet' => Quiet)
<1>1. /\ CacheOK(entry, Tail(queue), edits) /\ Continues(queue, Tail(queue), 1) /\ queue[1] = c
  BY HeadServed
<1>2. queue' = Tail(queue) /\ UNCHANGED <<backend, screen, entry>>
  BY DEF Discarded, backend
<1> QED  BY <1>1, <1>2, QueueOnly

LEMMA LandOK ==
    ASSUME TypeInv, NEW c \in late, Land(c)
    PROVE  /\ TypeInv' /\ UNCHANGED <<entry, offset, queue>>
           /\ landed' = landed + 1 \/ UNCHANGED <<db, landed>>
<1>0. /\ edits \in Nat /\ late \subseteq LateUpTo(edits) /\ db \in Tables /\ landed \in Nat
  BY LandedBound DEF TypeInv, StoreInv
<1>1. /\ late' = late \ {c} /\ UNCHANGED <<offset, search, dialog, secret, entry, queue, edits>>
      /\ \/ db' = Carried(c) /\ landed' = landed + 1
         \/ UNCHANGED <<db, landed>>
  BY DEF Land, screen
<1>2. c \in LateUpTo(edits) /\ c.op \in EditOps /\ Fits(c)
  BY <1>0, LateFields
<1>3. PICK L \in SUBSET (1 .. edits) :
         Cardinality(L) = landed /\ Numbered(queue, late, edits, L)
  BY DEF TypeInv, StoreInv
<1>4. db' \in Tables /\ late' \subseteq LateUpTo(edits)
  BY <1>0, <1>1, <1>2, CarriedType
<1>5. \E M \in SUBSET (1 .. edits) :
         Cardinality(M) = landed' /\ Numbered(queue, late', edits, M)
  <2>1. CASE landed' = landed + 1
    BY <1>0, <1>1, <1>3, <2>1, NumberedLanded
  <2>2. CASE landed' = landed
    <3>1. Numbered(queue, late \ {c}, edits, L)
      BY <1>3 DEF Numbered
    <3> QED  BY <1>1, <1>3, <2>2, <3>1
  <2> QED  BY <1>1, <2>1, <2>2
<1>6. landed' \in Nat
  BY <1>0, <1>1
<1>7. StoreInv'
  BY <1>1, <1>4, <1>5, <1>6 DEF TypeInv, StoreInv
<1>8. Rows' = Rows
  BY <1>1, RowsSame
<1>9. ScreenInv'
  BY <1>1, <1>8 DEF TypeInv, ScreenInv
<1> QED  BY <1>1, <1>7, <1>9 DEF TypeInv

-----------------------------------------------------------------------------
(* Every step is of one of four kinds.                                     *)

\* Nothing the backend has is changed, no page becomes up to date but one that
\* was just read, and the page on screen is not left as it was or is looked after.
Onward ==
    /\ UNCHANGED <<db, landed>> /\ (Quiet' => Quiet)
    /\ \A p \in Offsets :
          \/ entry'[p].data = entry[p].data /\ (entry'[p].valid => entry[p].valid)
          \/ entry'[p].data = None
          \/ entry'[p].data = PageAt(p)
    /\ \/ offset' = offset /\ entry'[offset] = entry[offset]
       \/ Current'
       \/ entry'[offset'].error

\* A late change lands, or is rolled back.
Lands ==
    /\ UNCHANGED <<entry, offset, queue>>
    /\ landed' = landed + 1 \/ UNCHANGED <<db, landed>>

LEMMA InitTyped == Init => TypeInv /\ Current /\ \A o \in Offsets : entry[o].data = None
<1> SUFFICES ASSUME Init
             PROVE  TypeInv /\ Current /\ \A o \in Offsets : entry[o].data = None
  OBVIOUS
<1> DEFINE blank == [o \in Offsets |-> Blank]
<1>1. /\ edits = 0 /\ landed = 0 /\ late = {} /\ offset = 0 /\ search = Users
      /\ dialog = None /\ secret = {} /\ db \in [Users -> Row]
      /\ entry = Fetch(blank, <<>>, 0)[1] /\ queue = Fetch(blank, <<>>, 0)[2]
  BY DEF Init
<1>2. 0 \in 0 .. MaxEdits /\ 0 \in Offsets /\ Users \in Searches
  BY PanelAssumption, OffsetsAre
<1>3. CacheOK(blank, <<>>, 0)
  <2>1. blank \in [Offsets -> EntryUpTo(0)] /\ \A o \in Offsets : blank[o].fetch = None
    BY BlankType
  <2>2. <<>> \in Seq(CallUpTo(0)) /\ DOMAIN <<>> = {}
    OBVIOUS
  <2> HIDE DEF blank
  <2> QED  BY <2>1, <2>2 DEF CacheOK, OneFetch
<1> HIDE DEF blank
<1>4. PICK e, q : /\ Fetch(blank, <<>>, 0) = <<e, q>>
                  /\ CacheOK(e, q, 0) /\ Continues(<<>>, q, 0) /\ e[0].fetch # None
                  /\ \A p \in Offsets : e[p].data = blank[p].data
  BY <1>2, <1>3, FetchOK
<1>5. entry = e /\ queue = q
  BY <1>1, <1>4
<1>6. \A i \in DOMAIN queue : queue[i].op = "fetch"
  BY <1>4, <1>5 DEF Continues
<1>7. {} \in SUBSET (1 .. edits) /\ Cardinality({}) = landed /\ Numbered(queue, late, edits, {})
  BY <1>1, <1>6, FS_EmptySet DEF Numbered
<1>8. db \in Tables
  BY <1>1 DEF Tables
<1>9. StoreInv
  BY <1>1, <1>2, <1>7, <1>8 DEF StoreInv
<1>10. ScreenInv
  BY <1>1, <1>2 DEF ScreenInv
<1>11. \A o \in Offsets : entry[o].data = None
  BY <1>4, <1>5, BlankType DEF blank
<1> QED  BY <1>1, <1>4, <1>5, <1>9, <1>10, <1>11 DEF TypeInv, Current

LEMMA AnswerKinds ==
    ASSUME TypeInv, Answer
    PROVE  TypeInv' /\ (Onward \/ Renewed')
<1>0. queue # <<>> /\ UNCHANGED <<landed, edits>> /\ offset \in Offsets
  BY DEF Answer, TypeInv, ScreenInv
<1>1. PICK c : c = Head(queue)
  OBVIOUS
<1>2. \/ c.op = "fetch" /\ c.heard /\ Listed(c)
      \/ c.op = "fetch" /\ c.heard /\ Retried(c)
      \/ c.op = "fetch" /\ c.heard /\ GivenUp(c)
      \/ c.op = "fetch" /\ ~c.heard /\ Discarded
      \/ c.op # "fetch" /\ Accepted(c)
      \/ c.op # "fetch" /\ Refused(c)
  BY <1>1 DEF Answer
<1>3. CASE c.op = "fetch" /\ c.heard /\ Listed(c)
  BY <1>0, <1>1, <1>3, ListedOK DEF Onward, backend
<1>4. CASE c.op = "fetch" /\ c.heard /\ Retried(c)
  BY <1>0, <1>1, <1>4, RetriedOK DEF Onward, backend
<1>5. CASE c.op = "fetch" /\ c.heard /\ GivenUp(c)
  BY <1>0, <1>1, <1>5, GivenUpOK DEF Onward, backend
<1>6. CASE c.op = "fetch" /\ ~c.heard /\ Discarded
  BY <1>0, <1>1, <1>6, DiscardedOK DEF Onward, backend
<1>7. CASE c.op # "fetch" /\ Accepted(c)
  BY <1>0, <1>1, <1>7, AcceptedOK
<1>8. CASE c.op # "fetch" /\ Refused(c)
  BY <1>0, <1>1, <1>8, RefusedOK DEF Onward
<1> QED  BY <1>2, <1>3, <1>4, <1>5, <1>6, <1>7, <1>8

LEMMA StepKinds ==
    ASSUME TypeInv, [Next]_vars
    PROVE  TypeInv' /\ (Onward \/ Lands \/ Renewed' \/ ~Quiet')
<1>0. offset \in Offsets
  BY DEF TypeInv, ScreenInv
<1>1. ASSUME NEW o \in Offsets, GoTo(o) PROVE TypeInv' /\ Onward
  BY <1>1, GoToOK DEF Onward, SameData, backend
<1>2. ASSUME NEW o \in Offsets, Collect(o) PROVE TypeInv' /\ Onward
  <2>1. /\ TypeInv' /\ UNCHANGED <<backend, offset, queue>> /\ entry'[offset] = entry[offset]
        /\ \A p \in Offsets : entry'[p] = entry[p] \/ entry'[p].data = None
    BY <1>2, CollectOK
  <2>2. Quiet' => Quiet
    BY <2>1 DEF Quiet
  <2> QED  BY <2>1, <2>2 DEF Onward, backend
<1>3. ASSUME NEW s \in Searches, Filter(s) PROVE TypeInv' /\ Onward
  BY <1>3, FilterOK DEF Onward, SameData, backend
<1>4. ASSUME NEW u \in Rows, NEW op \in EditOps, Open(u, op) PROVE TypeInv' /\ Onward
  <2>1. TypeInv' /\ UNCHANGED <<backend, entry, offset, queue>>
    BY <1>4, OpenOK
  <2> QED  BY <2>1 DEF Onward, backend, Quiet
<1>5. CASE Close
  <2>1. TypeInv' /\ UNCHANGED <<backend, entry, offset, queue>>
    BY <1>5, CloseOK
  <2> QED  BY <2>1 DEF Onward, backend, Quiet
<1>6. CASE Submit
  BY <1>6, SubmitOK DEF Onward, backend
<1>7. CASE Answer
  BY <1>7, AnswerKinds
<1>8. CASE LandSome
  BY <1>8, LandOK DEF LandSome, Lands
<1>9. CASE UNCHANGED vars
  <2>1. UNCHANGED <<db, late, landed, offset, search, dialog, secret, entry, queue, edits>>
    BY <1>9 DEF vars, backend, screen
  <2>2. Rows' = Rows
    BY <2>1, RowsSame
  <2>3. TypeInv'
    BY <2>1, <2>2 DEF TypeInv, StoreInv, ScreenInv
  <2> QED  BY <2>1, <2>3 DEF Onward, Quiet
<1> QED  BY <1>1, <1>2, <1>3, <1>4, <1>5, <1>6, <1>7, <1>8, <1>9 DEF Next

LEMMA TypeInvariant == Spec => []TypeInv
<1>1. Init => TypeInv
  BY InitTyped
<1>2. TypeInv /\ [Next]_vars => TypeInv'
  BY StepKinds
<1> QED  BY <1>1, <1>2, PTL DEF Spec

\* The number of calls of one kind: of a set with at most one member.
LEMMA CountOfOne ==
    ASSUME NEW S, \A x, y \in S : x = y
    PROVE  Cardinality(S) = IF S = {} THEN 0 ELSE 1
<1>1. CASE S = {}
  BY <1>1, FS_EmptySet
<1>2. CASE S # {}
  <2>1. PICK x : S = {x}
    BY <1>2
  <2> QED  BY <1>2, <2>1, FS_Singleton
<1> QED  BY <1>1, <1>2

LEMMA TypedIsTypeOK == TypeInv => TypeOK
<1> SUFFICES ASSUME TypeInv PROVE TypeOK
  OBVIOUS
<1>0. /\ edits \in 0 .. MaxEdits /\ edits \in Nat /\ landed \in 0 .. MaxEdits
      /\ CacheOK(entry, queue, edits)
      /\ queue \in Seq(CallUpTo(edits)) /\ entry \in [Offsets -> EntryUpTo(edits)]
      /\ late \subseteq LateUpTo(edits)
  BY LandedBound DEF TypeInv, StoreInv, CacheOK
<1>1. \E S \in SUBSET Users : db \in [S -> Row]
  BY DEF TypeInv, StoreInv, Tables
<1>2. \A c \in late : c.user \in Users /\ c.op \in EditOps \ {"reset"}
  BY <1>0, LateFields
<1>3. DataUpTo(edits) \subseteq Data /\ QueryUpTo(edits) \subseteq Query
  BY <1>0, PagesArePages DEF DataUpTo, Data
<1>4. ASSUME NEW o \in Offsets
      PROVE  /\ [data |-> entry[o].data, valid |-> entry[o].valid, error |-> entry[o].error]
                   \in Query
             /\ entry[o].fetch = None \/ entry[o].fetch \in Query
             /\ Cardinality({i \in DOMAIN queue : /\ queue[i].op = "fetch"
                                                  /\ queue[i].heard /\ queue[i].at = o})
                   = (IF entry[o].fetch = None THEN 0 ELSE 1)
  <2>1. /\ entry[o].data \in Data /\ entry[o].valid \in BOOLEAN /\ entry[o].error \in BOOLEAN
        /\ entry[o].fetch = None \/ entry[o].fetch \in Query
    BY <1>0, <1>3, EntryFields
  <2>2. PICK S : S = {i \in DOMAIN queue : Fetches(queue[i], o)}
    OBVIOUS
  <2>3. (\A x, y \in S : x = y) /\ (entry[o].fetch # None <=> S # {})
    BY <1>0, <2>2 DEF CacheOK, OneFetch
  <2>4. Cardinality(S) = IF S = {} THEN 0 ELSE 1
    BY <2>3, CountOfOne
  <2>5. S = {i \in DOMAIN queue : queue[i].op = "fetch" /\ queue[i].heard /\ queue[i].at = o}
    BY <2>2 DEF Fetches
  <2> QED  BY <2>1, <2>3, <2>4, <2>5 DEF Query
<1>5. ASSUME NEW i \in DOMAIN queue
      PROVE  IF queue[i].op = "fetch" THEN queue[i] \in FetchCall ELSE queue[i] \in EditCall
  <2>1. queue[i] \in CallUpTo(edits)
    BY <1>0
  <2>2. EditUpTo(edits) \subseteq EditCall
    <3>1. 1 .. edits \subseteq 1 .. MaxEdits
      BY <1>0, PanelAssumption
    <3>2. [Offsets -> DataUpTo(edits)] \subseteq [Offsets -> Data]
      BY <1>3
    <3> QED  BY <3>1, <3>2 DEF EditUpTo, EditCall
  <2> QED  BY <1>0, <2>1, <2>2, CallKinds
<1> QED
  BY <1>0, <1>1, <1>2, <1>4, <1>5 DEF TypeOK, TypeInv, ScreenInv

\* Every variable of the page keeps its type, in particular: no more than the
\* changes submitted are ever off a page's total or landed late; and however
\* paging, changes, answers and retries overlap, a page is being fetched
\* exactly while one call for it is waited for (use-admin-users.ts).
THEOREM PanelTypeCorrect == Spec => []TypeOK
  BY TypeInvariant, TypedIsTypeOK, PTL

-----------------------------------------------------------------------------
(* Once no change is pending.                                              *)

\* NeverLeftStale is inductive: a change that settles has the page on screen
\* fetched, and that fetch ends with its page or with an error.
\* Once no change is pending, the page on screen is up to date, or being
\* fetched, or the last fetch has failed (use-admin-users.ts, onSettled).
THEOREM PanelIsRefreshed == Spec => []NeverLeftStale
<1>1. Init => NeverLeftStale
  BY InitTyped DEF Current, NeverLeftStale
<1>2. TypeInv /\ NeverLeftStale /\ [Next]_vars => NeverLeftStale'
  <2> SUFFICES ASSUME TypeInv, NeverLeftStale, [Next]_vars, Quiet'
               PROVE  Current' \/ entry'[offset'].error
    BY DEF NeverLeftStale, Current
  <2>1. CASE Onward
    BY <2>1 DEF Onward, NeverLeftStale, Current
  <2>2. CASE Lands
    BY <2>2 DEF Lands, NeverLeftStale, Current, Quiet
  <2>3. CASE Renewed'
    BY <2>3 DEF Renewed, Current
  <2> QED  BY <2>1, <2>2, <2>3, StepKinds
<1> QED  BY <1>1, <1>2, TypeInvariant, PTL DEF Spec

\* A page that counts as up to date has been read since the last change was
\* settled here. It knows of no late change that has not landed, and is what
\* the database has unless one has landed since.
SettledInv ==
    Quiet => \A o \in Offsets :
        LET page == entry[o].data
        IN page # None /\ entry[o].valid =>
               page.seen <= landed /\ (page.seen = landed => page = PageAt(o))

LEMMA SettledStep ==
    ASSUME TypeInv, SettledInv, [Next]_vars
    PROVE  SettledInv'
<1> SUFFICES ASSUME Quiet', NEW o \in Offsets, entry'[o].data # None, entry'[o].valid
             PROVE  /\ entry'[o].data.seen <= landed'
                    /\ entry'[o].data.seen = landed' => entry'[o].data = PageAt(o)'
  BY DEF SettledInv
<1>1. landed \in Nat /\ landed \in 0 .. MaxEdits /\ edits \in Nat /\ db \in Tables
  BY LandedBound DEF TypeInv, StoreInv
<1>2. PageAt(o).seen = landed
  BY <1>1, PageAtType
<1>3. CASE Onward
  <2>1. PageAt(o)' = PageAt(o) /\ landed' = landed /\ Quiet
    BY <1>3 DEF Onward, PageAt
  <2>2. CASE entry'[o].data = entry[o].data /\ (entry'[o].valid => entry[o].valid)
    BY <2>1, <2>2 DEF SettledInv
  <2>3. CASE entry'[o].data = PageAt(o)
    BY <1>1, <1>2, <2>1, <2>3
  <2> QED  BY <1>3, <2>2, <2>3 DEF Onward
<1>4. CASE Lands
  <2>1. Quiet /\ entry' = entry
    BY <1>4 DEF Lands, Quiet
  <2>2. /\ entry[o].data.seen <= landed
        /\ entry[o].data.seen = landed => entry[o].data = PageAt(o)
    BY <2>1 DEF SettledInv
  <2>3. CASE landed' = landed + 1
    <3>1. edits \in Nat /\ entry[o].data \in DataUpTo(edits)
      BY <1>1, EntryFields DEF TypeInv, CacheOK
    <3>2. entry[o].data.seen \in 0 .. MaxEdits
      BY <2>1, <3>1, PageFields DEF DataUpTo
    <3> QED  BY <1>1, <2>1, <2>2, <2>3, <3>2, PanelAssumption
  <2>4. CASE UNCHANGED <<db, landed>>
    <3>1. PageAt(o)' = PageAt(o)
      BY <2>4 DEF PageAt
    <3> QED  BY <2>1, <2>2, <2>4, <3>1
  <2> QED  BY <1>4, <2>3, <2>4 DEF Lands
<1>5. CASE Renewed'
  BY <1>5 DEF Renewed
<1> QED  BY <1>3, <1>4, <1>5, StepKinds

\* Whatever was submitted, failed, lost or overtaken: once no change is
\* pending, a page of the list that counts as up to date is the database's,
\* unless a change was committed after the tab had been told of it
\* (use-admin-users.ts: the snapshots of overlapping changes are undone by the
\* refetch of each).
THEOREM PanelShowsDatabase == Spec => []SettledIsDatabase
<1>1. Init => SettledInv
  BY InitTyped DEF SettledInv
<1>2. TypeInv /\ SettledInv /\ [Next]_vars => SettledInv'
  BY SettledStep
<1>3. SettledInv => SettledIsDatabase
  BY DEF SettledInv, SettledIsDatabase
<1> QED  BY <1>1, <1>2, <1>3, TypeInvariant, PTL DEF Spec
=============================================================================
