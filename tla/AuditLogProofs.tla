--------------------------- MODULE AuditLogProofs ---------------------------
(***************************************************************************)
(* Theorems about the audit log page, for any filters, texts, entries and  *)
(* page size, and any number of queries.                                   *)
(*                                                                         *)
(* The two safety properties speak of the pages a query holds; why they    *)
(* hold lies in the calls on their way and in the log, which only grows.   *)
(***************************************************************************)
EXTENDS AuditLog, TLAPS, FiniteSetTheorems

Calls == [key : Keys, tries : {0, 1}, rows : -1 .. PageSize]
Queries == [data : Page \cup {None}, fetching : BOOLEAN]

\* At most one call for a query is in the queue, and one is exactly while the
\* query is being fetched.
OneCall(qy, qu) ==
    /\ \A i, j \in DOMAIN qu : qu[i].key = qu[j].key => i = j
    /\ \A k \in Keys : qy[k].fetching <=> \E i \in DOMAIN qu : qu[i].key = k

TypeInv ==
    /\ log \in Seq(Entries) /\ Len(log) <= MaxLog
    /\ typed \in Searches /\ timer \in BOOLEAN /\ shown \in Keys
    /\ query \in [Keys -> Queries]
    /\ queue \in Seq(Calls)
    /\ OneCall(query, queue)

\* ROWS, the number of rows of the page of query K, agrees with the log: they
\* are there, and a page after the first is not empty.
Holds(k, rows) ==
    /\ rows > 0 => k.offset + rows <= Matching(k)
    /\ k.offset > 0 => rows > 0

\* What a page's total says was so when its count was read.
Counted(k, page) ==
    /\ page.total <= Matching(k)
    /\ page.rows > 0 => k.offset + page.rows <= page.total
    /\ k.offset > 0 => page.rows > 0

\* No page past the end is shown, kept or asked for.
Asked(k) == k = shown \/ query[k].data # None \/ query[k].fetching
WithinLog == \A k \in Keys : Asked(k) /\ k.offset > 0 => k.offset < Matching(k)

LogInv ==
    /\ WithinLog
    /\ \A k \in Keys : query[k].data # None => Counted(k, query[k].data)
    /\ \A i \in DOMAIN queue :
          queue[i].rows # -1 => Holds(queue[i].key, queue[i].rows)
-----------------------------------------------------------------------------
(* Calls and queries.                                                      *)

\* A call, and what it is made of.
LEMMA CallType ==
    ASSUME NEW k \in Keys, NEW t \in {0, 1}
    PROVE  /\ Call(k, t) \in Calls
           /\ Call(k, t).key = k /\ Call(k, t).rows = -1
BY AuditLogAssumption DEF Call, Calls

\* The queue without its first call.
LEMMA QueueTail ==
    ASSUME NEW qu \in Seq(Calls), qu # <<>>
    PROVE  /\ Head(qu) \in Calls /\ Head(qu) = qu[1] /\ 1 \in DOMAIN qu
           /\ Tail(qu) \in Seq(Calls)
           /\ DOMAIN Tail(qu) = 1 .. Len(qu) - 1
           /\ \A i \in DOMAIN Tail(qu) : i + 1 \in DOMAIN qu /\ Tail(qu)[i] = qu[i + 1]
OBVIOUS

\* The queue with one more call.
LEMMA QueueAppend ==
    ASSUME NEW qu \in Seq(Calls), NEW c \in Calls
    PROVE  /\ Append(qu, c) \in Seq(Calls)
           /\ DOMAIN Append(qu, c) = 1 .. Len(qu) + 1
           /\ Append(qu, c)[Len(qu) + 1] = c
           /\ \A i \in DOMAIN qu : i \in DOMAIN Append(qu, c) /\ Append(qu, c)[i] = qu[i]
           /\ \A i \in DOMAIN Append(qu, c) : i \in DOMAIN qu \/ i = Len(qu) + 1
OBVIOUS

\* A fetch is started for a query that is not being fetched.
LEMMA SendOneCall ==
    ASSUME NEW qy \in [Keys -> Queries], NEW qu \in Seq(Calls), OneCall(qy, qu),
           NEW c \in Calls, ~qy[c.key].fetching
    PROVE  OneCall([qy EXCEPT ![c.key].fetching = TRUE], Append(qu, c))
<1> DEFINE q2 == Append(qu, c)
           y2 == [qy EXCEPT ![c.key].fetching = TRUE]
<1>1. /\ \A k \in Keys : k # c.key => y2[k] = qy[k]
      /\ y2[c.key].fetching = TRUE
      /\ c.key \in Keys
  BY DEF Calls, Queries
<1>2. /\ DOMAIN q2 = 1 .. Len(qu) + 1
      /\ q2[Len(qu) + 1] = c
      /\ \A i \in DOMAIN qu : i \in DOMAIN q2 /\ q2[i] = qu[i]
      /\ \A i \in DOMAIN q2 : i \in DOMAIN qu \/ i = Len(qu) + 1
  BY QueueAppend
<1>3. \A i \in DOMAIN qu : qu[i].key # c.key
  BY <1>1 DEF OneCall
<1>4. Len(qu) + 1 \in DOMAIN q2
  BY <1>2
<1> HIDE DEF q2, y2
<1>5. \A i, j \in DOMAIN q2 : q2[i].key = q2[j].key => i = j
  BY <1>2, <1>3 DEF OneCall
<1>6. \A k \in Keys : y2[k].fetching <=> \E i \in DOMAIN q2 : q2[i].key = k
  <2> TAKE k \in Keys
  <2>1. CASE k = c.key
    BY <2>1, <1>1, <1>2, <1>4
  <2>2. CASE k # c.key
    <3>1. y2[k].fetching <=> \E i \in DOMAIN qu : qu[i].key = k
      BY <2>2, <1>1 DEF OneCall
    <3>2. (\E i \in DOMAIN qu : qu[i].key = k) <=> \E i \in DOMAIN q2 : q2[i].key = k
      BY <2>2, <1>2
    <3> QED  BY <3>1, <3>2
  <2> QED  BY <2>1, <2>2
<1>7. OneCall(y2, q2)
  BY <1>5, <1>6 DEF OneCall
<1> QED  BY <1>7 DEF q2, y2

\* The oldest call ends, and its query is not being fetched any more.
LEMMA ServeOneCall ==
    ASSUME NEW qy \in [Keys -> Queries], NEW qu \in Seq(Calls), OneCall(qy, qu),
           qu # <<>>, NEW y2 \in [Keys -> Queries], ~y2[Head(qu).key].fetching,
           \A k \in Keys : k # Head(qu).key => y2[k] = qy[k]
    PROVE  OneCall(y2, Tail(qu))
<1> DEFINE q2 == Tail(qu)
           h == Head(qu).key
<1>1. /\ h \in Keys /\ qu[1].key = h /\ 1 \in DOMAIN qu
      /\ DOMAIN q2 = 1 .. Len(qu) - 1
      /\ \A i \in DOMAIN q2 : i + 1 \in DOMAIN qu /\ q2[i] = qu[i + 1]
  BY QueueTail DEF Calls
<1>2. \A i \in DOMAIN qu : i # 1 => i - 1 \in DOMAIN q2 /\ q2[i - 1] = qu[i]
  BY <1>1
<1>3. \A i \in DOMAIN q2 : i \in Int /\ i > 0
  BY <1>1
<1>4. ~y2[h].fetching /\ \A k \in Keys : k # h => y2[k] = qy[k]
  OBVIOUS
<1> HIDE DEF q2, h
<1>5. \A i, j \in DOMAIN q2 : q2[i].key = q2[j].key => i = j
  <2> TAKE i, j \in DOMAIN q2
  <2>1. q2[i].key = q2[j].key => i + 1 = j + 1
    BY <1>1 DEF OneCall
  <2> QED  BY <2>1, <1>3
<1>6. \A i \in DOMAIN q2 : q2[i].key # h
  <2> TAKE i \in DOMAIN q2
  <2>1. q2[i].key = h => i + 1 = 1
    BY <1>1 DEF OneCall
  <2> QED  BY <2>1, <1>3
<1>7. \A k \in Keys : y2[k].fetching <=> \E i \in DOMAIN q2 : q2[i].key = k
  <2> TAKE k \in Keys
  <2>1. CASE k = h
    BY <2>1, <1>4, <1>6
  <2>2. CASE k # h
    <3>1. y2[k].fetching <=> \E i \in DOMAIN qu : qu[i].key = k
      BY <2>2, <1>4 DEF OneCall
    <3>2. ASSUME NEW i \in DOMAIN qu, qu[i].key = k
          PROVE  \E j \in DOMAIN q2 : q2[j].key = k
      <4>1. i # 1
        BY <3>2, <2>2, <1>1
      <4> QED  BY <4>1, <3>2, <1>2
    <3>3. ASSUME NEW i \in DOMAIN q2, q2[i].key = k
          PROVE  \E j \in DOMAIN qu : qu[j].key = k
      BY <3>3, <1>1
    <3> QED  BY <3>1, <3>2, <3>3
  <2> QED  BY <2>1, <2>2
<1>8. OneCall(y2, q2)
  BY <1>5, <1>7 DEF OneCall
<1> QED  BY <1>8 DEF q2

\* The oldest call is put off to the end of the queue.
LEMMA RetryOneCall ==
    ASSUME NEW qy \in [Keys -> Queries], NEW qu \in Seq(Calls), OneCall(qy, qu),
           qu # <<>>, NEW c \in Calls, c.key = Head(qu).key
    PROVE  OneCall(qy, Append(Tail(qu), c))
<1> DEFINE y1 == [qy EXCEPT ![c.key].fetching = FALSE]
<1>1. Head(qu) \in Calls /\ Head(qu) = qu[1] /\ 1 \in DOMAIN qu /\ Tail(qu) \in Seq(Calls)
  BY QueueTail
<1>2. c.key \in Keys /\ qy[c.key] \in Queries /\ qy[c.key].fetching = TRUE
  BY <1>1 DEF Calls, Queries, OneCall
<1>3. /\ y1 \in [Keys -> Queries]
      /\ ~y1[c.key].fetching
      /\ \A k \in Keys : k # c.key => y1[k] = qy[k]
  BY <1>2 DEF Queries
<1>4. [y1 EXCEPT ![c.key].fetching = TRUE] = qy
  BY <1>2 DEF Queries
<1> HIDE DEF y1
<1>5. OneCall(y1, Tail(qu))
  BY <1>3, ServeOneCall
<1>6. OneCall([y1 EXCEPT ![c.key].fetching = TRUE], Append(Tail(qu), c))
  BY <1>1, <1>3, <1>5, SendOneCall
<1> QED  BY <1>4, <1>6

\* A call learns its number of rows.
LEMMA SelectOneCall ==
    ASSUME NEW qy \in [Keys -> Queries], NEW qu \in Seq(Calls), OneCall(qy, qu),
           qu # <<>>, NEW n \in -1 .. PageSize
    PROVE  /\ OneCall(qy, [qu EXCEPT ![1].rows = n])
           /\ [qu EXCEPT ![1].rows = n] \in Seq(Calls)
<1> DEFINE q2 == [qu EXCEPT ![1].rows = n]
<1>1. 1 \in DOMAIN qu /\ qu[1] \in Calls
  BY QueueTail
<1>2. DOMAIN q2 = DOMAIN qu /\ \A i \in DOMAIN qu : q2[i].key = qu[i].key
  BY <1>1 DEF Calls
<1>3. q2 \in Seq(Calls)
  <2>1. PICK x \in Calls : x = [qu[1] EXCEPT !.rows = n]
    BY <1>1 DEF Calls
  <2>2. q2 = [qu EXCEPT ![1] = x]
    BY <2>1
  <2> QED  BY <2>2, <1>1
<1> HIDE DEF q2
<1>4. OneCall(qy, q2)
  BY <1>2 DEF OneCall
<1> QED  BY <1>3, <1>4 DEF q2

-----------------------------------------------------------------------------
(* The log.                                                                *)

\* Some of the positions of a sequence.
LEMMA SomePositions ==
    ASSUME NEW l \in Seq(Entries), NEW T \in SUBSET DOMAIN l
    PROVE  IsFiniteSet(T) /\ Cardinality(T) \in Nat /\ Cardinality(T) <= Len(l)
<1>1. PICK n \in Nat : n = Len(l)
  OBVIOUS
<1>2. IsFiniteSet(1 .. n) /\ Cardinality(1 .. n) = IF 1 > n THEN 0 ELSE n - 1 + 1
  BY FS_Interval
<1>3. Cardinality(1 .. n) = n
  BY <1>2
<1>4. T \in SUBSET (1 .. n)
  BY <1>1
<1>5. IsFiniteSet(T) /\ Cardinality(T) <= Cardinality(1 .. n)
  BY <1>2, <1>4, FS_Subset
<1> QED  BY <1>1, <1>3, <1>5, FS_CardinalityType

\* The entries that satisfy the conditions are some of the log's.
LEMMA MatchingType ==
    ASSUME NEW k, log \in Seq(Entries)
    PROVE  Matching(k) \in Nat /\ Matching(k) <= Len(log)
<1>1. {i \in DOMAIN log : /\ k.filter \in {None, log[i].action}
                          /\ k.search \in {None, log[i].text}} \in SUBSET DOMAIN log
  OBVIOUS
<1> QED  BY <1>1, SomePositions DEF Matching

\* The log only grows, and so does what satisfies the conditions of a query.
LEMMA MatchingGrows ==
    ASSUME NEW k, log \in Seq(Entries), NEW e \in Entries, log' = Append(log, e)
    PROVE  Matching(k) <= Matching(k)'
<1> DEFINE some == {i \in DOMAIN log : /\ k.filter \in {None, log[i].action}
                                       /\ k.search \in {None, log[i].text}}
           more == {i \in DOMAIN log' : /\ k.filter \in {None, log'[i].action}
                                        /\ k.search \in {None, log'[i].text}}
<1>1. \A i \in DOMAIN log : i \in DOMAIN log' /\ log'[i] = log[i]
  OBVIOUS
<1>2. some \in SUBSET more
  BY <1>1
<1>3. log' \in Seq(Entries) /\ more \in SUBSET DOMAIN log'
  OBVIOUS
<1>4. Matching(k) = Cardinality(some) /\ Matching(k)' = Cardinality(more)
  BY DEF Matching
<1> HIDE DEF some, more
<1>5. IsFiniteSet(more)
  BY <1>3, SomePositions
<1>6. Cardinality(some) <= Cardinality(more)
  BY <1>2, <1>5, FS_Subset
<1> QED  BY <1>4, <1>6

\* As long as nothing is added, the same entries satisfy them.
LEMMA MatchingSame ==
    ASSUME NEW k, UNCHANGED log
    PROVE  Matching(k)' = Matching(k)
BY DEF Matching

\* The larger and the smaller of two numbers.
LEMMA MaxOfTwo ==
    ASSUME NEW a \in Int, NEW b \in Int
    PROVE  Max({a, b}) = IF a >= b THEN a ELSE b
<1> DEFINE m == IF a >= b THEN a ELSE b
<1>1. m \in {a, b} /\ \A y \in {a, b} : m >= y
  OBVIOUS
<1>2. \A x \in {a, b} : (\A y \in {a, b} : x >= y) => x = m
  OBVIOUS
<1> QED  BY <1>1, <1>2 DEF Max

LEMMA MinOfTwo ==
    ASSUME NEW a \in Int, NEW b \in Int
    PROVE  Min({a, b}) = IF a =< b THEN a ELSE b
<1> DEFINE m == IF a =< b THEN a ELSE b
<1>1. m \in {a, b} /\ \A y \in {a, b} : m =< y
  OBVIOUS
<1>2. \A x \in {a, b} : (\A y \in {a, b} : x =< y) => x = m
  OBVIOUS
<1> QED  BY <1>1, <1>2 DEF Min

\* The rows of a page are in the log, and there are some unless the page begins
\* where the log ends.
LEMMA RowsOfPage ==
    ASSUME NEW k \in Keys, log \in Seq(Entries)
    PROVE  /\ Rows(k) \in 0 .. PageSize
           /\ Rows(k) > 0 => k.offset + Rows(k) <= Matching(k)
           /\ k.offset < Matching(k) => Rows(k) > 0
<1>1. Matching(k) \in Int /\ k.offset \in Int /\ PageSize \in Nat \ {0}
  BY MatchingType, AuditLogAssumption DEF Keys
<1>2. PICK m \in Int : m = Matching(k) - k.offset
  BY <1>1
<1>3. Min({PageSize, m}) = IF PageSize =< m THEN PageSize ELSE m
  BY <1>1, MinOfTwo
<1>4. PICK n \in Int : n = Min({PageSize, m})
  BY <1>1, <1>3
<1>5. Max({0, n}) = IF 0 >= n THEN 0 ELSE n
  BY MaxOfTwo
<1>6. Rows(k) = Max({0, n})
  BY <1>2, <1>4 DEF Rows
<1> QED  BY <1>1, <1>2, <1>3, <1>4, <1>5, <1>6

-----------------------------------------------------------------------------
(* Types.                                                                  *)

\* The first page, whatever the filter and the text.
LEMMA FirstPage ==
    ASSUME NEW f \in Filters, NEW t \in Searches
    PROVE  [filter |-> f, search |-> t, offset |-> 0] \in Keys
<1>1. 0 \in 0 .. MaxLog - 1 /\ 0 % PageSize = 0
  BY AuditLogAssumption
<1> QED  BY <1>1 DEF Keys

\* What a query asks for.
LEMMA KeyFields ==
    ASSUME NEW k \in Keys
    PROVE  /\ k = [filter |-> k.filter, search |-> k.search, offset |-> k.offset]
           /\ k.filter \in Filters /\ k.search \in Searches
           /\ k.offset \in {o \in 0 .. MaxLog - 1 : o % PageSize = 0}
           /\ k.offset \in Nat
<1>1. /\ k = [filter |-> k.filter, search |-> k.search, offset |-> k.offset]
      /\ k.filter \in Filters /\ k.search \in Searches
      /\ k.offset \in {o \in 0 .. MaxLog - 1 : o % PageSize = 0}
  BY DEF Keys
<1>2. k.offset \in Nat
  BY <1>1, AuditLogAssumption
<1> QED  BY <1>1, <1>2

\* The first page for another text.
LEMMA SearchedKey ==
    ASSUME NEW k \in Keys, NEW t \in Searches
    PROVE  /\ [k EXCEPT !.search = t, !.offset = 0] \in Keys
           /\ [k EXCEPT !.search = t, !.offset = 0].offset = 0
<1>1. PICK m : m = [k EXCEPT !.search = t]
  OBVIOUS
<1>2. m = [filter |-> k.filter, search |-> t, offset |-> k.offset]
  BY <1>1, KeyFields
<1>3. [m EXCEPT !.offset = 0] = [filter |-> k.filter, search |-> t, offset |-> 0]
  BY <1>2
<1> QED  BY <1>1, <1>3, KeyFields, FirstPage

\* The first page under another filter.
LEMMA FilteredKey ==
    ASSUME NEW k \in Keys, NEW f \in Filters
    PROVE  /\ [k EXCEPT !.filter = f, !.offset = 0] \in Keys
           /\ [k EXCEPT !.filter = f, !.offset = 0].offset = 0
<1>1. PICK m : m = [k EXCEPT !.filter = f]
  OBVIOUS
<1>2. m = [filter |-> f, search |-> k.search, offset |-> k.offset]
  BY <1>1, KeyFields
<1>3. [m EXCEPT !.offset = 0] = [filter |-> f, search |-> k.search, offset |-> 0]
  BY <1>2
<1> QED  BY <1>1, <1>3, KeyFields, FirstPage

\* Another page for the same text and filter.
LEMMA TurnedKey ==
    ASSUME NEW k \in Keys, NEW j \in Keys
    PROVE  /\ [k EXCEPT !.offset = j.offset] \in Keys
           /\ [k EXCEPT !.offset = j.offset].offset = j.offset
           /\ [k EXCEPT !.offset = j.offset].filter = k.filter
           /\ [k EXCEPT !.offset = j.offset].search = k.search
<1>1. [k EXCEPT !.offset = j.offset]
         = [filter |-> k.filter, search |-> k.search, offset |-> j.offset]
  BY KeyFields
<1>2. [filter |-> k.filter, search |-> k.search, offset |-> j.offset] \in Keys
  BY KeyFields DEF Keys
<1> QED  BY <1>1, <1>2

LEMMA InitTyped == Init => TypeInv
<1> SUFFICES ASSUME Init PROVE TypeInv
  OBVIOUS
<1>1. None \in Filters /\ None \in Searches
  BY DEF Filters, Searches
<1>2. Start \in Keys
  BY <1>1, FirstPage DEF Start
<1>3. Blank \in Queries /\ Blank.fetching = FALSE
  BY DEF Blank, Queries
<1> DEFINE y0 == [k \in Keys |-> Blank]
           c == Call(Start, 0)
<1>4. c \in Calls /\ c.key = Start
  BY <1>2, CallType
<1>5. /\ y0 \in [Keys -> Queries]
      /\ OneCall(y0, <<>>)
      /\ ~y0[Start].fetching
  BY <1>2, <1>3 DEF OneCall
<1>6. query = [y0 EXCEPT ![Start].fetching = TRUE] /\ queue = Append(<<>>, c)
  BY DEF Init
<1>7. <<>> \in Seq(Calls)
  OBVIOUS
<1> HIDE DEF y0, c
<1>8. OneCall([y0 EXCEPT ![c.key].fetching = TRUE], Append(<<>>, c))
  BY <1>4, <1>5, <1>7, SendOneCall
<1>9. query \in [Keys -> Queries] /\ queue \in Seq(Calls)
  <2>1. query \in [Keys -> Queries]
    BY <1>2, <1>5, <1>6 DEF Queries
  <2>2. queue = <<c>>
    BY <1>6
  <2> QED  BY <1>4, <2>1, <2>2
<1>10. log \in Seq(Entries) /\ Len(log) <= MaxLog
  BY AuditLogAssumption DEF Init
<1>11. typed \in Searches /\ timer \in BOOLEAN /\ shown \in Keys
  BY <1>1, <1>2 DEF Init
<1> QED  BY <1>4, <1>6, <1>8, <1>9, <1>10, <1>11 DEF TypeInv

\* What showing a query does: it is on screen, perhaps asked for, and nothing
\* that is known or asked for already is touched.
LEMMA ShowEffect ==
    ASSUME TypeInv, NEW k \in Keys, Show(k)
    PROVE  /\ shown' = k
           /\ query' \in [Keys -> Queries]
           /\ queue' \in Seq(Calls)
           /\ OneCall(query', queue')
           /\ \A j \in Keys : query'[j].data = query[j].data
           /\ \A j \in Keys : query'[j].fetching => query[j].fetching \/ j = k
           /\ \A i \in DOMAIN queue' :
                 queue'[i].rows = -1 \/ (i \in DOMAIN queue /\ queue'[i] = queue[i])
<1> USE DEF TypeInv
<1>1. shown' = k
  BY DEF Show
<1>2. CASE UNCHANGED <<query, queue>>
  BY <1>1, <1>2
<1>3. CASE /\ ~query[k].fetching
           /\ query' = [query EXCEPT ![k].fetching = TRUE]
           /\ queue' = Append(queue, Call(k, 0))
  <2> DEFINE c == Call(k, 0)
  <2>1. c \in Calls /\ c.key = k /\ c.rows = -1
    BY CallType
  <2> HIDE DEF c
  <2>2. OneCall([query EXCEPT ![c.key].fetching = TRUE], Append(queue, c))
    BY <2>1, <1>3, SendOneCall
  <2>3. OneCall(query', queue')
    BY <2>1, <2>2, <1>3 DEF c
  <2>4. /\ query' \in [Keys -> Queries]
        /\ \A j \in Keys : query'[j].data = query[j].data
        /\ \A j \in Keys : query'[j].fetching => query[j].fetching \/ j = k
    BY <1>3 DEF Queries
  <2>5. /\ queue' \in Seq(Calls)
        /\ \A i \in DOMAIN queue' :
              queue'[i].rows = -1 \/ (i \in DOMAIN queue /\ queue'[i] = queue[i])
    BY <1>3, <2>1, QueueAppend DEF c
  <2> QED  BY <1>1, <2>3, <2>4, <2>5
<1> QED  BY <1>2, <1>3 DEF Show

\* A step that changes nothing but what is shown, to K.
LEMMA ShowTyped ==
    ASSUME TypeInv, NEW k \in Keys, Show(k), UNCHANGED log,
           typed' \in Searches, timer' \in BOOLEAN
    PROVE  TypeInv'
BY ShowEffect DEF TypeInv

LEMMA CountTyped ==
    ASSUME TypeInv, queue # <<>>, Head(queue).rows # -1
    PROVE  [rows |-> Head(queue).rows, total |-> Matching(Head(queue).key)] \in Page
<1>1. Head(queue) \in Calls
  BY QueueTail DEF TypeInv
<1>2. Head(queue).rows \in 0 .. PageSize
  BY <1>1, AuditLogAssumption DEF Calls
<1>3. Matching(Head(queue).key) \in Nat /\ Matching(Head(queue).key) <= MaxLog
  BY MatchingType, AuditLogAssumption DEF TypeInv
<1> QED  BY <1>2, <1>3, AuditLogAssumption DEF Page

LEMMA NextTyped == TypeInv /\ [Next]_vars => TypeInv'
<1> SUFFICES ASSUME TypeInv, [Next]_vars PROVE TypeInv'
  OBVIOUS
<1> USE DEF TypeInv
<1>1. ASSUME NEW t \in Searches, Type(t) PROVE TypeInv'
  BY <1>1 DEF Type
<1>2. ASSUME NEW f \in Filters, HandleActionFilter(f) PROVE TypeInv'
  <2>1. PICK k \in Keys : k = [shown EXCEPT !.filter = f, !.offset = 0]
    BY FilteredKey
  <2> QED  BY <1>2, <2>1, ShowTyped DEF HandleActionFilter
<1>3. ASSUME NEW j \in Keys, Turn(j.offset) PROVE TypeInv'
  <2>1. PICK k \in Keys : k = [shown EXCEPT !.offset = j.offset]
    BY TurnedKey
  <2> QED  BY <1>3, <2>1, ShowTyped DEF Turn
<1>4. ASSUME Debounced PROVE TypeInv'
  <2>1. PICK k \in Keys : k = [shown EXCEPT !.search = typed, !.offset = 0]
    BY SearchedKey
  <2> QED  BY <1>4, <2>1, ShowTyped DEF Debounced
<1>5. ASSUME NEW k \in Keys, Collect(k) PROVE TypeInv'
  <2>1. /\ query' = [query EXCEPT ![k] = Blank] /\ ~query[k].fetching
        /\ UNCHANGED <<log, typed, timer, shown, queue>>
    BY <1>5 DEF Collect
  <2>2. Blank \in Queries /\ Blank.fetching = FALSE
    BY DEF Blank, Queries
  <2>3. query' \in [Keys -> Queries]
    BY <2>1, <2>2
  <2>4. \A j \in Keys : query'[j].fetching <=> query[j].fetching
    BY <2>1, <2>2
  <2>5. OneCall(query', queue')
    BY <2>1, <2>4 DEF OneCall
  <2> QED  BY <2>1, <2>3, <2>5
<1>6. ASSUME NEW e \in Entries, Record(e) PROVE TypeInv'
  BY <1>6, AuditLogAssumption DEF Record
<1>7. ASSUME Select PROVE TypeInv'
  <2>1. Head(queue) \in Calls
    BY <1>7, QueueTail DEF Select
  <2>2. Rows(Head(queue).key) \in -1 .. PageSize
    BY <2>1, RowsOfPage, AuditLogAssumption DEF Calls
  <2> QED  BY <1>7, <2>2, SelectOneCall DEF Select
<1>8. ASSUME Count PROVE TypeInv'
  <2>1. PICK d \in Queries :
           /\ d.fetching = FALSE
           /\ query' = [query EXCEPT ![Head(queue).key] = d]
    <3>1. PICK page \in Page :
             page = [rows |-> Head(queue).rows, total |-> Matching(Head(queue).key)]
      BY <1>8, CountTyped DEF Count
    <3>2. [data |-> page, fetching |-> FALSE] \in Queries
      BY DEF Queries
    <3> QED  BY <1>8, <3>1, <3>2 DEF Count
  <2>2. queue # <<>> /\ queue' = Tail(queue) /\ UNCHANGED <<log, typed, timer, shown>>
    BY <1>8 DEF Count
  <2>3. Head(queue).key \in Keys /\ Tail(queue) \in Seq(Calls)
    BY <2>2, QueueTail DEF Calls
  <2>4. /\ query' \in [Keys -> Queries] /\ ~query'[Head(queue).key].fetching
        /\ \A k \in Keys : k # Head(queue).key => query'[k] = query[k]
    BY <2>1, <2>3
  <2>5. OneCall(query', Tail(queue))
    BY <2>2, <2>4, ServeOneCall
  <2> QED  BY <2>2, <2>3, <2>4, <2>5
<1>9. ASSUME Fail PROVE TypeInv'
  <2>1. queue # <<>> /\ UNCHANGED <<log, typed, timer, shown>>
    BY <1>9 DEF Fail
  <2>2. Head(queue).key \in Keys /\ Tail(queue) \in Seq(Calls)
    BY <2>1, QueueTail DEF Calls
  <2>3. CASE queue' = Append(Tail(queue), Call(Head(queue).key, 1)) /\ UNCHANGED query
    <3>1. PICK c \in Calls : c = Call(Head(queue).key, 1) /\ c.key = Head(queue).key
      BY <2>2, CallType
    <3>2. OneCall(query, Append(Tail(queue), c))
      BY <2>1, <3>1, RetryOneCall
    <3>3. Append(Tail(queue), c) \in Seq(Calls)
      BY <2>2
    <3> QED  BY <2>1, <2>3, <3>1, <3>2, <3>3
  <2>4. CASE /\ queue' = Tail(queue)
             /\ query' = [query EXCEPT ![Head(queue).key].fetching = FALSE]
    <3>1. /\ query' \in [Keys -> Queries] /\ ~query'[Head(queue).key].fetching
          /\ \A k \in Keys : k # Head(queue).key => query'[k] = query[k]
      BY <2>2, <2>4 DEF Queries
    <3>2. OneCall(query', Tail(queue))
      BY <2>1, <3>1, ServeOneCall
    <3> QED  BY <2>1, <2>2, <2>4, <3>1, <3>2
  <2> QED  BY <1>9, <2>3, <2>4 DEF Fail
<1>10. ASSUME UNCHANGED vars PROVE TypeInv'
  BY <1>10 DEF vars
<1>11. ASSUME NEW o \in {k.offset : k \in Keys}, Turn(o) PROVE TypeInv'
  BY <1>3, <1>11
<1> QED  BY <1>1, <1>2, <1>4, <1>5, <1>6, <1>7, <1>8, <1>9, <1>10, <1>11 DEF Next, Serve

\* The number of calls for a query: of a set with at most one member.
LEMMA CountOfOne ==
    ASSUME NEW S, \A x, y \in S : x = y
    PROVE  Cardinality(S) = IF S = {} THEN 0 ELSE 1
<1>1. CASE S = {}
  BY <1>1, FS_EmptySet
<1>2. CASE S # {}
  <2>1. PICK x : S = {x}
    BY <1>2
  <2> QED  BY <1>2, <2>1, FS_Singleton
<1> QED  BY <1>1, <1>2

LEMMA TypedIsTypeOK == TypeInv => TypeOK
<1> SUFFICES ASSUME TypeInv PROVE TypeOK
  OBVIOUS
<1> USE DEF TypeInv
<1>1. log \in Seq(Entries) /\ Len(log) \in 0 .. MaxLog
  BY AuditLogAssumption
<1>2. ASSUME NEW k \in Keys
      PROVE  /\ query[k].data = None \/ query[k].data \in Page
             /\ Cardinality({i \in DOMAIN queue : queue[i].key = k})
                   = (IF query[k].fetching THEN 1 ELSE 0)
  <2>1. PICK S : S = {i \in DOMAIN queue : queue[i].key = k}
    OBVIOUS
  <2>2. \A x, y \in S : x = y
    BY <2>1 DEF OneCall
  <2>3. Cardinality(S) = IF S = {} THEN 0 ELSE 1
    BY <2>2, CountOfOne
  <2>4. query[k].fetching <=> S # {}
    BY <2>1 DEF OneCall
  <2>5. query[k].data = None \/ query[k].data \in Page
    BY DEF Queries
  <2> QED  BY <2>1, <2>3, <2>4, <2>5
<1>3. ASSUME NEW i \in DOMAIN queue PROVE queue[i].rows \in -1 .. PageSize
  <2>1. queue[i] \in Calls
    OBVIOUS
  <2> QED  BY <2>1 DEF Calls
<1> QED  BY <1>1, <1>2, <1>3 DEF TypeOK

\* Every variable of the audit log page keeps its type for any number of
\* entries, filters and queries, and whatever is typed, filtered and turned, a
\* query is being fetched exactly while one call for it is in the queue.
THEOREM AuditLogTypeCorrect == Spec => []TypeOK
<1>1. Spec => []TypeInv
  BY InitTyped, NextTyped, PTL DEF Spec
<1> QED  BY <1>1, TypedIsTypeOK, PTL

-----------------------------------------------------------------------------
(* What is asked for, what is on its way and what has arrived.             *)

LEMMA MatchingInt ==
    ASSUME TypeInv, NEW k
    PROVE  Matching(k) \in Nat
BY MatchingType DEF TypeInv

\* The same after a step.
LEMMA MatchingIntLater ==
    ASSUME TypeInv', NEW k
    PROVE  Matching(k)' \in Nat
<1>1. {i \in DOMAIN log' : /\ k.filter \in {None, log'[i].action}
                           /\ k.search \in {None, log'[i].text}} \in SUBSET DOMAIN log'
  OBVIOUS
<1> QED  BY <1>1, SomePositions DEF Matching, TypeInv

\* What a page must agree with only grows, so that it agrees for ever.
LEMMA HoldsLater ==
    ASSUME TypeInv, TypeInv', NEW k \in Keys, Matching(k) <= Matching(k)',
           NEW n \in Int, Holds(k, n)
    PROVE  Holds(k, n)'
<1>1. Matching(k) \in Int /\ Matching(k)' \in Int /\ k.offset \in Int
  BY MatchingInt, MatchingIntLater, KeyFields
<1> QED  BY <1>1 DEF Holds

LEMMA CountedLater ==
    ASSUME TypeInv, TypeInv', NEW k \in Keys, Matching(k) <= Matching(k)',
           NEW page \in Page, Counted(k, page)
    PROVE  Counted(k, page)'
<1>1. Matching(k) \in Int /\ Matching(k)' \in Int /\ page.total \in Int
  BY MatchingInt, MatchingIntLater, AuditLogAssumption DEF Page
<1> QED  BY <1>1 DEF Counted

\* LogInv is kept by a step that asks for nothing but pages within the log,
\* takes nothing but pages counted in it, and reads nothing but rows in it.
LEMMA LogKept ==
    ASSUME TypeInv, TypeInv', LogInv,
           \A k \in Keys : Matching(k) <= Matching(k)',
           \A k \in Keys : \/ Asked(k)' => Asked(k)
                           \/ k.offset > 0 => k.offset < Matching(k),
           \A k \in Keys : \/ query'[k].data = query[k].data
                           \/ query'[k].data = None
                           \/ query'[k].data \in Page /\ Counted(k, query'[k].data),
           \A i \in DOMAIN queue' :
              \/ queue'[i].rows = -1
              \/ \E j \in DOMAIN queue : queue'[i] = queue[j]
              \/ Holds(queue'[i].key, queue'[i].rows)
    PROVE  LogInv'
<1>1. ASSUME NEW k \in Keys, Asked(k)', k.offset > 0
      PROVE  k.offset < Matching(k)'
  <2>1. k.offset < Matching(k)
    BY <1>1 DEF LogInv, WithinLog
  <2> QED  BY <2>1, MatchingInt, MatchingIntLater, KeyFields
<1>2. ASSUME NEW k \in Keys, query'[k].data # None
      PROVE  Counted(k, query[k].data)'
  <2>1. PICK page : page = query'[k].data
    OBVIOUS
  <2>2. page \in Page
    BY <1>2, <2>1 DEF TypeInv, Queries
  <2>3. Counted(k, page)
    BY <1>2, <2>1 DEF LogInv
  <2>4. Counted(k, page)'
    BY <2>2, <2>3, CountedLater
  <2> QED  BY <2>1, <2>4 DEF Counted
<1>3. ASSUME NEW i \in DOMAIN queue', queue'[i].rows # -1
      PROVE  Holds(queue[i].key, queue[i].rows)'
  <2>1. PICK c \in Calls : c = queue'[i]
    BY DEF TypeInv
  <2>2. c.key \in Keys /\ c.rows \in Int
    BY AuditLogAssumption DEF Calls
  <2>3. Holds(c.key, c.rows)
    BY <1>3, <2>1 DEF LogInv
  <2>4. Holds(c.key, c.rows)'
    BY <2>2, <2>3, HoldsLater
  <2> QED  BY <2>1, <2>4 DEF Holds
<1> QED  BY <1>1, <1>2, <1>3 DEF LogInv, WithinLog

LEMMA InitLogInv == TypeInv /\ Init => LogInv
<1> SUFFICES ASSUME TypeInv, Init PROVE LogInv
  OBVIOUS
<1>1. \A k \in Keys : k # Start => query[k] = Blank
  BY DEF Init
<1>2. Start \in Keys /\ query[Start] = [Blank EXCEPT !.fetching = TRUE]
  BY DEF Init, TypeInv
<1>3. \A k \in Keys : query[k].data = None
  BY <1>1, <1>2 DEF Blank
<1>4. \A k \in Keys : Asked(k) => k = Start
  BY <1>1, <1>3 DEF Init, Asked, Blank
<1>5. Start.offset = 0
  BY DEF Start
<1>6. \A i \in DOMAIN queue : queue[i].rows = -1
  <2>1. queue = <<Call(Start, 0)>> /\ Call(Start, 0).rows = -1
    BY DEF Init, Call
  <2> QED  BY <2>1
<1> QED  BY <1>3, <1>4, <1>5, <1>6 DEF LogInv, WithinLog

\* A query is shown that lies within the log.
LEMMA ShowLogInv ==
    ASSUME TypeInv, TypeInv', LogInv, NEW k \in Keys, Show(k), UNCHANGED log,
           k.offset > 0 => k.offset < Matching(k)
    PROVE  LogInv'
<1>1. /\ shown' = k
      /\ \A j \in Keys : query'[j].data = query[j].data
      /\ \A j \in Keys : query'[j].fetching => query[j].fetching \/ j = k
      /\ \A i \in DOMAIN queue' :
            queue'[i].rows = -1 \/ (i \in DOMAIN queue /\ queue'[i] = queue[i])
  BY ShowEffect
<1>2. \A j \in Keys : j # k /\ Asked(j)' => Asked(j)
  BY <1>1 DEF Asked
<1>3. \A j \in Keys : Matching(j) <= Matching(j)'
  <2> TAKE j \in Keys
  <2> QED  BY MatchingSame, MatchingInt
<1> QED  BY <1>1, <1>2, <1>3, LogKept

LEMMA NextLogInv == TypeInv /\ TypeInv' /\ LogInv /\ [Next]_vars => LogInv'
<1> SUFFICES ASSUME TypeInv, TypeInv', LogInv, [Next]_vars PROVE LogInv'
  OBVIOUS
<1>0. UNCHANGED log => \A k \in Keys : Matching(k) <= Matching(k)'
  <2> SUFFICES ASSUME UNCHANGED log, NEW k \in Keys PROVE Matching(k) <= Matching(k)'
    OBVIOUS
  <2> QED  BY MatchingSame, MatchingInt
<1>1. CASE UNCHANGED <<log, shown, query, queue>>
  BY <1>0, <1>1, LogKept DEF Asked
<1>2. ASSUME NEW f \in Filters, HandleActionFilter(f) PROVE LogInv'
  <2>1. PICK k \in Keys : k = [shown EXCEPT !.filter = f, !.offset = 0] /\ k.offset = 0
    BY FilteredKey DEF TypeInv
  <2>2. Show(k) /\ UNCHANGED log
    BY <1>2, <2>1 DEF HandleActionFilter
  <2>3. k.offset > 0 => k.offset < Matching(k)
    BY <2>1
  <2> QED  BY <2>2, <2>3, ShowLogInv
<1>3. ASSUME NEW j \in Keys, Turn(j.offset) PROVE LogInv'
  <2>1. PICK k \in Keys : k = [shown EXCEPT !.offset = j.offset]
    BY TurnedKey DEF TypeInv
  <2>2. k.offset = j.offset /\ Matching(k) = Matching(shown)
    BY <2>1, TurnedKey DEF TypeInv, Matching
  <2>3. PICK page \in Page : page = query[shown].data /\ Counted(shown, page)
    BY <1>3 DEF Turn, OnScreen, TypeInv, Queries, LogInv
  <2>4. /\ page.total \in Nat /\ page.total <= Matching(shown)
        /\ shown.offset \in Nat /\ Matching(shown) \in Nat /\ k.offset \in Nat
        /\ PageSize \in Nat \ {0}
    BY <2>3, MatchingInt, KeyFields, AuditLogAssumption DEF Counted, Page, TypeInv
  <2>5. CASE j.offset = shown.offset - PageSize
    <3>1. shown.offset > 0
      BY <2>2, <2>4, <2>5
    <3>2. shown.offset < Matching(shown)
      BY <3>1 DEF LogInv, WithinLog, Asked, TypeInv
    <3>3. k.offset < Matching(k)
      BY <2>2, <2>4, <2>5, <3>2
    <3> QED  BY <1>3, <2>1, <3>3, ShowLogInv DEF Turn
  <2>6. CASE j.offset < page.total
    <3>1. k.offset < Matching(k)
      BY <2>2, <2>4, <2>6
    <3> QED  BY <1>3, <2>1, <3>1, ShowLogInv DEF Turn
  <2> QED  BY <1>3, <2>3, <2>5, <2>6 DEF Turn, OnScreen
<1>4. ASSUME Debounced PROVE LogInv'
  <2>1. PICK k \in Keys : k = [shown EXCEPT !.search = typed, !.offset = 0] /\ k.offset = 0
    BY SearchedKey DEF TypeInv
  <2>2. Show(k) /\ UNCHANGED log
    BY <1>4, <2>1 DEF Debounced
  <2>3. k.offset > 0 => k.offset < Matching(k)
    BY <2>1
  <2> QED  BY <2>2, <2>3, ShowLogInv
<1>5. ASSUME NEW k \in Keys, Collect(k) PROVE LogInv'
  <2>1. /\ query' = [query EXCEPT ![k] = Blank] /\ UNCHANGED <<log, shown, queue>>
        /\ Blank.data = None /\ Blank.fetching = FALSE
    BY <1>5 DEF Collect, Blank
  <2>2. \A j \in Keys : query'[j] = query[j] \/ query'[j] = Blank
    BY <2>1 DEF TypeInv
  <2>3. \A j \in Keys : Asked(j)' => Asked(j)
    BY <2>1, <2>2 DEF Asked
  <2> QED  BY <1>0, <2>1, <2>2, <2>3, LogKept
<1>6. ASSUME NEW e \in Entries, Record(e) PROVE LogInv'
  <2>1. \A k \in Keys : Matching(k) <= Matching(k)'
    <3> TAKE k \in Keys
    <3> QED  BY <1>6, MatchingGrows DEF Record, TypeInv
  <2> QED  BY <1>6, <2>1, LogKept DEF Record, Asked
<1>7. ASSUME Select PROVE LogInv'
  <2>1. Head(queue) \in Calls /\ 1 \in DOMAIN queue /\ Head(queue) = queue[1]
    BY <1>7, QueueTail DEF Select, TypeInv
  <2>2. PICK k \in Keys : k = Head(queue).key
    BY <2>1 DEF Calls
  <2>3. Asked(k)
    BY <2>1, <2>2 DEF Asked, TypeInv, OneCall
  <2>4. k.offset > 0 => k.offset < Matching(k)
    BY <2>3 DEF LogInv, WithinLog
  <2>5. Holds(k, Rows(k))
    BY <2>4, RowsOfPage DEF Holds, TypeInv
  <2>6. /\ queue' = [queue EXCEPT ![1].rows = Rows(k)] /\ UNCHANGED <<log, shown, query>>
    BY <1>7, <2>2 DEF Select
  <2>7. ASSUME NEW i \in DOMAIN queue'
        PROVE  \/ \E j \in DOMAIN queue : queue'[i] = queue[j]
               \/ Holds(queue'[i].key, queue'[i].rows)
    <3>1. CASE i = 1
      <4>1. queue'[i].key = k /\ queue'[i].rows = Rows(k)
        BY <2>1, <2>2, <2>6, <3>1 DEF Calls
      <4> QED  BY <4>1, <2>5
    <3>2. CASE i # 1
      BY <2>6, <3>2
    <3> QED  BY <3>1, <3>2
  <2> QED  BY <1>0, <2>6, <2>7, LogKept DEF Asked
<1>8. ASSUME Count PROVE LogInv'
  <2>1. Head(queue) \in Calls /\ 1 \in DOMAIN queue /\ Head(queue) = queue[1]
    BY <1>8, QueueTail DEF Count, TypeInv
  <2>2. PICK k \in Keys : k = Head(queue).key
    BY <2>1 DEF Calls
  <2>3. PICK page \in Page : page = [rows |-> Head(queue).rows, total |-> Matching(k)]
    BY <1>8, <2>2, CountTyped DEF Count
  <2>4. Holds(k, page.rows) /\ page.total = Matching(k)
    BY <1>8, <2>1, <2>2, <2>3 DEF Count, LogInv
  <2>5. Counted(k, page)
    BY <2>4, MatchingInt DEF Holds, Counted
  <2>6. /\ query' = [query EXCEPT ![k] = [data |-> page, fetching |-> FALSE]]
        /\ queue' = Tail(queue) /\ UNCHANGED <<log, shown>>
    BY <1>8, <2>2, <2>3 DEF Count
  <2>7. /\ query'[k].data = page
        /\ \A j \in Keys : j # k => query'[j] = query[j]
    BY <2>6 DEF TypeInv
  <2>8. \A j \in Keys : Asked(j)' => Asked(j)
    <3>1. Asked(k)
      BY <2>1, <2>2 DEF Asked, TypeInv, OneCall
    <3>2. \A j \in Keys : j # k /\ Asked(j)' => Asked(j)
      BY <2>6, <2>7 DEF Asked
    <3> QED  BY <3>1, <3>2
  <2>9. \A i \in DOMAIN queue' : \E j \in DOMAIN queue : queue'[i] = queue[j]
    BY <1>8, <2>6, QueueTail DEF Count, TypeInv
  <2>10. \A j \in Keys : \/ query'[j].data = query[j].data
                         \/ query'[j].data \in Page /\ Counted(j, query'[j].data)
    BY <2>5, <2>7
  <2> QED  BY <1>0, <2>6, <2>8, <2>9, <2>10, LogKept
<1>9. ASSUME Fail PROVE LogInv'
  <2>1. queue # <<>> /\ UNCHANGED <<log, shown>>
    BY <1>9 DEF Fail
  <2>2. /\ Head(queue).key \in Keys /\ Tail(queue) \in Seq(Calls)
        /\ \A i \in DOMAIN Tail(queue) : i + 1 \in DOMAIN queue /\ Tail(queue)[i] = queue[i + 1]
    BY <2>1, QueueTail DEF Calls, TypeInv
  <2>3. CASE queue' = Append(Tail(queue), Call(Head(queue).key, 1)) /\ UNCHANGED query
    <3>1. PICK c \in Calls : c = Call(Head(queue).key, 1) /\ c.rows = -1
      BY <2>2, CallType
    <3>2. \A i \in DOMAIN queue' :
             queue'[i].rows = -1 \/ \E j \in DOMAIN queue : queue'[i] = queue[j]
      <4> TAKE i \in DOMAIN queue'
      <4>1. queue' = Append(Tail(queue), c)
        BY <2>3, <3>1
      <4>2. CASE i \in DOMAIN Tail(queue)
        BY <2>2, <4>1, <4>2, QueueAppend
      <4>3. CASE i = Len(Tail(queue)) + 1
        BY <2>2, <3>1, <4>1, <4>3, QueueAppend
      <4> QED  BY <2>2, <4>1, <4>2, <4>3, QueueAppend
    <3> QED  BY <1>0, <2>1, <2>3, <3>2, LogKept DEF Asked
  <2>4. CASE /\ queue' = Tail(queue)
             /\ query' = [query EXCEPT ![Head(queue).key].fetching = FALSE]
    <3>1. \A k \in Keys : /\ query'[k].data = query[k].data
                          /\ query'[k].fetching => query[k].fetching
      BY <2>2, <2>4 DEF TypeInv, Queries
    <3>2. \A k \in Keys : Asked(k)' => Asked(k)
      BY <2>1, <3>1 DEF Asked
    <3>3. \A i \in DOMAIN queue' : \E j \in DOMAIN queue : queue'[i] = queue[j]
      BY <2>2, <2>4
    <3> QED  BY <1>0, <2>1, <3>1, <3>2, <3>3, LogKept
  <2> QED  BY <1>9, <2>3, <2>4 DEF Fail
<1>10. ASSUME NEW t \in Searches, Type(t) PROVE LogInv'
  BY <1>1, <1>10 DEF Type
<1>11. ASSUME UNCHANGED vars PROVE LogInv'
  BY <1>1, <1>11 DEF vars
<1>12. ASSUME NEW o \in {k.offset : k \in Keys}, Turn(o) PROVE LogInv'
  BY <1>3, <1>12
<1> QED
  BY <1>2, <1>4, <1>5, <1>6, <1>7, <1>8, <1>9, <1>10, <1>11, <1>12 DEF Next, Serve

LEMMA LogInvariant == Spec => [](TypeInv /\ LogInv)
<1>1. Init => TypeInv /\ LogInv
  BY InitTyped, InitLogInv
<1>2. TypeInv /\ LogInv /\ [Next]_vars => (TypeInv /\ LogInv)'
  BY NextTyped, NextLogInv
<1> QED  BY <1>1, <1>2, PTL DEF Spec

\* The number a page comes with counts at least the entries before and on it,
\* however many entries are added between the SELECT of the rows and the one
\* that counts (audit/service.py:58-64).
THEOREM TotalsCoverRows == Spec => []TotalCoversRows
<1>1. TypeInv /\ LogInv => TotalCoversRows
  <2> SUFFICES ASSUME TypeInv, LogInv, NEW k \in Keys,
                      query[k].data # None, query[k].data.rows > 0
               PROVE  query[k].data.total >= k.offset + query[k].data.rows
    BY DEF TotalCoversRows
  <2>1. PICK page \in Page : page = query[k].data /\ Counted(k, page)
    BY DEF TypeInv, Queries, LogInv
  <2>2. page.total \in Int /\ page.rows \in Int /\ k.offset \in Int
    BY KeyFields, AuditLogAssumption DEF Page
  <2> QED  BY <2>1, <2>2 DEF Counted
<1> QED  BY <1>1, LogInvariant, PTL

\* Whatever is typed, filtered and turned in whatever order, with whatever
\* delay: the user is never on a page past the end of the filtered log
\* (audit-log-client.tsx:19-42).
THEOREM NoPagePastTheEnd == Spec => []NeverPastTheEnd
<1>1. TypeInv /\ LogInv => NeverPastTheEnd
  BY DEF NeverPastTheEnd, OnScreen, TypeInv, LogInv, Counted
<1> QED  BY <1>1, LogInvariant, PTL
=============================================================================
