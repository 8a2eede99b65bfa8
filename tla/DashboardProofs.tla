-------------------------- MODULE DashboardProofs ---------------------------
(***************************************************************************)
(* Theorems about the dashboard, for any number of runs of the smoke test, *)
(* any number of faults and any queries of an administrator.               *)
(*                                                                         *)
(* What a run has made of its item is the answers' doing, and answers come *)
(* once: that a run has exactly one call under way while it waits, and     *)
(* none at other times, is most of the argument.                           *)
(***************************************************************************)
EXTENDS Dashboard, TLAPS, FiniteSetTheorems

Data == Standings \cup {"ok", None}
Cached == [data : Data, fetching : BOOLEAN]
Results == [pc : PCs, created : BOOLEAN, tally : {"passed", "skipped", "failed"}]

\* The calls of the overview's queries, and those of the smoke test.
QueryCalls == [op : Queries, run : {0}, tries : {0, 1}, heard : BOOLEAN]
RunCalls == [op : Crud, run : Runs, tries : {0}, heard : {TRUE}]
Calls == QueryCalls \cup RunCalls

\* At most one call is listened to by each query, and one is exactly while the
\* query is being fetched.
Fetches(c, q) == c.op = q /\ c.heard
Listened(qy, qu) ==
    /\ \A q \in Queries : \A i, j \in DOMAIN qu :
          Fetches(qu[i], q) /\ Fetches(qu[j], q) => i = j
    /\ \A q \in Queries : qy[q].fetching <=> \E i \in DOMAIN qu : Fetches(qu[i], q)

\* At most one call is made by each run at a time, one exactly while the run
\* waits for an answer, and it is the call of the step where the run is.
Stepping(rn, qu) ==
    /\ \A r \in Runs : \A i, j \in DOMAIN qu : qu[i].run = r /\ qu[j].run = r => i = j
    /\ \A r \in Runs : \A i \in DOMAIN qu : qu[i].run = r => rn[r].pc = qu[i].op
    /\ \A r \in Runs : rn[r].pc \in Crud => \E i \in DOMAIN qu : qu[i].run = r

PlaceInv ==
    /\ page \in Pages \cup {"out"} /\ view \in {"shown", "denied", "error"}
    /\ leaving \in BOOLEAN /\ panel \in Runs \cup {None}

AccountInv ==
    /\ token \in {"none", "good", "expired", "refused"}
    /\ standing \in Standings /\ faults \in 0 .. MaxFaults

CacheInv ==
    /\ query \in [Queries -> Cached]
    /\ queue \in Seq(Calls)
    /\ Listened(query, queue)

RunInv ==
    /\ run \in [Runs -> Results]
    /\ item \in [Runs -> Items] /\ left \in [Runs -> Causes]
    /\ Stepping(run, queue)

TypeInv == PlaceInv /\ AccountInv /\ CacheInv /\ RunInv

\* An item of run r that stays does so for one of the causes, and the summary
\* says that something failed, unless a deletion is rolled back.
Accounted(r) ==
    \/ left[r] = "deletion rolled back"
    \/ left[r] \in Uncleaned /\ run[r].tally = "failed"

\* A run has no item before it creates one.  Later an item may be there while
\* the run knows of it, and is then cleaned up because its deletion has failed.
Cleaned(r) ==
    run[r].pc # "killed" =>
        /\ run[r].pc \in {"idle", "auth", "create"} => item[r] = "none" /\ ~run[r].created
        /\ run[r].pc \in {"list", "health", "cleanup"} /\ run[r].created
              => run[r].tally = "failed"
        /\ run[r].pc = "cleanup" => run[r].created
        /\ item[r] = "back" => Accounted(r)
        /\ item[r] \in {"pending", "there"} /\ (~run[r].created \/ run[r].pc = "done")
              => Accounted(r)

\* A run that has passed its deletion without a failure has deleted its item.
Truthful(r) ==
    run[r].tally = "passed" /\ run[r].pc \in {"list", "health", "cleanup", "done"}
        => item[r] \in {"deleting", "gone", "back"} /\ ~run[r].created

ItemInv == \A r \in Runs : Cleaned(r) /\ Truthful(r)
-----------------------------------------------------------------------------
(* Calls and the queue.                                                    *)

\* The queries and the steps of the smoke test are different calls.
LEMMA OpsApart == Queries \cap Crud = {} /\ 0 \notin Runs /\ IsFiniteSet(Queries)
<1>1. Queries \cap Crud = {} /\ 0 \notin Runs
  BY DashboardAssumption DEF Queries, Crud
<1>2. Queries \in SUBSET {"currentUser", "systemInfo", "adminUsersCount", "auditCount",
                          "recentActivity"}
  BY DashboardAssumption DEF Queries
<1>3. IsFiniteSet({"currentUser", "systemInfo", "adminUsersCount", "auditCount",
                   "recentActivity"})
  <2>1. IsFiniteSet({"currentUser"})
    BY FS_Singleton
  <2>2. IsFiniteSet({"currentUser"} \cup {"systemInfo"})
    BY <2>1, FS_AddElement
  <2>3. IsFiniteSet({"currentUser", "systemInfo"} \cup {"adminUsersCount"})
    <3>1. {"currentUser"} \cup {"systemInfo"} = {"currentUser", "systemInfo"}
      OBVIOUS
    <3> QED  BY <2>2, <3>1, FS_AddElement
  <2>4. IsFiniteSet({"currentUser", "systemInfo", "adminUsersCount"} \cup {"auditCount"})
    <3>1. {"currentUser", "systemInfo"} \cup {"adminUsersCount"}
             = {"currentUser", "systemInfo", "adminUsersCount"}
      OBVIOUS
    <3> QED  BY <2>3, <3>1, FS_AddElement
  <2>5. IsFiniteSet({"currentUser", "systemInfo", "adminUsersCount", "auditCount"}
                       \cup {"recentActivity"})
    <3>1. {"currentUser", "systemInfo", "adminUsersCount"} \cup {"auditCount"}
             = {"currentUser", "systemInfo", "adminUsersCount", "auditCount"}
      OBVIOUS
    <3> QED  BY <2>4, <3>1, FS_AddElement
  <2>6. {"currentUser", "systemInfo", "adminUsersCount", "auditCount"} \cup {"recentActivity"}
           = {"currentUser", "systemInfo", "adminUsersCount", "auditCount", "recentActivity"}
    OBVIOUS
  <2> QED  BY <2>5, <2>6
<1>4. IsFiniteSet(Queries)
  BY <1>2, <1>3, FS_Subset
<1> QED  BY <1>1, <1>4

\* A call is of a query or of a run, and is known by its op as by its run.
LEMMA CallKinds ==
    ASSUME NEW c \in Calls
    PROVE  /\ c.op \in Queries <=> c.run = 0
           /\ c.op \in Crud <=> c.run \in Runs
           /\ c.op \in Queries \cup Crud /\ c.heard \in BOOLEAN
           /\ c.run \in Runs => c.heard
           /\ c.tries \in {0, 1}
BY OpsApart DEF Calls, QueryCalls, RunCalls

LEMMA CallType ==
    /\ \A q \in Queries : /\ Call(q, 0) \in QueryCalls
                          /\ Call(q, 0).op = q /\ Call(q, 0).run = 0 /\ Call(q, 0).heard
    /\ \A o \in Crud, r \in Runs : /\ Call(o, r) \in RunCalls
                                   /\ Call(o, r).op = o /\ Call(o, r).run = r
                                   /\ Call(o, r).heard
BY DEF Call, QueryCalls, RunCalls

\* The queue without its first call.
LEMMA QueueTail ==
    ASSUME NEW qu \in Seq(Calls), qu # <<>>
    PROVE  /\ Head(qu) \in Calls /\ Head(qu) = qu[1] /\ 1 \in DOMAIN qu
           /\ Tail(qu) \in Seq(Calls)
           /\ DOMAIN Tail(qu) = 1 .. Len(qu) - 1
           /\ \A i \in DOMAIN Tail(qu) : /\ i \in Int /\ i > 0 /\ i + 1 \in DOMAIN qu
                                         /\ Tail(qu)[i] = qu[i + 1]
           /\ \A i \in DOMAIN qu :
                 i # 1 => /\ i \in Int /\ i - 1 \in DOMAIN Tail(qu)
                          /\ qu[i] = Tail(qu)[i - 1]
OBVIOUS

\* The queue with one more call.
LEMMA QueueAppend ==
    ASSUME NEW qu \in Seq(Calls), NEW c \in Calls
    PROVE  /\ Append(qu, c) \in Seq(Calls)
           /\ Len(qu) + 1 \in DOMAIN Append(qu, c)
           /\ Append(qu, c)[Len(qu) + 1] = c
           /\ \A i \in DOMAIN qu : i \in DOMAIN Append(qu, c) /\ Append(qu, c)[i] = qu[i]
           /\ \A i \in DOMAIN Append(qu, c) : i \in DOMAIN qu \/ i = Len(qu) + 1
           /\ Len(qu) + 1 \notin DOMAIN qu
OBVIOUS

\* The queue with more calls of queries.
LEMMA QueueConcat ==
    ASSUME NEW qu \in Seq(Calls), NEW s \in Seq(QueryCalls)
    PROVE  /\ qu \o s \in Seq(Calls)
           /\ \A i \in DOMAIN qu : i \in DOMAIN (qu \o s) /\ (qu \o s)[i] = qu[i]
           /\ \A i \in DOMAIN s : /\ Len(qu) + i \in DOMAIN (qu \o s)
                                  /\ (qu \o s)[Len(qu) + i] = s[i]
           /\ \A i \in DOMAIN (qu \o s) :
                 i \in DOMAIN qu \/ \E j \in DOMAIN s : i = Len(qu) + j
<1>1. s \in Seq(Calls)
  BY DEF Calls
<1>2. qu \o s \in Seq(Calls)
  BY <1>1
<1>3. \A i \in DOMAIN qu : i \in DOMAIN (qu \o s) /\ (qu \o s)[i] = qu[i]
  BY <1>1
<1>4. \A i \in DOMAIN s : /\ Len(qu) + i \in DOMAIN (qu \o s)
                          /\ (qu \o s)[Len(qu) + i] = s[i]
  BY <1>1
<1>5. ASSUME NEW i \in DOMAIN (qu \o s), i \notin DOMAIN qu
      PROVE  \E j \in DOMAIN s : i = Len(qu) + j
  <2>1. i - Len(qu) \in DOMAIN s /\ i = Len(qu) + (i - Len(qu))
    BY <1>1, <1>5
  <2> QED  BY <2>1
<1> QED  BY <1>2, <1>3, <1>4, <1>5

-----------------------------------------------------------------------------
(* The queries listen to their calls.                                      *)

LEMMA ListenedTail ==
    ASSUME NEW qy, NEW y2, NEW qu \in Seq(Calls), Listened(qy, qu), qu # <<>>,
           \A q \in Queries : IF Fetches(Head(qu), q) THEN ~y2[q].fetching
                              ELSE y2[q].fetching = qy[q].fetching
    PROVE  Listened(y2, Tail(qu))
<1> DEFINE q2 == Tail(qu)
<1>1. /\ Head(qu) = qu[1] /\ 1 \in DOMAIN qu
      /\ \A i \in DOMAIN q2 : i \in Int /\ i > 0 /\ i + 1 \in DOMAIN qu /\ q2[i] = qu[i + 1]
      /\ \A i \in DOMAIN qu :
            i # 1 => i \in Int /\ i - 1 \in DOMAIN q2 /\ qu[i] = q2[i - 1]
  BY QueueTail
<1> HIDE DEF q2
<1>2. ASSUME NEW q \in Queries, NEW i \in DOMAIN q2, NEW j \in DOMAIN q2,
             Fetches(q2[i], q), Fetches(q2[j], q)
      PROVE  i = j
  <2>1. i + 1 = j + 1
    BY <1>1, <1>2 DEF Listened
  <2> QED  BY <1>1, <2>1
<1>3. ASSUME NEW q \in Queries
      PROVE  y2[q].fetching <=> \E i \in DOMAIN q2 : Fetches(q2[i], q)
  <2>1. CASE Fetches(Head(qu), q)
    <3>1. ASSUME NEW i \in DOMAIN q2, Fetches(q2[i], q) PROVE FALSE
      <4>1. i + 1 = 1
        BY <1>1, <2>1, <3>1 DEF Listened
      <4> QED  BY <1>1, <4>1
    <3> QED  BY <2>1, <3>1
  <2>2. CASE ~Fetches(Head(qu), q)
    <3>1. y2[q].fetching <=> \E i \in DOMAIN qu : Fetches(qu[i], q)
      BY <2>2 DEF Listened
    <3>2. ASSUME NEW i \in DOMAIN qu, Fetches(qu[i], q)
          PROVE  \E j \in DOMAIN q2 : Fetches(q2[j], q)
      <4>1. i # 1
        BY <1>1, <2>2, <3>2
      <4> QED  BY <1>1, <3>2, <4>1
    <3>3. ASSUME NEW i \in DOMAIN q2, Fetches(q2[i], q)
          PROVE  \E j \in DOMAIN qu : Fetches(qu[j], q)
      BY <1>1, <3>3
    <3> QED  BY <3>1, <3>2, <3>3
  <2> QED  BY <2>1, <2>2
<1>4. Listened(y2, q2)
  BY <1>2, <1>3 DEF Listened
<1> QED  BY <1>4 DEF q2

LEMMA ListenedAppend ==
    ASSUME NEW qy, NEW y2, NEW qu \in Seq(Calls), Listened(qy, qu), NEW c \in Calls,
           \A q \in Queries : IF Fetches(c, q) THEN ~qy[q].fetching /\ y2[q].fetching
                              ELSE y2[q].fetching = qy[q].fetching
    PROVE  Listened(y2, Append(qu, c))
<1> DEFINE q2 == Append(qu, c)
           n == Len(qu) + 1
<1>1. /\ n \in DOMAIN q2 /\ q2[n] = c
      /\ \A i \in DOMAIN qu : i \in DOMAIN q2 /\ q2[i] = qu[i]
      /\ \A i \in DOMAIN q2 : i \in DOMAIN qu \/ i = n
  BY QueueAppend
<1> HIDE DEF q2, n
<1>2. \A q \in Queries : Fetches(c, q) => \A i \in DOMAIN qu : ~Fetches(qu[i], q)
  BY DEF Listened
<1>3. \A q \in Queries : \A i, j \in DOMAIN q2 :
         Fetches(q2[i], q) /\ Fetches(q2[j], q) => i = j
  BY <1>1, <1>2 DEF Listened
<1>4. ASSUME NEW q \in Queries
      PROVE  y2[q].fetching <=> \E i \in DOMAIN q2 : Fetches(q2[i], q)
  <2>1. CASE Fetches(c, q)
    BY <1>1, <2>1
  <2>2. CASE ~Fetches(c, q)
    <3>1. y2[q].fetching <=> \E i \in DOMAIN qu : Fetches(qu[i], q)
      BY <2>2 DEF Listened
    <3> QED  BY <1>1, <2>2, <3>1
  <2> QED  BY <2>1, <2>2
<1>5. Listened(y2, q2)
  BY <1>3, <1>4 DEF Listened
<1> QED  BY <1>5 DEF q2

\* The queries of T start, and S is their calls.
LEMMA ListenedConcat ==
    ASSUME NEW qy, NEW y2, NEW qu \in Seq(Calls), Listened(qy, qu),
           NEW T \in SUBSET Queries, NEW s \in Seq(QueryCalls),
           \A i \in DOMAIN s : s[i].heard /\ s[i].op \in T,
           \A i, j \in DOMAIN s : s[i].op = s[j].op => i = j,
           \A q \in T : \E i \in DOMAIN s : s[i].op = q,
           \A q \in Queries : IF q \in T THEN ~qy[q].fetching /\ y2[q].fetching
                              ELSE y2[q].fetching = qy[q].fetching
    PROVE  Listened(y2, qu \o s)
<1> DEFINE q2 == qu \o s
           n == Len(qu)
<1>1. /\ \A i \in DOMAIN qu : i \in DOMAIN q2 /\ q2[i] = qu[i]
      /\ \A i \in DOMAIN s : n + i \in DOMAIN q2 /\ q2[n + i] = s[i]
      /\ \A i \in DOMAIN q2 : i \in DOMAIN qu \/ \E j \in DOMAIN s : i = n + j
  BY QueueConcat
<1> HIDE DEF q2, n
<1>2. \A q \in Queries : q \in T => \A i \in DOMAIN qu : ~Fetches(qu[i], q)
  BY DEF Listened
<1>3. \A q \in Queries : \A i \in DOMAIN s : Fetches(s[i], q) <=> q = s[i].op
  BY DEF Fetches
<1>4. ASSUME NEW q \in Queries, NEW i \in DOMAIN q2, NEW j \in DOMAIN q2,
             Fetches(q2[i], q), Fetches(q2[j], q)
      PROVE  i = j
  <2>1. CASE q \in T
    <3>1. PICK a \in DOMAIN s : i = n + a
      BY <1>1, <1>2, <1>4, <2>1
    <3>2. PICK b \in DOMAIN s : j = n + b
      BY <1>1, <1>2, <1>4, <2>1
    <3>3. s[a].op = q /\ s[b].op = q
      BY <1>1, <1>3, <1>4, <3>1, <3>2
    <3> QED  BY <3>1, <3>2, <3>3
  <2>2. CASE q \notin T
    <3>1. i \in DOMAIN qu /\ j \in DOMAIN qu
      BY <1>1, <1>3, <1>4, <2>2
    <3> QED  BY <1>1, <1>4, <3>1 DEF Listened
  <2> QED  BY <2>1, <2>2
<1>5. ASSUME NEW q \in Queries
      PROVE  y2[q].fetching <=> \E i \in DOMAIN q2 : Fetches(q2[i], q)
  <2>1. CASE q \in T
    <3>1. PICK i \in DOMAIN s : s[i].op = q
      BY <2>1
    <3> QED  BY <1>1, <1>3, <2>1, <3>1
  <2>2. CASE q \notin T
    <3>1. y2[q].fetching <=> \E i \in DOMAIN qu : Fetches(qu[i], q)
      BY <2>2 DEF Listened
    <3>2. ASSUME NEW i \in DOMAIN q2, Fetches(q2[i], q)
          PROVE  \E j \in DOMAIN qu : Fetches(qu[j], q)
      BY <1>1, <1>3, <2>2, <3>2
    <3> QED  BY <1>1, <3>1, <3>2
  <2> QED  BY <2>1, <2>2
<1>6. Listened(y2, q2)
  BY <1>4, <1>5 DEF Listened
<1> QED  BY <1>6 DEF q2

-----------------------------------------------------------------------------
(* The runs wait for their calls.                                          *)

LEMMA SteppingTail ==
    ASSUME NEW rn, NEW r2, NEW qu \in Seq(Calls), Stepping(rn, qu), qu # <<>>,
           \A r \in Runs : IF Head(qu).run = r THEN r2[r].pc \notin Crud
                           ELSE r2[r].pc = rn[r].pc
    PROVE  Stepping(r2, Tail(qu))
<1> DEFINE q2 == Tail(qu)
<1>1. /\ Head(qu) = qu[1] /\ 1 \in DOMAIN qu
      /\ \A i \in DOMAIN q2 : i \in Int /\ i > 0 /\ i + 1 \in DOMAIN qu /\ q2[i] = qu[i + 1]
      /\ \A i \in DOMAIN qu :
            i # 1 => i \in Int /\ i - 1 \in DOMAIN q2 /\ qu[i] = q2[i - 1]
  BY QueueTail
<1> HIDE DEF q2
<1>2. ASSUME NEW r \in Runs, NEW i \in DOMAIN q2, NEW j \in DOMAIN q2,
             q2[i].run = r, q2[j].run = r
      PROVE  i = j
  <2>1. i + 1 = j + 1
    BY <1>1, <1>2 DEF Stepping
  <2> QED  BY <1>1, <2>1
<1>3. ASSUME NEW r \in Runs, NEW i \in DOMAIN q2, q2[i].run = r
      PROVE  Head(qu).run # r
  <2>1. Head(qu).run = r => i + 1 = 1
    BY <1>1, <1>3 DEF Stepping
  <2> QED  BY <1>1, <2>1
<1>4. ASSUME NEW r \in Runs, NEW i \in DOMAIN q2, q2[i].run = r
      PROVE  r2[r].pc = q2[i].op
  <2>1. r2[r].pc = rn[r].pc
    BY <1>3, <1>4
  <2> QED  BY <1>1, <1>4, <2>1 DEF Stepping
<1>5. ASSUME NEW r \in Runs, r2[r].pc \in Crud
      PROVE  \E i \in DOMAIN q2 : q2[i].run = r
  <2>1. Head(qu).run # r /\ r2[r].pc = rn[r].pc
    BY <1>5
  <2>2. PICK i \in DOMAIN qu : qu[i].run = r
    BY <1>5, <2>1 DEF Stepping
  <2>3. i # 1
    BY <1>1, <2>1, <2>2
  <2> QED  BY <1>1, <2>2, <2>3
<1>6. Stepping(r2, q2)
  BY <1>2, <1>4, <1>5 DEF Stepping
<1> QED  BY <1>6 DEF q2

LEMMA SteppingAppend ==
    ASSUME NEW rn, NEW r2, NEW qu \in Seq(Calls), Stepping(rn, qu), NEW c \in Calls,
           \A r \in Runs : IF c.run = r THEN rn[r].pc \notin Crud /\ r2[r].pc = c.op
                           ELSE r2[r].pc = rn[r].pc
    PROVE  Stepping(r2, Append(qu, c))
<1> DEFINE q2 == Append(qu, c)
           n == Len(qu) + 1
<1>1. /\ n \in DOMAIN q2 /\ q2[n] = c
      /\ \A i \in DOMAIN qu : i \in DOMAIN q2 /\ q2[i] = qu[i]
      /\ \A i \in DOMAIN q2 : i \in DOMAIN qu \/ i = n
  BY QueueAppend
<1> HIDE DEF q2, n
<1>2. ASSUME NEW r \in Runs, c.run = r, NEW i \in DOMAIN qu PROVE qu[i].run # r
  <2>1. qu[i] \in Calls
    OBVIOUS
  <2>2. qu[i].run = r => qu[i].op \in Crud /\ rn[r].pc = qu[i].op
    BY <2>1, CallKinds DEF Stepping
  <2> QED  BY <1>2, <2>2
<1>3. \A r \in Runs : \A i, j \in DOMAIN q2 : q2[i].run = r /\ q2[j].run = r => i = j
  BY <1>1, <1>2 DEF Stepping
<1>4. \A r \in Runs : \A i \in DOMAIN q2 : q2[i].run = r => r2[r].pc = q2[i].op
  BY <1>1, <1>2 DEF Stepping
<1>5. \A r \in Runs : r2[r].pc \in Crud => \E i \in DOMAIN q2 : q2[i].run = r
  BY <1>1 DEF Stepping
<1>6. Stepping(r2, q2)
  BY <1>3, <1>4, <1>5 DEF Stepping
<1> QED  BY <1>6 DEF q2

LEMMA SteppingConcat ==
    ASSUME NEW rn, NEW qu \in Seq(Calls), Stepping(rn, qu), NEW s \in Seq(QueryCalls)
    PROVE  Stepping(rn, qu \o s)
<1> DEFINE q2 == qu \o s
           n == Len(qu)
<1>1. /\ \A i \in DOMAIN qu : i \in DOMAIN q2 /\ q2[i] = qu[i]
      /\ \A i \in DOMAIN s : n + i \in DOMAIN q2 /\ q2[n + i] = s[i]
      /\ \A i \in DOMAIN q2 : i \in DOMAIN qu \/ \E j \in DOMAIN s : i = n + j
  BY QueueConcat
<1>2. \A i \in DOMAIN s : s[i].run \notin Runs
  <2> TAKE i \in DOMAIN s
  <2>1. s[i] \in QueryCalls
    OBVIOUS
  <2> QED  BY <2>1, OpsApart DEF QueryCalls
<1> HIDE DEF q2, n
<1>3. \A r \in Runs : \A i \in DOMAIN q2 : q2[i].run = r => i \in DOMAIN qu /\ q2[i] = qu[i]
  BY <1>1, <1>2
<1>4. Stepping(rn, q2)
  BY <1>1, <1>3 DEF Stepping
<1> QED  BY <1>4 DEF q2

\* A run that waited for no answer, and waits for none, moves.
LEMMA SteppingSame ==
    ASSUME NEW rn, NEW r2, NEW qu \in Seq(Calls), Stepping(rn, qu),
           \A r \in Runs : \/ r2[r].pc = rn[r].pc
                           \/ rn[r].pc \notin Crud /\ r2[r].pc \notin Crud
    PROVE  Stepping(r2, qu)
<1>1. ASSUME NEW r \in Runs, NEW i \in DOMAIN qu, qu[i].run = r
      PROVE  r2[r].pc = qu[i].op
  <2>1. qu[i] \in Calls
    OBVIOUS
  <2>2. qu[i].op \in Crud /\ rn[r].pc = qu[i].op
    BY <1>1, <2>1, CallKinds DEF Stepping
  <2> QED  BY <2>2
<1> QED  BY <1>1 DEF Stepping

-----------------------------------------------------------------------------
(* Queries start.                                                          *)

\* A finite set has a sequence of its members, each of them once.
LEMMA SetToSeqIsInjective ==
    ASSUME NEW T, IsFiniteSet(T)
    PROVE  /\ SetToSeq(T) \in [1 .. Cardinality(T) -> T]
           /\ IsInjective(SetToSeq(T)) /\ Cardinality(T) \in Nat
<1>1. Cardinality(T) \in Nat /\ ExistsBijection(1 .. Cardinality(T), T)
  BY FS_CardinalityType
<1>2. \E f \in [1 .. Cardinality(T) -> T] : IsInjective(f)
  BY <1>1 DEF ExistsBijection, Bijection, Injection
<1> QED  BY <1>1, <1>2 DEF SetToSeq

LEMMA SetToSeqHasAll ==
    ASSUME NEW T, IsFiniteSet(T), NEW t \in T
    PROVE  \E i \in 1 .. Cardinality(T) : SetToSeq(T)[i] = t
<1> DEFINE f == SetToSeq(T)
           n == Cardinality(T)
<1>1. f \in [1 .. n -> T] /\ IsInjective(f) /\ n \in Nat
  BY SetToSeqIsInjective
<1> HIDE DEF f, n
<1> SUFFICES ASSUME \A i \in 1 .. n : f[i] # t PROVE FALSE
  BY DEF f, n
<1>2. f \in [1 .. n -> T \ {t}]
  BY <1>1
<1>3. f \in Injection(1 .. n, T \ {t})
  BY <1>1, <1>2 DEF Injection
<1>4. IsFiniteSet(T \ {t}) /\ Cardinality(T \ {t}) = n - 1
  BY FS_RemoveElement DEF n
<1>5. Cardinality(1 .. n) <= n - 1
  BY <1>3, <1>4, FS_Injection
<1>6. Cardinality(1 .. n) = IF 1 > n THEN 0 ELSE n - 1 + 1
  BY <1>1, FS_Interval
<1>7. n # 0
  <2>1. n = 0 => T = {}
    BY FS_EmptySet DEF n
  <2> QED  BY <2>1
<1> QED  BY <1>1, <1>5, <1>6, <1>7

\* The calls of some queries, one of each.
LEMMA CallsOfQueries ==
    ASSUME NEW S \in SUBSET Queries
    PROVE  \E s \in Seq(QueryCalls) :
              /\ s = SetToSeq({Call(q, 0) : q \in S})
              /\ \A i \in DOMAIN s : s[i].heard /\ s[i].op \in S
              /\ \A i, j \in DOMAIN s : s[i].op = s[j].op => i = j
              /\ \A q \in S : \E i \in DOMAIN s : s[i].op = q
<1> DEFINE T == {Call(q, 0) : q \in S}
           f == [q \in S |-> Call(q, 0)]
           s == SetToSeq(T)
           n == Cardinality(T)
<1>1. IsFiniteSet(S)
  BY OpsApart, FS_Subset
<1>2. f \in Surjection(S, T)
  BY DEF Surjection
<1>3. IsFiniteSet(T)
  BY <1>1, <1>2, FS_Surjection
<1>4. /\ \A t \in T : /\ t \in QueryCalls /\ t.heard /\ t.op \in S
                      /\ t = Call(t.op, 0)
      /\ \A q \in S : Call(q, 0) \in T /\ Call(q, 0).op = q
  BY CallType
<1> HIDE DEF T, f
<1>5. s \in [1 .. n -> T] /\ IsInjective(s) /\ n \in Nat
  BY <1>3, SetToSeqIsInjective
<1>6. \A t \in T : \E i \in 1 .. n : s[i] = t
  BY <1>3, SetToSeqHasAll
<1> HIDE DEF s, n
<1>7. s \in Seq(QueryCalls) /\ DOMAIN s = 1 .. n
  BY <1>4, <1>5
<1>8. \A i \in DOMAIN s : s[i] \in T
  BY <1>5
<1>9. \A i, j \in DOMAIN s : s[i].op = s[j].op => s[i] = s[j]
  BY <1>4, <1>8
<1>10. \A i, j \in DOMAIN s : s[i].op = s[j].op => i = j
  BY <1>5, <1>9 DEF IsInjective
<1>11. \A q \in S : \E i \in DOMAIN s : s[i].op = q
  BY <1>4, <1>6, <1>7
<1>12. \A i \in DOMAIN s : s[i].heard /\ s[i].op \in S
  BY <1>4, <1>8
<1>13. s = SetToSeq({Call(q, 0) : q \in S})
  BY DEF s, T
<1> QED  BY <1>7, <1>10, <1>11, <1>12, <1>13

\* Queries that start leave the cache and the queue in order, and no run sees
\* anything of it.
LEMMA StartEffect ==
    ASSUME NEW qy \in [Queries -> Cached], NEW qu \in Seq(Calls), Listened(qy, qu),
           NEW mounted \in SUBSET Queries, Start(qy, qu, mounted)
    PROVE  CacheInv' /\ \A rn : Stepping(rn, qu) => Stepping(rn, queue')
<1>1. PICK S \in SUBSET {q \in mounted : ~qy[q].fetching} :
         /\ query' = [q \in Queries |->
                         IF q \in S THEN [qy[q] EXCEPT !.fetching = TRUE] ELSE qy[q]]
         /\ queue' = qu \o SetToSeq({Call(q, 0) : q \in S})
  BY DEF Start
<1>2. S \in SUBSET Queries /\ \A q \in S : ~qy[q].fetching
  BY <1>1
<1>3. PICK s \in Seq(QueryCalls) :
         /\ s = SetToSeq({Call(q, 0) : q \in S})
         /\ \A i \in DOMAIN s : s[i].heard /\ s[i].op \in S
         /\ \A i, j \in DOMAIN s : s[i].op = s[j].op => i = j
         /\ \A q \in S : \E i \in DOMAIN s : s[i].op = q
  BY <1>2, CallsOfQueries
<1>4. PICK y2 : y2 = [q \in Queries |->
                         IF q \in S THEN [qy[q] EXCEPT !.fetching = TRUE] ELSE qy[q]]
  OBVIOUS
<1>5. query' = y2 /\ queue' = qu \o s
  BY <1>1, <1>3, <1>4
<1>6. y2 \in [Queries -> Cached]
  BY <1>4 DEF Cached
<1>7. \A q \in Queries : IF q \in S THEN ~qy[q].fetching /\ y2[q].fetching
                         ELSE y2[q].fetching = qy[q].fetching
  BY <1>2, <1>4 DEF Cached
<1>8. Listened(y2, qu \o s)
  <2>1. /\ \A i \in DOMAIN s : s[i].heard /\ s[i].op \in S
        /\ \A i, j \in DOMAIN s : s[i].op = s[j].op => i = j
        /\ \A q \in S : \E i \in DOMAIN s : s[i].op = q
    BY <1>3
  <2>2. S \in SUBSET Queries
    BY <1>2
  <2> QED  BY <1>7, <2>1, <2>2, ListenedConcat, Zenon
<1>9. qu \o s \in Seq(Calls)
  BY QueueConcat
<1>10. \A rn : Stepping(rn, qu) => Stepping(rn, qu \o s)
  BY SteppingConcat
<1> QED  BY <1>5, <1>6, <1>8, <1>9, <1>10 DEF CacheInv

\* The cache as it is when a page has been loaded.
LEMMA BlankListened ==
    /\ Blank \in [Queries -> Cached] /\ <<>> \in Seq(Calls) /\ Listened(Blank, <<>>)
    /\ \A rn : (\A r \in Runs : rn[r].pc \notin Crud) => Stepping(rn, <<>>)
<1>1. Blank \in [Queries -> Cached] /\ \A q \in Queries : Blank[q].fetching = FALSE
  BY DEF Blank, Cached, Data
<1>2. <<>> \in Seq(Calls) /\ DOMAIN <<>> = {}
  OBVIOUS
<1>3. Listened(Blank, <<>>)
  BY <1>1, <1>2 DEF Listened
<1>4. \A rn : (\A r \in Runs : rn[r].pc \notin Crud) => Stepping(rn, <<>>)
  BY <1>2 DEF Stepping
<1> QED  BY <1>1, <1>2, <1>3, <1>4

LEMMA MountedQueries ==
    ASSUME NEW qy, NEW to
    PROVE  Mounted(qy, to) \in SUBSET Queries /\ Enabled(qy) \in SUBSET Queries
BY DEF Mounted, Enabled, Queries

LEMMA InitTyped == Init => TypeInv
<1> SUFFICES ASSUME Init PROVE TypeInv
  OBVIOUS
<1>1. PlaceInv
  BY DEF Init, PlaceInv
<1>2. AccountInv
  BY DashboardAssumption DEF Init, AccountInv
<1>3. CacheInv
  BY BlankListened DEF Init, CacheInv
<1>4. run \in [Runs -> Results] /\ item \in [Runs -> Items] /\ left \in [Runs -> Causes]
  BY DEF Init, Results, PCs, Ended, Items, Causes
<1>5. \A r \in Runs : run[r].pc \notin Crud
  BY DEF Init, Crud
<1>6. Stepping(run, queue)
  BY <1>5, BlankListened DEF Init
<1> QED  BY <1>1, <1>2, <1>3, <1>4, <1>6 DEF TypeInv, RunInv

-----------------------------------------------------------------------------
(* The steps of the tab.                                                   *)

\* A page is loaded: the queries of the page start, the runs are killed.
LEMMA LoadEffect ==
    ASSUME TypeInv, NEW to \in Screens, Load(to)
    PROVE  /\ PlaceInv' /\ CacheInv' /\ RunInv'
           /\ UNCHANGED <<standing, item, left>>
           /\ \A r \in Runs : \/ run'[r] = run[r]
                              \/ run'[r].pc = "killed"
<1> USE DEF TypeInv
<1>1. PlaceInv'
  <2>1. to[1] \in Pages \cup {"out"} /\ to[2] \in {"shown", "denied", "error"}
    BY DEF Screens, Pages
  <2> QED  BY <2>1 DEF Load, PlaceInv
<1>2. CacheInv' /\ \A rn : Stepping(rn, <<>>) => Stepping(rn, queue')
  <2>1. PICK m \in SUBSET Queries : m = Mounted(Blank, to)
    BY MountedQueries
  <2>2. Start(Blank, <<>>, m)
    BY <2>1 DEF Load
  <2> QED  BY <2>2, BlankListened, StartEffect
<1>3. /\ run' \in [Runs -> Results]
      /\ \A r \in Runs : run'[r].pc \notin Crud
      /\ \A r \in Runs : \/ run'[r] = run[r]
                         \/ run'[r].pc = "killed"
  BY DEF Load, RunInv, Results, PCs, Ended, Crud
<1>4. Stepping(run', queue')
  BY <1>2, <1>3, BlankListened
<1>5. UNCHANGED <<standing, item, left>>
  BY DEF Load
<1> QED  BY <1>1, <1>2, <1>3, <1>4, <1>5 DEF RunInv

\* A link is followed: queries may start.
LEMMA FollowEffect ==
    ASSUME TypeInv, NEW to \in Screens, Follow(to)
    PROVE  PlaceInv' /\ CacheInv' /\ RunInv' /\ UNCHANGED <<standing, run, item, left>>
<1> USE DEF TypeInv
<1>1. PlaceInv'
  <2>1. to[1] \in Pages \cup {"out"} /\ to[2] \in {"shown", "denied", "error"}
    BY DEF Screens, Pages
  <2> QED  BY <2>1 DEF Follow, PlaceInv
<1>2. CacheInv' /\ \A rn : Stepping(rn, queue) => Stepping(rn, queue')
  <2>1. CASE UNCHANGED <<query, queue>>
    BY <2>1 DEF CacheInv
  <2>2. CASE Start(query, queue, Mounted(query, to))
    <3>1. PICK m \in SUBSET Queries : m = Mounted(query, to)
      BY MountedQueries
    <3> QED  BY <2>2, <3>1, StartEffect DEF CacheInv
  <2> QED  BY <2>1, <2>2 DEF Follow
<1>3. UNCHANGED <<standing, run, item, left>>
  BY DEF Follow
<1> QED  BY <1>1, <1>2, <1>3 DEF RunInv

LEMMA FaultType ==
    ASSUME TypeInv, Fault \/ UNCHANGED faults
    PROVE  faults' \in 0 .. MaxFaults
BY DashboardAssumption DEF TypeInv, AccountInv, Fault

LEMMA AuthType ==
    ASSUME TypeInv, NEW ok, CheckAuth(ok), UNCHANGED standing
    PROVE  AccountInv'
<1>1. Fault \/ UNCHANGED faults
  BY DEF CheckAuth
<1>2. token' \in {"none", "good", "expired", "refused"}
  BY DEF CheckAuth, TypeInv, AccountInv
<1> QED  BY <1>1, <1>2, FaultType DEF TypeInv, AccountInv

\* A run goes on.  It waited for an answer that has left the queue, or for none.
LEMMA AdvanceEffect ==
    ASSUME TypeInv, NEW r \in Runs, NEW ok \in BOOLEAN, NEW rest \in Seq(Calls),
           Listened(query, rest), Advance(r, ok, rest), UNCHANGED query,
           \A rn : (\A x \in Runs \ {r} : rn[x] = run[x]) /\ rn[r].pc \notin Crud
                      => Stepping(rn, rest)
    PROVE  /\ CacheInv' /\ run' \in [Runs -> Results] /\ Stepping(run', queue')
           /\ \A x \in Runs \ {r} : run'[x] = run[x]
           /\ run'[r].pc = Goes(run[r], ok) /\ run'[r].tally = Tallied(run[r], ok)
           /\ run'[r].created = CASE run[r].pc = "create" -> ok
                                  [] run[r].pc = "delete" -> run[r].created /\ ~ok
                                  [] OTHER                -> run[r].created
<1> USE DEF TypeInv
<1> DEFINE s == run[r]
<1>1. run \in [Runs -> Results] /\ s \in Results
  BY DEF RunInv
<1> DEFINE next == [pc |-> Goes(s, ok), tally |-> Tallied(s, ok),
                    created |-> CASE s.pc = "create" -> ok
                                  [] s.pc = "delete" -> s.created /\ ~ok
                                  [] OTHER           -> s.created]
<1>2. /\ run' = [run EXCEPT ![r] = next]
      /\ queue' = IF next.pc \in Crud THEN Append(rest, Call(next.pc, r)) ELSE rest
  BY Zenon DEF Advance
<1>3. /\ next.pc = Goes(s, ok) /\ next.tally = Tallied(s, ok)
      /\ next.created = CASE s.pc = "create" -> ok
                          [] s.pc = "delete" -> s.created /\ ~ok
                          [] OTHER           -> s.created
  OBVIOUS
<1>4. next \in Results
  <2>1. Goes(s, ok) \in PCs
    BY DEF Goes, PCs, Crud, Ended
  <2>2. Tallied(s, ok) \in {"passed", "skipped", "failed"}
    BY <1>1 DEF Tallied, Results
  <2>3. next.created \in BOOLEAN
    BY <1>1, <1>3 DEF Results
  <2> QED  BY <2>1, <2>2, <2>3 DEF Results
<1> HIDE DEF next
<1>5. /\ run' \in [Runs -> Results] /\ run'[r] = next
      /\ \A x \in Runs \ {r} : run'[x] = run[x]
  BY <1>1, <1>2, <1>4
<1>6. CASE next.pc \in Crud
  <2>1. PICK c \in Calls : /\ c = Call(next.pc, r) /\ c.op = next.pc /\ c.run = r
                           /\ c.op \in Crud
    BY <1>6, CallType DEF Calls
  <2>2. queue' = Append(rest, c)
    BY <1>2, <1>6, <2>1
  <2>3. \A q \in Queries : ~Fetches(c, q)
    BY <2>1, OpsApart DEF Fetches
  <2>4. Listened(query, Append(rest, c))
    BY <2>3, ListenedAppend
  <2>5. Append(rest, c) \in Seq(Calls)
    BY QueueAppend
  <2>6. PICK rn : rn = [run EXCEPT ![r] = [s EXCEPT !.pc = "auth"]]
    OBVIOUS
  <2>7. /\ rn[r].pc \notin Crud
        /\ \A x \in Runs \ {r} : rn[x] = run[x]
    BY <1>1, <2>6 DEF Crud, Results
  <2>8. Stepping(rn, rest)
    BY <2>7
  <2>9. Stepping(run', Append(rest, c))
    BY <1>5, <2>1, <2>7, <2>8, SteppingAppend
  <2>10. CacheInv'
    BY <2>2, <2>4, <2>5 DEF CacheInv
  <2> QED  BY <1>3, <1>5, <2>2, <2>9, <2>10
<1>7. CASE next.pc \notin Crud
  <2>1. queue' = rest
    BY <1>2, <1>7
  <2>2. Stepping(run', rest)
    BY <1>5, <1>7
  <2>3. CacheInv'
    BY <2>1 DEF CacheInv
  <2> QED  BY <1>3, <1>5, <2>1, <2>2, <2>3
<1> QED  BY <1>6, <1>7

\* A run that waits for no call of the queue goes on.
LEMMA CheckedEffect ==
    ASSUME TypeInv, NEW r \in Runs, NEW ok \in BOOLEAN, run[r].pc \in {"auth", "health"},
           Advance(r, ok, queue), UNCHANGED <<query, item, left>>
    PROVE  /\ CacheInv' /\ RunInv'
           /\ \A x \in Runs \ {r} : run'[x] = run[x]
           /\ run'[r].pc = Goes(run[r], ok) /\ run'[r].tally = Tallied(run[r], ok)
           /\ run'[r].created = run[r].created
<1> USE DEF TypeInv
<1>1. \A rn : (\A x \in Runs \ {r} : rn[x] = run[x]) /\ rn[r].pc \notin Crud
                 => Stepping(rn, queue)
  <2> SUFFICES ASSUME NEW rn, \A x \in Runs \ {r} : rn[x] = run[x], rn[r].pc \notin Crud
               PROVE  Stepping(rn, queue)
    OBVIOUS
  <2>1. run[r].pc \notin Crud
    BY DEF Crud
  <2> QED  BY <2>1, SteppingSame DEF RunInv, CacheInv
<1>2. queue \in Seq(Calls) /\ Listened(query, queue)
  BY DEF CacheInv
<1>3. /\ CacheInv' /\ run' \in [Runs -> Results] /\ Stepping(run', queue')
      /\ \A x \in Runs \ {r} : run'[x] = run[x]
      /\ run'[r].pc = Goes(run[r], ok) /\ run'[r].tally = Tallied(run[r], ok)
      /\ run'[r].created = CASE run[r].pc = "create" -> ok
                             [] run[r].pc = "delete" -> run[r].created /\ ~ok
                             [] OTHER                -> run[r].created
  BY <1>1, <1>2, AdvanceEffect
<1> QED  BY <1>3 DEF RunInv

-----------------------------------------------------------------------------
(* The answers.                                                            *)

\* The answer to a call of a query leaves the queue.
LEMMA QueryCallEnds ==
    ASSUME TypeInv, queue # <<>>, Head(queue).run = 0
    PROVE  /\ Head(queue) \in QueryCalls /\ Tail(queue) \in Seq(Calls)
           /\ Stepping(run, Tail(queue))
<1> USE DEF TypeInv
<1>1. Head(queue) \in Calls /\ Tail(queue) \in Seq(Calls)
  BY QueueTail DEF CacheInv
<1>2. Head(queue) \in QueryCalls /\ \A r \in Runs : Head(queue).run # r
  BY <1>1, OpsApart DEF Calls, RunCalls
<1>3. Stepping(run, Tail(queue))
  BY <1>2, SteppingTail DEF RunInv, CacheInv
<1> QED  BY <1>1, <1>2, <1>3

LEMMA ReceivedEffect ==
    ASSUME TypeInv, queue # <<>>, Head(queue).run = 0, NEW outcome,
           Received(Head(queue), outcome)
    PROVE  CacheInv' /\ RunInv' /\ UNCHANGED smoke
<1> USE DEF TypeInv
<1> DEFINE rest == Tail(queue)
<1>1. PICK c \in QueryCalls : c = Head(queue)
  BY QueryCallEnds
<1>2. /\ rest \in Seq(Calls) /\ Stepping(run, rest) /\ queue \in Seq(Calls)
      /\ query \in [Queries -> Cached] /\ Listened(query, queue)
  BY QueryCallEnds DEF CacheInv
<1>3. c.op \in Queries /\ c.heard \in BOOLEAN /\ c.run = 0 /\ query[c.op] \in Cached
  BY <1>1, <1>2 DEF QueryCalls
<1>4. ASSUME NEW y2 \in [Queries -> Cached], ~y2[c.op].fetching, c.heard,
             \A q \in Queries : q # c.op => y2[q] = query[q]
      PROVE  Listened(y2, rest)
  <2>1. \A q \in Queries : IF Fetches(Head(queue), q) THEN ~y2[q].fetching
                           ELSE y2[q].fetching = query[q].fetching
    BY <1>1, <1>4 DEF Fetches
  <2> QED  BY <1>2, <2>1, ListenedTail
<1> HIDE DEF rest
<1>5. UNCHANGED smoke
  BY DEF Received
<1>6. SUFFICES CacheInv' /\ Stepping(run, queue')
  BY <1>5 DEF smoke, RunInv
<1>7. CASE /\ outcome = "ok" /\ c.heard
           /\ LET data == IF c.op = "currentUser" THEN standing ELSE "ok"
                  answered == [query EXCEPT ![c.op] = [data |-> data, fetching |-> FALSE]]
                  now == IF Overview THEN Enabled(answered) \ Enabled(query) ELSE {}
              IN Start(answered, rest, now)
  <2> DEFINE data == IF c.op = "currentUser" THEN standing ELSE "ok"
             answered == [query EXCEPT ![c.op] = [data |-> data, fetching |-> FALSE]]
             now == IF Overview THEN Enabled(answered) \ Enabled(query) ELSE {}
  <2>1. data \in Data
    BY DEF AccountInv, Data
  <2>2. /\ answered \in [Queries -> Cached] /\ ~answered[c.op].fetching
        /\ \A q \in Queries : q # c.op => answered[q] = query[q]
    BY <1>2, <1>3, <2>1 DEF Cached
  <2>3. Start(answered, rest, now)
    BY <1>7
  <2>4. now \in SUBSET Queries
    <3> HIDE DEF answered
    <3> QED  BY MountedQueries
  <2> HIDE DEF answered, now, data
  <2>5. Listened(answered, rest)
    BY <1>4, <1>7, <2>2
  <2> QED  BY <1>2, <2>2, <2>3, <2>4, <2>5, StartEffect
<1>8. CASE /\ c.heard /\ UNCHANGED query
           /\ queue' = Append(rest, [c EXCEPT !.tries = 1])
  <2> DEFINE y1 == [query EXCEPT ![c.op].fetching = FALSE]
  <2>1. /\ y1 \in [Queries -> Cached] /\ ~y1[c.op].fetching
        /\ \A q \in Queries : q # c.op => y1[q] = query[q]
    BY <1>2, <1>3 DEF Cached
  <2> HIDE DEF y1
  <2>2. Listened(y1, rest)
    BY <1>4, <1>8, <2>1
  <2>3. PICK d \in Calls : d = [c EXCEPT !.tries = 1] /\ d.op = c.op /\ d.heard /\ d.run = 0
    BY <1>8, <1>3 DEF Calls, QueryCalls
  <2>4. query[c.op].fetching
    <3>1. 1 \in DOMAIN queue /\ Fetches(queue[1], c.op)
      BY <1>1, <1>2, <1>8, QueueTail DEF Fetches
    <3> QED  BY <1>2, <1>3, <3>1 DEF Listened
  <2>5. Listened(query, Append(rest, d))
    <3>1. \A q \in Queries : IF Fetches(d, q) THEN ~y1[q].fetching /\ query[q].fetching
                             ELSE query[q].fetching = y1[q].fetching
      BY <2>1, <2>3, <2>4 DEF Fetches
    <3> QED  BY <1>2, <2>2, <3>1, ListenedAppend
  <2>6. Stepping(run, Append(rest, d))
    BY <1>2, <2>3, OpsApart, SteppingAppend
  <2>7. Append(rest, d) \in Seq(Calls)
    BY <1>2, QueueAppend
  <2> QED  BY <1>2, <1>8, <2>3, <2>5, <2>6, <2>7 DEF CacheInv
<1>9. CASE /\ c.heard /\ queue' = rest
           /\ query' = [query EXCEPT ![c.op].fetching = FALSE]
  <2>1. /\ query' \in [Queries -> Cached] /\ ~query'[c.op].fetching
        /\ \A q \in Queries : q # c.op => query'[q] = query[q]
    BY <1>2, <1>3, <1>9 DEF Cached
  <2>2. Listened(query', rest)
    BY <1>4, <1>9, <2>1
  <2> QED  BY <1>2, <1>9, <2>1, <2>2 DEF CacheInv
<1>10. CASE ~c.heard /\ queue' = rest /\ UNCHANGED query
  <2>1. \A q \in Queries : ~Fetches(Head(queue), q)
    BY <1>1, <1>10 DEF Fetches
  <2>2. Listened(query, Tail(queue))
    BY <1>2, <2>1, ListenedTail
  <2> QED  BY <1>2, <1>10, <2>2 DEF CacheInv, rest
<1> QED  BY <1>1, <1>7, <1>8, <1>9, <1>10 DEF Received, rest

\* A step of the smoke test is answered: with OK as the code sees it, whatever
\* it did to the item.
SteppedTo(r, ok) ==
    /\ run[r].pc \in Crud
    /\ \A x \in Runs \ {r} : run'[x] = run[x] /\ item'[x] = item[x]
    /\ run'[r].pc = Goes(run[r], ok) /\ run'[r].tally = Tallied(run[r], ok)
    /\ run'[r].created = CASE run[r].pc = "create" -> ok
                           [] run[r].pc = "delete" -> run[r].created /\ ~ok
                           [] OTHER                -> run[r].created
    /\ left' \in [Runs -> Causes] /\ \A x \in Runs \ {r} : left'[x] = left[x]
    /\ run[r].pc = "create" => item'[r] \in {item[r], "pending", "there"}
    /\ run[r].pc = "create" /\ ~ok =>
          item'[r] = "none" \/ left'[r] = "creation unanswered"
    /\ run[r].pc \notin {"create", "cleanup"} => left'[r] = left[r]
    /\ run[r].pc = "cleanup" =>
          item'[r] \notin {"pending", "there", "back"} \/ left'[r] \in Uncleaned
    /\ run[r].pc \notin {"create", "delete", "cleanup"} => item'[r] = item[r]
    /\ run[r].pc \in {"delete", "cleanup"} =>
          item'[r] \in {"deleting", "gone"} \/ (item'[r] = item[r] /\ ~ok)

LEMMA SteppedEffect ==
    ASSUME TypeInv, queue # <<>>, Head(queue).run # 0, NEW outcome,
           Stepped(Head(queue), outcome)
    PROVE  /\ CacheInv' /\ RunInv'
           /\ UNCHANGED panel
           /\ \E r \in Runs, ok \in BOOLEAN : SteppedTo(r, ok)
<1> USE DEF TypeInv
<1>1. PICK c \in Calls : c = Head(queue)
  BY QueueTail DEF CacheInv
<1>2. c \in RunCalls /\ c.run \in Runs /\ c.op \in Crud
  BY <1>1, CallKinds DEF Calls, QueryCalls
<1> DEFINE r == c.run
           found == c.op \in {"create", "list"} \/ item[r] \in {"there", "back"}
           ok == outcome = "ok" /\ found
           rest == Tail(queue)
           cause == CASE c.op = "create" /\ ~ok /\ item'[r] # "none" -> "creation unanswered"
                      [] c.op = "cleanup" /\ outcome = "lost"       -> "cleanup unanswered"
                      [] c.op = "cleanup" /\ outcome \notin {"ok", "lost"} -> "cleanup refused"
                      [] c.op = "cleanup" /\ outcome = "ok" /\ item[r] = "pending"
                                                                    -> "cleanup too early"
                      [] OTHER                                      -> left[r]
<1>3. /\ \/ \E i \in Carried(c) : item' = [item EXCEPT ![r] = i]
         \/ ~ok /\ UNCHANGED item
      /\ left' = [left EXCEPT ![r] = cause]
      /\ Advance(r, ok, rest)
      /\ UNCHANGED <<query, panel>>
  BY <1>1 DEF Stepped
<1>4. /\ rest \in Seq(Calls) /\ queue \in Seq(Calls)
      /\ query \in [Queries -> Cached] /\ Listened(query, queue)
  BY QueueTail DEF CacheInv
<1>5. Listened(query, rest)
  <2>1. \A q \in Queries : ~Fetches(Head(queue), q)
    BY <1>1, <1>2, OpsApart DEF Fetches
  <2> QED  BY <1>4, <2>1, ListenedTail
<1>6. ASSUME NEW rn, \A x \in Runs \ {r} : rn[x] = run[x], rn[r].pc \notin Crud
      PROVE  Stepping(rn, rest)
  <2>1. \A x \in Runs : IF Head(queue).run = x THEN rn[x].pc \notin Crud
                        ELSE rn[x].pc = run[x].pc
    BY <1>1, <1>6
  <2> QED  BY <1>4, <2>1, SteppingTail DEF RunInv
<1>7. run[r].pc = c.op
  <2>1. 1 \in DOMAIN queue /\ queue[1].run = r /\ queue[1] = c
    BY <1>1, <1>4, QueueTail
  <2> QED  BY <1>2, <2>1 DEF RunInv, Stepping
<1>8. /\ item' \in [Runs -> Items]
      /\ \A x \in Runs \ {r} : item'[x] = item[x]
      /\ item'[r] \in Carried(c) \/ (item'[r] = item[r] /\ ~ok)
  <2>1. Carried(c) \subseteq Items
    BY <1>2 DEF Carried, Items, RunInv
  <2> QED  BY <1>2, <1>3, <2>1 DEF RunInv
<1>9. ok \in BOOLEAN
  OBVIOUS
<1>10. item[r] \in Items /\ left[r] \in Causes
  BY <1>2 DEF RunInv
<1>11. /\ cause \in Causes
       /\ c.op = "create" /\ ~ok => item'[r] = "none" \/ cause = "creation unanswered"
       /\ c.op \notin {"create", "cleanup"} => cause = left[r]
  BY <1>10 DEF Causes, Uncleaned
<1>12. c.op = "cleanup" =>
          item'[r] \notin {"pending", "there", "back"} \/ cause \in Uncleaned
  <2> SUFFICES ASSUME c.op = "cleanup", item'[r] \in {"pending", "there", "back"}
               PROVE  cause \in Uncleaned
    OBVIOUS
  <2>1. ~ok /\ item'[r] = item[r]
    BY <1>8 DEF Carried
  <2>2. CASE outcome = "ok"
    <3>1. item[r] = "pending"
      BY <2>1, <2>2
    <3> QED  BY <2>2, <3>1 DEF Uncleaned
  <2>3. CASE outcome # "ok"
    BY <2>3 DEF Uncleaned
  <2> QED  BY <2>2, <2>3
<1> HIDE DEF ok, rest, cause
<1>13. /\ CacheInv' /\ run' \in [Runs -> Results] /\ Stepping(run', queue')
       /\ \A x \in Runs \ {r} : run'[x] = run[x]
       /\ run'[r].pc = Goes(run[r], ok) /\ run'[r].tally = Tallied(run[r], ok)
       /\ run'[r].created = CASE run[r].pc = "create" -> ok
                              [] run[r].pc = "delete" -> run[r].created /\ ~ok
                              [] OTHER                -> run[r].created
  <2>1. \A rn : (\A x \in Runs \ {r} : rn[x] = run[x]) /\ rn[r].pc \notin Crud
                   => Stepping(rn, rest)
    BY <1>6
  <2>2. Advance(r, ok, rest) /\ UNCHANGED query
    BY <1>3
  <2> HIDE DEF r
  <2>3. r \in Runs
    BY <1>2 DEF r
  <2> QED  BY <1>4, <1>5, <1>9, <2>1, <2>2, <2>3, AdvanceEffect
<1>14. /\ left' \in [Runs -> Causes] /\ left'[r] = cause
       /\ \A x \in Runs \ {r} : left'[x] = left[x]
  BY <1>2, <1>3, <1>11 DEF RunInv
<1>15. RunInv'
  BY <1>8, <1>13, <1>14 DEF RunInv
<1>16. SteppedTo(r, ok)
  <2>1. c.op = "create" => item'[r] \in {item[r], "pending", "there"}
    BY <1>8 DEF Carried
  <2>2. /\ c.op = "create" /\ ~ok => item'[r] = "none" \/ left'[r] = "creation unanswered"
        /\ c.op \notin {"create", "cleanup"} => left'[r] = left[r]
        /\ c.op = "cleanup" =>
              item'[r] \notin {"pending", "there", "back"} \/ left'[r] \in Uncleaned
    BY <1>11, <1>12, <1>14
  <2>3. c.op \notin {"create", "delete", "cleanup"} => item'[r] = item[r]
    BY <1>8 DEF Carried
  <2>4. c.op \in {"delete", "cleanup"} =>
           item'[r] \in {"deleting", "gone"} \/ (item'[r] = item[r] /\ ~ok)
    BY <1>8 DEF Carried
  <2> QED  BY <1>2, <1>7, <1>8, <1>13, <1>14, <2>2, <2>3, <2>4, <2>1 DEF SteppedTo
<1> QED  BY <1>2, <1>3, <1>9, <1>13, <1>15, <1>16

LEMMA OutcomeType ==
    ASSUME TypeInv, NEW op, NEW outcome, Outcome(op, outcome), withAuth(outcome),
           UNCHANGED standing
    PROVE  AccountInv'
<1>1. Fault \/ UNCHANGED faults
  BY DEF Outcome
<1> QED  BY <1>1, FaultType DEF withAuth, TypeInv, AccountInv

-----------------------------------------------------------------------------
(* Every step keeps the types.                                             *)

\* Logout: nothing that was asked for before it is listened to any more.
LEMMA LogoutTyped == ASSUME TypeInv, Logout PROVE TypeInv'
<1> USE DEF TypeInv
<1>1. /\ leaving' = TRUE /\ query' = Blank
      /\ queue' = [i \in DOMAIN queue |-> [queue[i] EXCEPT !.heard = @ /\ queue[i].run # 0]]
      /\ UNCHANGED <<token, account, page, view, smoke>>
  BY DEF Logout
<1>2. queue \in Seq(Calls)
  BY DEF CacheInv
<1>3. ASSUME NEW i \in DOMAIN queue
      PROVE  /\ queue'[i] \in Calls
             /\ queue'[i].op = queue[i].op /\ queue'[i].run = queue[i].run
             /\ queue'[i].heard => queue[i].run # 0
  <2>1. PICK c \in Calls : c = queue[i]
    BY <1>2
  <2>2. queue'[i] = [c EXCEPT !.heard = c.heard /\ c.run # 0]
    BY <1>1, <2>1
  <2>3. CASE c \in QueryCalls
    BY <2>1, <2>2, <2>3 DEF Calls, QueryCalls
  <2>4. CASE c \in RunCalls
    BY <2>1, <2>2, <2>4, OpsApart DEF Calls, RunCalls
  <2> QED  BY <2>3, <2>4 DEF Calls
<1>4. queue' \in Seq(Calls) /\ DOMAIN queue' = DOMAIN queue
  <2>1. PICK n \in Nat : DOMAIN queue = 1 .. n
    BY <1>2
  <2>2. queue' \in [1 .. n -> Calls]
    BY <1>1, <1>3, <2>1
  <2> QED  BY <2>1, <2>2
<1>5. \A q \in Queries : \A i \in DOMAIN queue' : ~Fetches(queue'[i], q)
  <2> TAKE q \in Queries
  <2> TAKE i \in DOMAIN queue'
  <2>1. queue'[i] \in Calls /\ (queue'[i].heard => queue'[i].run # 0)
    BY <1>3, <1>4
  <2> QED  BY <2>1, CallKinds DEF Fetches
<1>6. CacheInv'
  <2>1. Blank \in [Queries -> Cached] /\ \A q \in Queries : Blank[q].fetching = FALSE
    BY BlankListened DEF Blank
  <2>2. Listened(query', queue')
    BY <1>1, <1>5, <2>1 DEF Listened
  <2> QED  BY <1>1, <1>4, <2>1, <2>2 DEF CacheInv
<1>7. Stepping(run', queue')
  <2>1. PICK q2 : q2 = queue' /\ DOMAIN q2 = DOMAIN queue
    BY <1>4
  <2>2. \A i \in DOMAIN queue : q2[i].op = queue[i].op /\ q2[i].run = queue[i].run
    BY <1>3, <2>1
  <2>3. Stepping(run, queue)
    BY DEF RunInv
  <2>4. Stepping(run, q2)
    BY <2>1, <2>2, <2>3 DEF Stepping
  <2> QED  BY <1>1, <2>1, <2>4 DEF smoke
<1> QED  BY <1>1, <1>6, <1>7 DEF PlaceInv, AccountInv, RunInv, account, smoke

\* SystemInfo's poll.
LEMMA PollTyped == ASSUME TypeInv, Poll PROVE TypeInv'
<1> USE DEF TypeInv
<1>1. /\ ~query["systemInfo"].fetching
      /\ query' = [query EXCEPT !["systemInfo"].fetching = TRUE]
      /\ queue' = Append(queue, Call("systemInfo", 0))
      /\ UNCHANGED <<token, account, place, smoke>>
  BY DEF Poll
<1>2. PICK c \in Calls : /\ c = Call("systemInfo", 0) /\ c.op = "systemInfo"
                         /\ c.run = 0 /\ c.heard
  BY CallType DEF Calls, Queries
<1>3. /\ queue \in Seq(Calls) /\ query \in [Queries -> Cached] /\ Listened(query, queue)
      /\ "systemInfo" \in Queries
  BY DEF CacheInv, Queries
<1>4. query' \in [Queries -> Cached]
  BY <1>1, <1>3 DEF Cached
<1>5. \A q \in Queries : IF Fetches(c, q) THEN ~query[q].fetching /\ query'[q].fetching
                         ELSE query'[q].fetching = query[q].fetching
  BY <1>1, <1>2, <1>3 DEF Fetches, Cached
<1>6. Listened(query', Append(queue, c))
  BY <1>3, <1>5, ListenedAppend
<1>7. Stepping(run, Append(queue, c))
  BY <1>2, <1>3, OpsApart, SteppingAppend DEF RunInv
<1>8. CacheInv'
  BY <1>1, <1>2, <1>3, <1>4, <1>6, QueueAppend DEF CacheInv
<1> QED
  BY <1>1, <1>2, <1>7, <1>8 DEF PlaceInv, AccountInv, RunInv, account, place, smoke

LEMMA AnswerTyped ==
    ASSUME TypeInv, Answer
    PROVE  /\ TypeInv'
           /\ \/ UNCHANGED smoke
              \/ \E r \in Runs, ok \in BOOLEAN : SteppedTo(r, ok)
<1>1. PICK outcome \in {"ok", "lost", "unauthorized", "blocked", "forbidden"} :
         /\ Outcome(Head(queue).op, outcome)
         /\ withAuth(outcome)
         /\ IF Head(queue).run = 0 THEN Received(Head(queue), outcome)
            ELSE Stepped(Head(queue), outcome)
  BY DEF Answer
<1>2. queue # <<>> /\ UNCHANGED <<standing, place>>
  BY DEF Answer
<1>3. AccountInv'
  BY <1>1, <1>2, OutcomeType
<1>4. CASE Head(queue).run = 0
  <2>1. CacheInv' /\ RunInv' /\ UNCHANGED smoke
    BY <1>1, <1>2, <1>4, ReceivedEffect
  <2> QED  BY <1>2, <1>3, <2>1 DEF TypeInv, PlaceInv, place, smoke
<1>5. CASE Head(queue).run # 0
  <2>1. /\ CacheInv' /\ RunInv' /\ UNCHANGED panel
        /\ \E r \in Runs, ok \in BOOLEAN : SteppedTo(r, ok)
    BY <1>1, <1>2, <1>5, SteppedEffect
  <2> QED  BY <1>2, <1>3, <2>1 DEF TypeInv, PlaceInv, place
<1> QED  BY <1>4, <1>5

\* What was answered is committed, or rolled back.
Settled(r) ==
    /\ UNCHANGED run /\ left' \in [Runs -> Causes]
    /\ \A x \in Runs \ {r} : item'[x] = item[x] /\ left'[x] = left[x]
    /\ \/ item[r] = "pending" /\ item'[r] \in {"there", "none"} /\ left'[r] = left[r]
       \/ item[r] = "deleting" /\ item'[r] = "gone"
       \/ item[r] = "deleting" /\ item'[r] = "back" /\ left'[r] = "deletion rolled back"

\* What a step of Next may do to the runs and their items.
SmokeStep ==
    \/ /\ UNCHANGED <<item, left>>
       /\ \A r \in Runs : run'[r] = run[r] \/ run'[r].pc = "killed"
    \/ /\ UNCHANGED <<item, left>>
       /\ \E r \in Runs :
             /\ \A x \in Runs \ {r} : run'[x] = run[x]
             /\ run[r].pc = "idle" /\ run'[r] = [run[r] EXCEPT !.pc = "auth"]
    \/ /\ UNCHANGED <<item, left>>
       /\ \E r \in Runs, ok \in BOOLEAN :
             /\ \A x \in Runs \ {r} : run'[x] = run[x]
             /\ run[r].pc \in {"auth", "health"}
             /\ run'[r].pc = Goes(run[r], ok) /\ run'[r].tally = Tallied(run[r], ok)
             /\ run'[r].created = run[r].created
    \/ \E r \in Runs, ok \in BOOLEAN : SteppedTo(r, ok)
    \/ \E r \in Runs : Settled(r)

LEMMA LoadTyped ==
    ASSUME TypeInv, NEW to \in Screens, Load(to),
           token' \in {"none", "good", "expired", "refused"}, Fault \/ UNCHANGED faults
    PROVE  TypeInv' /\ SmokeStep
<1>1. /\ PlaceInv' /\ CacheInv' /\ RunInv'
      /\ UNCHANGED <<standing, item, left>>
      /\ \A r \in Runs : run'[r] = run[r] \/ run'[r].pc = "killed"
  BY LoadEffect
<1>2. AccountInv'
  BY <1>1, FaultType DEF TypeInv, AccountInv
<1> QED  BY <1>1, <1>2 DEF TypeInv, SmokeStep

LEMMA NextTyped == TypeInv /\ [Next]_vars => TypeInv' /\ SmokeStep
<1> SUFFICES ASSUME TypeInv, [Next]_vars PROVE TypeInv' /\ SmokeStep
  OBVIOUS
<1> USE DEF TypeInv
<1>0. token \in {"none", "good", "expired", "refused"}
  BY DEF AccountInv
<1>1. CASE UNCHANGED <<place, query, queue, smoke>> /\ AccountInv'
  BY <1>1 DEF PlaceInv, CacheInv, RunInv, SmokeStep, place, smoke
<1>2. ASSUME NEW p \in Pages, Push(p) PROVE TypeInv' /\ SmokeStep
  <2>1. PICK to \in Screens :
           Served(p, to) /\ (IF to[1] = "out" THEN Load(to) ELSE Follow(to))
    BY <1>2 DEF Push
  <2>2. (Fault \/ UNCHANGED faults) /\ UNCHANGED token
    BY <1>2, <2>1 DEF Served, Push
  <2>3. CASE Load(to)
    BY <1>0, <2>2, <2>3, LoadTyped
  <2>4. CASE Follow(to)
    <3>1. PlaceInv' /\ CacheInv' /\ RunInv' /\ UNCHANGED <<standing, run, item, left>>
      BY <2>4, FollowEffect
    <3>2. AccountInv'
      BY <2>2, <3>1, FaultType DEF AccountInv
    <3> QED  BY <3>1, <3>2 DEF SmokeStep
  <2> QED  BY <2>1, <2>3, <2>4
<1>3. ASSUME NEW p \in Pages, Visit(p) PROVE TypeInv' /\ SmokeStep
  <2>1. PICK to \in Screens : Served(p, to) /\ Load(to)
    BY <1>3 DEF Visit
  <2>2. (Fault \/ UNCHANGED faults) /\ UNCHANGED token
    BY <1>3, <2>1 DEF Served, Visit
  <2> QED  BY <1>0, <2>1, <2>2, LoadTyped
<1>4. ASSUME NEW ok \in BOOLEAN, Revalidate(ok) PROVE TypeInv' /\ SmokeStep
  <2>1. CheckAuth(ok)
    BY <1>4 DEF Revalidate
  <2>2. CASE UNCHANGED <<standing, place, query, queue, smoke>>
    BY <1>1, <2>1, <2>2, AuthType
  <2>3. CASE Load(IF ok THEN <<"dashboard", "shown">> ELSE <<"out", "shown">>)
    <3>1. PICK to \in Screens :
             to = IF ok THEN <<"dashboard", "shown">> ELSE <<"out", "shown">>
      BY DEF Screens
    <3>2. /\ token' \in {"none", "good", "expired", "refused"}
          /\ Fault \/ UNCHANGED faults
      BY <1>0, <2>1 DEF CheckAuth
    <3> QED  BY <2>3, <3>1, <3>2, LoadTyped
  <2> QED  BY <1>4, <2>2, <2>3 DEF Revalidate
<1>5. ASSUME Login PROVE TypeInv' /\ SmokeStep
  <2>1. PICK to \in Screens : to = <<"dashboard", "shown">>
    BY DEF Screens
  <2> QED  BY <1>5, <2>1, LoadTyped DEF Login
<1>6. ASSUME LoggedOut PROVE TypeInv' /\ SmokeStep
  <2>1. PICK to \in Screens : to = <<"out", "shown">>
    BY DEF Screens
  <2>2. /\ token' \in {"none", "good", "expired", "refused"}
        /\ Fault \/ UNCHANGED faults
    BY <1>0, <1>6 DEF LoggedOut
  <2> QED  BY <1>6, <2>1, <2>2, LoadTyped DEF LoggedOut
<1>7. ASSUME Logout PROVE TypeInv' /\ SmokeStep
  <2>1. UNCHANGED smoke
    BY <1>7 DEF Logout
  <2> QED  BY <1>7, <2>1, LogoutTyped DEF SmokeStep, smoke
<1>8. ASSUME Poll PROVE TypeInv' /\ SmokeStep
  <2>1. UNCHANGED smoke
    BY <1>8 DEF Poll
  <2> QED  BY <1>8, <2>1, PollTyped DEF SmokeStep, smoke
<1>9. ASSUME Answer PROVE TypeInv' /\ SmokeStep
  BY <1>9, AnswerTyped DEF SmokeStep, smoke
<1>10. ASSUME NEW r \in Runs, RunTests(r) PROVE TypeInv' /\ SmokeStep
  <2>1. /\ run' = [run EXCEPT ![r].pc = "auth"] /\ panel' = r /\ run[r].pc = "idle"
        /\ UNCHANGED <<token, account, place, query, queue, item, left>>
    BY <1>10 DEF RunTests
  <2>2. /\ run' \in [Runs -> Results] /\ run'[r] = [run[r] EXCEPT !.pc = "auth"]
        /\ run'[r].pc = "auth" /\ \A x \in Runs \ {r} : run'[x] = run[x]
    BY <2>1 DEF RunInv, Results, PCs
  <2>3. Stepping(run', queue)
    <3>1. run[r].pc \notin Crud /\ run'[r].pc \notin Crud
      BY <2>1, <2>2 DEF Crud
    <3>2. \A x \in Runs : \/ run'[x].pc = run[x].pc
                          \/ run[x].pc \notin Crud /\ run'[x].pc \notin Crud
      BY <2>2, <3>1
    <3>3. Stepping(run, queue) /\ queue \in Seq(Calls)
      BY DEF RunInv, CacheInv
    <3> QED  BY <3>2, <3>3, SteppingSame
  <2>4. RunInv'
    BY <2>1, <2>2, <2>3 DEF RunInv
  <2>5. PlaceInv' /\ AccountInv' /\ CacheInv'
    BY <2>1 DEF PlaceInv, AccountInv, CacheInv, account, place
  <2>6. SmokeStep
    BY <2>1, <2>2 DEF SmokeStep
  <2> QED  BY <2>4, <2>5, <2>6
<1>11. ASSUME NEW r \in Runs, NEW ok \in BOOLEAN, CheckedAuth(r, ok)
       PROVE  TypeInv' /\ SmokeStep
  <2>1. AccountInv' /\ PlaceInv'
    BY <1>11, AuthType DEF CheckedAuth, PlaceInv, place
  <2>2. /\ run[r].pc \in {"auth", "health"} /\ Advance(r, ok, queue)
        /\ UNCHANGED <<query, item, left>>
    BY <1>11 DEF CheckedAuth
  <2> QED  BY <2>1, <2>2, CheckedEffect DEF SmokeStep
<1>12. ASSUME NEW r \in Runs, NEW ok \in BOOLEAN, CheckedHealth(r, ok)
       PROVE  TypeInv' /\ SmokeStep
  <2>1. AccountInv' /\ PlaceInv'
    BY <1>12, FaultType DEF CheckedHealth, PlaceInv, AccountInv, place
  <2>2. /\ run[r].pc \in {"auth", "health"} /\ Advance(r, ok, queue)
        /\ UNCHANGED <<query, item, left>>
    BY <1>12 DEF CheckedHealth
  <2> QED  BY <2>1, <2>2, CheckedEffect DEF SmokeStep
<1>13. ASSUME NEW r \in Runs, Commit(r) \/ RollBack(r) PROVE TypeInv' /\ SmokeStep
  <2>1. /\ UNCHANGED <<token, standing, place, query, queue, run, panel>>
        /\ Fault \/ UNCHANGED faults
    BY <1>13 DEF Commit, RollBack, account
  <2>2. AccountInv'
    BY <2>1, FaultType DEF AccountInv
  <2>3. item' \in [Runs -> Items] /\ Settled(r)
    BY <1>13 DEF Commit, RollBack, Settled, RunInv, Items, Causes
  <2>4. PlaceInv' /\ CacheInv' /\ RunInv'
    BY <2>1, <2>3 DEF PlaceInv, CacheInv, RunInv, Settled, place
  <2>5. SmokeStep
    BY <2>1, <2>3 DEF SmokeStep
  <2> QED  BY <2>2, <2>4, <2>5
<1>14. ASSUME NEW x \in Standings, ChangeStanding(x) PROVE TypeInv' /\ SmokeStep
  BY <1>1, <1>14, FaultType DEF ChangeStanding, AccountInv
<1>15. ASSUME NEW t \in {"expired", "refused"}, LoseToken(t) PROVE TypeInv' /\ SmokeStep
  BY <1>1, <1>15, FaultType DEF LoseToken, AccountInv
<1>16. ASSUME UNCHANGED vars PROVE TypeInv' /\ SmokeStep
  BY <1>1, <1>16 DEF vars, AccountInv, account
<1>17. ASSUME NEW r \in Runs, CheckedSome(r) PROVE TypeInv' /\ SmokeStep
  BY <1>11, <1>12, <1>17 DEF CheckedSome
<1> QED
  BY <1>2, <1>3, <1>4, <1>5, <1>6, <1>7, <1>8, <1>9, <1>10, <1>13, <1>14, <1>15, <1>16,
     <1>17 DEF Next

LEMMA TypeInvariant == Spec => []TypeInv
<1>1. TypeInv /\ [Next]_vars => TypeInv'
  BY NextTyped
<1> QED  BY <1>1, InitTyped, PTL DEF Spec

\* The number of calls of one kind: of a set with at most one member.
LEMMA CountOfOne ==
    ASSUME NEW S, \A x, y \in S : x = y
    PROVE  Cardinality(S) = IF S = {} THEN 0 ELSE 1
<1>1. CASE S = {}
  BY <1>1, FS_EmptySet
<1>2. CASE S # {}
  <2>1. PICK x : S = {x}
    BY <1>2
  <2> QED  BY <1>2, <2>1, FS_Singleton
<1> QED  BY <1>1, <1>2

LEMMA TypedIsTypeOK == TypeInv => TypeOK
<1> SUFFICES ASSUME TypeInv PROVE TypeOK
  OBVIOUS
<1> USE DEF TypeInv
<1>1. ASSUME NEW q \in Queries
      PROVE  Cardinality({i \in DOMAIN queue : queue[i].op = q /\ queue[i].heard})
                = (IF query[q].fetching THEN 1 ELSE 0)
  <2>1. PICK S : S = {i \in DOMAIN queue : queue[i].op = q /\ queue[i].heard}
    OBVIOUS
  <2>2. \A x, y \in S : x = y
    BY <2>1 DEF CacheInv, Listened, Fetches
  <2>3. query[q].fetching <=> S # {}
    BY <2>1 DEF CacheInv, Listened, Fetches
  <2> QED  BY <2>1, <2>2, <2>3, CountOfOne
<1>2. ASSUME NEW r \in Runs
      PROVE  Cardinality({i \in DOMAIN queue : queue[i].run = r})
                = (IF run[r].pc \in Crud THEN 1 ELSE 0)
  <2>1. PICK S : S = {i \in DOMAIN queue : queue[i].run = r}
    OBVIOUS
  <2>2. \A x, y \in S : x = y
    BY <2>1 DEF RunInv, Stepping
  <2>3. ASSUME NEW i \in S PROVE run[r].pc \in Crud
    <3>1. queue[i] \in Calls /\ queue[i].run = r
      BY <2>1 DEF CacheInv
    <3> QED  BY <2>1, <3>1, CallKinds DEF RunInv, Stepping
  <2>4. run[r].pc \in Crud <=> S # {}
    BY <2>1, <2>3 DEF RunInv, Stepping
  <2> QED  BY <2>1, <2>2, <2>4, CountOfOne
<1> QED
  BY <1>1, <1>2 DEF TypeOK, PlaceInv, AccountInv, RunInv, Results

\* Every variable of the dashboard keeps its type; however logouts, reloads and
\* answers overlap, a query is being fetched exactly while one call that it
\* listens to is in the queue, and a run waits exactly for its own call.
THEOREM DashboardTypeCorrect == Spec => []TypeOK
BY TypeInvariant, TypedIsTypeOK, PTL

-----------------------------------------------------------------------------
(* The items of the smoke test.                                            *)

LEMMA InitItems == Init => ItemInv
BY DEF Init, ItemInv, Cleaned, Truthful

\* A run's answer keeps its promises.
LEMMA SteppedKeeps ==
    ASSUME TypeInv, NEW r \in Runs, NEW ok \in BOOLEAN, SteppedTo(r, ok),
           Cleaned(r), Truthful(r)
    PROVE  Cleaned(r)' /\ Truthful(r)'
<1>1. PICK s \in Results : s = run[r]
  BY DEF TypeInv, RunInv
<1>2. PICK i, i2 : i = item[r] /\ i2 = item'[r]
  OBVIOUS
<1>3. s.created \in BOOLEAN /\ s.pc \in Crud
  BY <1>1 DEF Results, SteppedTo
<1>4. /\ run'[r].pc = Goes(s, ok) /\ run'[r].tally = Tallied(s, ok)
      /\ run'[r].created = CASE s.pc = "create" -> ok
                             [] s.pc = "delete" -> s.created /\ ~ok
                             [] OTHER           -> s.created
      /\ s.pc = "create" => i2 \in {i, "pending", "there"}
      /\ s.pc = "create" /\ ~ok => i2 = "none" \/ left'[r] = "creation unanswered"
      /\ s.pc \notin {"create", "cleanup"} => left'[r] = left[r]
      /\ s.pc = "cleanup" => i2 \notin {"pending", "there", "back"} \/ left'[r] \in Uncleaned
      /\ s.pc \notin {"create", "delete", "cleanup"} => i2 = i
      /\ s.pc \in {"delete", "cleanup"} => i2 \in {"deleting", "gone"} \/ (i2 = i /\ ~ok)
  BY <1>1, <1>2 DEF SteppedTo
<1>5. Cleaned(r) /\ Truthful(r)
  OBVIOUS
<1>6. CASE s.pc = "create"
  <2>1. CASE ok
    BY <1>1, <1>2, <1>3, <1>4, <1>5, <1>6, <2>1 DEF Cleaned, Accounted, Uncleaned, Truthful, Goes, Tallied
  <2>2. CASE ~ok
    BY <1>2, <1>4, <1>6, <2>2 DEF Cleaned, Accounted, Uncleaned, Truthful, Goes, Tallied
  <2> QED  BY <2>1, <2>2
<1>7. CASE s.pc \in {"read", "update"}
  BY <1>1, <1>2, <1>3, <1>4, <1>5, <1>7 DEF Cleaned, Accounted, Uncleaned, Truthful, Goes, Tallied
<1>8. CASE s.pc = "delete"
  <2>1. CASE ok
    BY <1>2, <1>4, <1>8, <2>1 DEF Cleaned, Accounted, Uncleaned, Truthful, Goes
  <2>2. CASE ~ok
    BY <1>1, <1>2, <1>3, <1>4, <1>5, <1>8, <2>2 DEF Cleaned, Accounted, Uncleaned, Truthful, Goes, Tallied
  <2> QED  BY <2>1, <2>2
<1>9. CASE s.pc = "list"
  BY <1>1, <1>2, <1>3, <1>4, <1>5, <1>9 DEF Cleaned, Accounted, Uncleaned, Truthful, Goes, Tallied
<1>10. CASE s.pc = "cleanup"
  BY <1>1, <1>2, <1>3, <1>4, <1>5, <1>10 DEF Cleaned, Accounted, Uncleaned, Truthful, Goes, Tallied
<1> QED  BY <1>3, <1>6, <1>7, <1>8, <1>9, <1>10 DEF Crud

\* A run whose record and item do not change, or that is killed.
LEMMA UntouchedKeeps ==
    ASSUME NEW r \in Runs, Cleaned(r), Truthful(r), item'[r] = item[r],
           left'[r] = left[r],
           run'[r] = run[r] \/ run'[r].pc = "killed"
    PROVE  Cleaned(r)' /\ Truthful(r)'
BY DEF Cleaned, Accounted, Truthful

LEMMA NextItems == TypeInv /\ ItemInv /\ SmokeStep => ItemInv'
<1> SUFFICES ASSUME TypeInv, ItemInv, SmokeStep PROVE ItemInv'
  OBVIOUS
<1> USE DEF ItemInv
<1>1. CASE /\ UNCHANGED <<item, left>>
           /\ \A r \in Runs : run'[r] = run[r] \/ run'[r].pc = "killed"
  BY <1>1, UntouchedKeeps
<1>2. CASE /\ UNCHANGED <<item, left>>
           /\ \E r \in Runs :
                 /\ \A x \in Runs \ {r} : run'[x] = run[x]
                 /\ run[r].pc = "idle" /\ run'[r] = [run[r] EXCEPT !.pc = "auth"]
  <2>1. PICK r \in Runs :
           /\ \A x \in Runs \ {r} : run'[x] = run[x]
           /\ run[r].pc = "idle" /\ run'[r] = [run[r] EXCEPT !.pc = "auth"]
    BY <1>2
  <2>2. run'[r].pc = "auth" /\ run'[r].created = run[r].created
    BY <2>1 DEF TypeInv, RunInv, Results
  <2>3. Cleaned(r)' /\ Truthful(r)'
    BY <1>2, <2>1, <2>2 DEF Cleaned, Accounted, Uncleaned, Truthful
  <2>4. \A x \in Runs \ {r} : Cleaned(x)' /\ Truthful(x)'
    BY <1>2, <2>1, UntouchedKeeps
  <2> QED  BY <2>3, <2>4
<1>3. CASE /\ UNCHANGED <<item, left>>
           /\ \E r \in Runs, ok \in BOOLEAN :
                 /\ \A x \in Runs \ {r} : run'[x] = run[x]
                 /\ run[r].pc \in {"auth", "health"}
                 /\ run'[r].pc = Goes(run[r], ok) /\ run'[r].tally = Tallied(run[r], ok)
                 /\ run'[r].created = run[r].created
  <2>1. PICK r \in Runs, ok \in BOOLEAN :
           /\ \A x \in Runs \ {r} : run'[x] = run[x]
           /\ run[r].pc \in {"auth", "health"}
           /\ run'[r].pc = Goes(run[r], ok) /\ run'[r].tally = Tallied(run[r], ok)
           /\ run'[r].created = run[r].created
    BY <1>3
  <2>2. run[r].created \in BOOLEAN
    BY DEF TypeInv, RunInv, Results
  <2>3. Cleaned(r) /\ Truthful(r)
    OBVIOUS
  <2>4. PICK s, t, i, l : s = run[r] /\ t = run'[r] /\ i = item[r] /\ l = left[r]
    OBVIOUS
  <2>5. /\ item'[r] = i /\ left'[r] = l /\ s.created \in BOOLEAN
        /\ t.pc = Goes(s, ok) /\ t.tally = Tallied(s, ok) /\ t.created = s.created
    BY <1>3, <2>1, <2>2, <2>4
  <2>6. Cleaned(r)' /\ Truthful(r)'
    <3>1. CASE s.pc = "auth"
      <4>1. /\ t.pc = (IF ok THEN "create" ELSE "health") /\ i = "none" /\ ~t.created
            /\ ok \/ t.tally = "skipped"
        BY <3>1, <2>3, <2>4, <2>5 DEF Cleaned, Goes, Tallied
      <4> QED  BY <2>4, <2>5, <4>1 DEF Cleaned, Truthful
    <3>2. CASE s.pc = "health"
      <4>1. /\ t.pc = (IF s.created THEN "cleanup" ELSE "done")
            /\ t.tally = (IF ok THEN s.tally ELSE "failed")
        BY <2>5, <3>2 DEF Goes, Tallied
      <4> QED  BY <2>3, <2>4, <2>5, <3>2, <4>1 DEF Cleaned, Accounted, Truthful
    <3> QED  BY <2>1, <2>4, <3>1, <3>2
  <2>7. \A x \in Runs \ {r} : Cleaned(x)' /\ Truthful(x)'
    BY <1>3, <2>1, UntouchedKeeps
  <2> QED  BY <2>6, <2>7
<1>4. CASE \E r \in Runs, ok \in BOOLEAN : SteppedTo(r, ok)
  <2>1. PICK r \in Runs, ok \in BOOLEAN : SteppedTo(r, ok)
    BY <1>4
  <2>2. Cleaned(r)' /\ Truthful(r)'
    BY <2>1, SteppedKeeps
  <2>3. \A x \in Runs \ {r} : Cleaned(x)' /\ Truthful(x)'
    BY <2>1, UntouchedKeeps DEF SteppedTo
  <2> QED  BY <2>2, <2>3
<1>5. CASE \E r \in Runs : Settled(r)
  <2>1. PICK r \in Runs : Settled(r)
    BY <1>5
  <2>2. Cleaned(r)' /\ Truthful(r)'
    <3>1. Truthful(r)'
      BY <2>1 DEF Settled, Truthful
    <3>2. Cleaned(r)'
      BY <2>1 DEF Settled, Cleaned, Accounted
    <3> QED  BY <3>1, <3>2
  <2>3. \A x \in Runs \ {r} : Cleaned(x)' /\ Truthful(x)'
    BY <2>1, UntouchedKeeps DEF Settled
  <2> QED  BY <2>2, <2>3
<1> QED  BY <1>1, <1>2, <1>3, <1>4, <1>5 DEF SmokeStep

LEMMA ItemInvariant == Spec => []ItemInv
<1>1. TypeInv /\ ItemInv /\ [Next]_vars => ItemInv'
  BY NextTyped, NextItems
<1> QED  BY <1>1, InitItems, TypeInvariant, PTL DEF Spec

\* However many runs, faults and reloads there are and whichever of its steps
\* fail, a run that ended has left its item behind only after a creation that
\* was carried out without an answer, a cleanup without one, refused, or earlier
\* than the creation's commit, all of them in a run whose summary says that
\* something failed, or after the rollback of a deletion (use-smoke-test.ts:126-135).
THEOREM RunsLeaveNoItem == Spec => []NoOrphan
<1>1. ItemInv => NoOrphan
  BY DEF ItemInv, Cleaned, Accounted, NoOrphan
<1> QED  BY <1>1, ItemInvariant, PTL

\* A summary that says "passed" is about an item that was stored, found and
\* deleted (smoke-test.tsx:93-99).
THEOREM SummaryIsTrue == Spec => []PassedMeansDone
<1>1. ItemInv => PassedMeansDone
  BY DEF ItemInv, Truthful, PassedMeansDone
<1> QED  BY <1>1, ItemInvariant, PTL
=============================================================================
