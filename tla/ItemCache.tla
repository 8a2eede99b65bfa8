----------------------------- MODULE ItemCache -----------------------------
(***************************************************************************)
(* The read-through cache of backend/app/core/cache.py, as the item list   *)
(* of backend/app/feature_example uses it, with the request-scoped         *)
(* transaction of get_db around the writers.                               *)
(*                                                                         *)
(* READERS run ItemService.list_items: GET, then SET NX a lock; the winner *)
(* fetches, stores and deletes the lock, a loser polls the cache and at    *)
(* last fetches without storing.  WRITERS run create_item, update_item or  *)
(* delete_item: flush, SCAN and UNLINK the owner's pages, and only then    *)
(* (get_db exits after the handler) commit.  Every Redis error is          *)
(* swallowed by the code, and an error may hide a command that Redis did   *)
(* execute, or still will: a command that timed out is sent once more      *)
(* (retry_on_timeout), and its first copy may be on its way (LATE) when    *)
(* its caller has long gone on.  No time is modelled: the lock's 10 s may  *)
(* be over before the fetch, which may take 30 s.                          *)
(*                                                                         *)
(* A page's contents are abstracted to the committed version it was read   *)
(* at.  One owner is modelled: the key pattern items:{owner}:* never       *)
(* reaches another owner's keys, nor the lock keys (lock:items:...).       *)
(* A writer that finds no item (404) or whose flush fails changes nothing  *)
(* and is a stutter of an idle writer.                                     *)
(***************************************************************************)
EXTENDS Integers, FiniteSets

CONSTANTS
    Readers,      \* concurrent list requests
    Writers,      \* concurrent create/update/delete requests
    Keys,         \* pages items:{owner}:{offset}:{limit} of one owner
    Polls,        \* cache.py:54, 5 in the code
    BatchSize,    \* cache.py:78, 1000 in the code
    MaxVersion,   \* bound: no write starts at this version or later
    MaxLate       \* bound: commands on their way whose callers have gone on

ASSUME CountsAssumption ==
    /\ Polls \in Nat \ {0}
    /\ BatchSize \in Nat \ {0}
    /\ MaxVersion \in Nat
    /\ MaxLate \in Nat

Empty == -1       \* a key that is not in Redis; below every version

VARIABLES
    version,      \* number of committed writes to the owner's items
    cache,        \* Redis: the version stored under each key, or Empty
    lock,         \* Redis: is "lock:" + key set?
    late,         \* copies of commands that Redis may still execute
    outlived,     \* history: was the lock of a request now at work lost?
    rpc, rkey, rval, rpolls,   \* a reader's place, key, result, poll count
    wpc, wtodo, wfound         \* a writer's place, unscanned and found keys

redis == <<cache, lock, late>>
readerVars == <<rpc, rkey, rval, rpolls>>
writerVars == <<wpc, wtodo, wfound>>
vars == <<version, redis, readerVars, writerVars, outlived>>

ReaderPCs == {"idle", "get", "setnx", "fetch", "store", "unlock", "wait", "direct"}
WriterPCs == {"idle", "scan", "unlink", "commit"}

\* The reader won the lock and has not yet tried to delete it.
Winner(r) == rpc[r] \in {"fetch", "store", "unlock"}

Init ==
    /\ version = 0
    /\ cache = [k \in Keys |-> Empty]
    /\ lock = [k \in Keys |-> FALSE]
    /\ late = {}
    /\ outlived = [k \in Keys |-> FALSE]
    /\ rpc = [r \in Readers |-> "idle"]
    /\ rkey \in [Readers -> Keys]
    /\ rval = [r \in Readers |-> Empty]
    /\ rpolls = [r \in Readers |-> 0]
    /\ wpc = [w \in Writers |-> "idle"]
    /\ wtodo = [w \in Writers |-> {}]
    /\ wfound = [w \in Writers |-> {}]

-----------------------------------------------------------------------------
(* Redis: commands sent twice, expiry                                      *)

Commands ==
    [cmd : {"nx", "del"}, key : Keys] \cup [cmd : {"set"}, key : Keys, val : Nat]

\* The call timed out: a copy of its command may be left on the way.  (Copies
\* that say the same are not told apart.)
LeavesCopy(c) ==
    \/ UNCHANGED late
    \/ /\ Cardinality(late) < MaxLate
       /\ late' = late \cup {c}

\* SET key ex=ttl.
Put(k, v) ==
    /\ cache' = [cache EXCEPT ![k] = v]
    /\ UNCHANGED lock

\* A copy is executed when nobody waits for it any more.
LateRuns(c) ==
    /\ c \in late
    /\ late' = late \ {c}
    /\ \/ c.cmd = "set" /\ Put(c.key, c.val)
       \/ /\ c.cmd \in {"nx", "del"}
          /\ lock' = [lock EXCEPT ![c.key] = (c.cmd = "nx")]
          /\ UNCHANGED cache
    /\ UNCHANGED <<version, readerVars, writerVars>>

\* The connection of a copy breaks.
LateLost(c) ==
    /\ c \in late
    /\ late' = late \ {c}
    /\ UNCHANGED <<version, cache, lock, readerVars, writerVars>>

Remove(S) ==
    /\ cache' = [k \in Keys |-> IF k \in S THEN Empty ELSE cache[k]]
    /\ UNCHANGED <<lock, late>>

\* Mutant: SET without ex.
NoExpiry(k) == FALSE /\ k \in Keys /\ UNCHANGED vars

\* The TTL of a page runs from its last SET; a hit does not extend it.  An
\* UNLINK that is executed late is such a step too.
ExpireKey(k) ==
    /\ cache[k] # Empty
    /\ Remove({k})
    /\ UNCHANGED <<version, readerVars, writerVars>>

\* ex=10, whether the request that set the lock is still at work or not.
ExpireLock(k) ==
    /\ lock[k]
    /\ lock' = [lock EXCEPT ![k] = FALSE]
    /\ UNCHANGED <<version, cache, late, readerVars, writerVars>>

-----------------------------------------------------------------------------
(* Readers: cached(key, ttl, fetch_fn)                                     *)

Goto(r, pc) == rpc' = [rpc EXCEPT ![r] = pc]

\* A value or an error is returned: nothing of the request is remembered.
Return(r) ==
    /\ Goto(r, "idle")
    /\ rval' = [rval EXCEPT ![r] = Empty]
    /\ rpolls' = [rpolls EXCEPT ![r] = 0]
    /\ UNCHANGED rkey

Start(r, k) ==
    /\ rpc[r] = "idle"
    /\ Goto(r, "get")
    /\ rkey' = [rkey EXCEPT ![r] = k]
    /\ UNCHANGED <<version, redis, rval, rpolls, writerVars>>

GetHit(r) ==
    /\ rpc[r] = "get"
    /\ cache[rkey[r]] # Empty
    /\ Return(r)
    /\ UNCHANGED <<version, redis, writerVars>>

\* A miss and a Redis error continue alike, so an error makes any key a miss.
GetMiss(r) ==
    /\ rpc[r] = "get"
    /\ Goto(r, "setnx")
    /\ UNCHANGED <<version, redis, rkey, rval, rpolls, writerVars>>

\* Mutant: SET without nx.
TryLock_NoNX(r) ==
    /\ rpc[r] = "setnx"
    /\ lock' = [lock EXCEPT ![rkey[r]] = TRUE]
    /\ LeavesCopy([cmd |-> "nx", key |-> rkey[r]])
    /\ Goto(r, "fetch")
    /\ UNCHANGED <<version, cache, rkey, rval, rpolls, writerVars>>

TryLock(r) ==
    /\ rpc[r] = "setnx"
    /\ ~lock[rkey[r]]
    /\ lock' = [lock EXCEPT ![rkey[r]] = TRUE]
    /\ LeavesCopy([cmd |-> "nx", key |-> rkey[r]])
    /\ Goto(r, "fetch")
    /\ UNCHANGED <<version, cache, rkey, rval, rpolls, writerVars>>

LockTaken(r) ==
    /\ rpc[r] = "setnx"
    /\ lock[rkey[r]]
    /\ LeavesCopy([cmd |-> "nx", key |-> rkey[r]])
    /\ Goto(r, "wait")
    /\ UNCHANGED <<version, cache, lock, rkey, rval, rpolls, writerVars>>

\* SET NX raises, or its retry answers nil: the lock may be set, by nobody.
TryLockFails(r) ==
    /\ rpc[r] = "setnx"
    /\ \E applied \in BOOLEAN :
           lock' = [lock EXCEPT ![rkey[r]] = @ \/ applied]
    /\ LeavesCopy([cmd |-> "nx", key |-> rkey[r]])
    /\ Goto(r, "wait")
    /\ UNCHANGED <<version, cache, rkey, rval, rpolls, writerVars>>

\* Mutant: the query sees what an open transaction has flushed.
Fetch_Uncommitted(r) ==
    /\ rpc[r] = "fetch"
    /\ \E v \in {version} \cup {version + 1 : w \in {x \in Writers : wpc[x] # "idle"}} :
           rval' = [rval EXCEPT ![r] = v]
    /\ Goto(r, "store")
    /\ UNCHANGED <<version, redis, rkey, rpolls, writerVars>>

\* READ COMMITTED: the query sees the last committed version.
Fetch(r) ==
    /\ rpc[r] = "fetch"
    /\ rval' = [rval EXCEPT ![r] = version]
    /\ Goto(r, "store")
    /\ UNCHANGED <<version, redis, rkey, rpolls, writerVars>>

\* The query raises (timeout, lost connection): only the finally runs.
FetchFails(r) ==
    /\ rpc[r] = "fetch"
    /\ Goto(r, "unlock")
    /\ UNCHANGED <<version, redis, rkey, rval, rpolls, writerVars>>

\* SET of the page.
Store(r) ==
    /\ rpc[r] = "store"
    /\ Put(rkey[r], rval[r])
    /\ LeavesCopy([cmd |-> "set", key |-> rkey[r], val |-> rval[r]])
    /\ Goto(r, "unlock")
    /\ UNCHANGED <<version, rkey, rval, rpolls, writerVars>>

\* SET raises and has not been executed (executed: the same as Store).
StoreFails(r) ==
    /\ rpc[r] = "store"
    /\ LeavesCopy([cmd |-> "set", key |-> rkey[r], val |-> rval[r]])
    /\ Goto(r, "unlock")
    /\ UNCHANGED <<version, cache, lock, rkey, rval, rpolls, writerVars>>

\* DEL lock: whoever holds it, the value "1" names nobody.
Unlock(r) ==
    /\ rpc[r] = "unlock"
    /\ lock' = [lock EXCEPT ![rkey[r]] = FALSE]
    /\ LeavesCopy([cmd |-> "del", key |-> rkey[r]])
    /\ Return(r)
    /\ UNCHANGED <<version, cache, writerVars>>

\* DEL raises and has not been executed: the lock is left to its TTL.
UnlockFails(r) ==
    /\ rpc[r] = "unlock"
    /\ LeavesCopy([cmd |-> "del", key |-> rkey[r]])
    /\ Return(r)
    /\ UNCHANGED <<version, cache, lock, writerVars>>

PollHit(r) ==
    /\ rpc[r] = "wait"
    /\ cache[rkey[r]] # Empty
    /\ Return(r)
    /\ UNCHANGED <<version, redis, writerVars>>

\* Mutants: one poll too many; the polls are not counted.
PollMiss_OneMore(r) ==
    /\ rpc[r] = "wait"
    /\ rpolls' = [rpolls EXCEPT ![r] = @ + 1]
    /\ Goto(r, IF rpolls[r] < Polls THEN "wait" ELSE "direct")
    /\ UNCHANGED <<version, redis, rkey, rval, writerVars>>

PollMiss_Forever(r) ==
    /\ rpc[r] = "wait"
    /\ UNCHANGED vars

\* A miss or a Redis error; after the last one the loser fetches by itself.
PollMiss(r) ==
    /\ rpc[r] = "wait"
    /\ rpolls' = [rpolls EXCEPT ![r] = @ + 1]
    /\ Goto(r, IF rpolls[r] + 1 < Polls THEN "wait" ELSE "direct")
    /\ UNCHANGED <<version, redis, rkey, rval, writerVars>>

\* Mutant: the fallback stores its result without holding the lock.
Fallback_Stores(r) ==
    /\ rpc[r] = "direct"
    /\ Put(rkey[r], version)
    /\ Return(r)
    /\ UNCHANGED <<version, late, writerVars>>

\* The fallback answers, or raises, and leaves the cache alone.
Fallback(r) ==
    /\ rpc[r] = "direct"
    /\ Return(r)
    /\ UNCHANGED <<version, redis, writerVars>>

\* The worker process dies: no finally runs, the lock stays.
ReaderCrash(r) ==
    /\ rpc[r] # "idle"
    /\ Return(r)
    /\ UNCHANGED <<version, redis, writerVars>>

-----------------------------------------------------------------------------
(* Writers: flush, invalidate(pattern), respond, commit                    *)

\* The item is found and the change flushed into the open transaction.
Flush(w) ==
    /\ wpc[w] = "idle"
    /\ version < MaxVersion
    /\ wpc' = [wpc EXCEPT ![w] = "scan"]
    /\ wtodo' = [wtodo EXCEPT ![w] = Keys]
    /\ wfound' = [wfound EXCEPT ![w] = {}]
    /\ UNCHANGED <<version, redis, readerVars>>

\* SCAN visits the keys one after the other, in any order.
ScanKey(w) ==
    /\ wpc[w] = "scan"
    /\ \E k \in wtodo[w] :
           /\ wtodo' = [wtodo EXCEPT ![w] = @ \ {k}]
           /\ wfound' = [wfound EXCEPT ![w] =
                             IF cache[k] # Empty THEN @ \cup {k} ELSE @]
    /\ UNCHANGED <<version, redis, readerVars, wpc>>

ScanDone(w) ==
    /\ wpc[w] = "scan"
    /\ wtodo[w] = {}
    /\ wpc' = [wpc EXCEPT ![w] = "unlink"]
    /\ UNCHANGED <<version, redis, readerVars, wtodo, wfound>>

\* One pipeline (MULTI/EXEC) removes one batch of the keys found.
Batches(w) == {B \in SUBSET wfound[w] :
                  /\ B # {}
                  /\ Cardinality(B) <= BatchSize
                  /\ B = wfound[w] \/ Cardinality(B) = BatchSize}

UnlinkBatch(w) ==
    /\ wpc[w] = "unlink"
    /\ \E B \in Batches(w) :
           /\ Remove(B)
           /\ wfound' = [wfound EXCEPT ![w] = @ \ B]
    /\ UNCHANGED <<version, readerVars, wpc, wtodo>>

UnlinkDone(w) ==
    /\ wpc[w] = "unlink"
    /\ wfound[w] = {}
    /\ wpc' = [wpc EXCEPT ![w] = "commit"]
    /\ UNCHANGED <<version, redis, readerVars, wtodo, wfound>>

\* A Redis error ends the invalidation: the keys left over stay cached.
InvalidateFails(w) ==
    /\ wpc[w] \in {"scan", "unlink"}
    /\ wpc' = [wpc EXCEPT ![w] = "commit"]
    /\ wtodo' = [wtodo EXCEPT ![w] = {}]
    /\ wfound' = [wfound EXCEPT ![w] = {}]
    /\ UNCHANGED <<version, redis, readerVars>>

\* get_db leaves session.begin() after the handler has returned.
Commit(w) ==
    /\ wpc[w] = "commit"
    /\ version' = version + 1
    /\ wpc' = [wpc EXCEPT ![w] = "idle"]
    /\ UNCHANGED <<redis, readerVars, wtodo, wfound>>

\* COMMIT fails, or the process dies at any point before it.
Rollback(w) ==
    /\ wpc[w] # "idle"
    /\ wpc' = [wpc EXCEPT ![w] = "idle"]
    /\ wtodo' = [wtodo EXCEPT ![w] = {}]
    /\ wfound' = [wfound EXCEPT ![w] = {}]
    /\ UNCHANGED <<version, redis, readerVars>>

-----------------------------------------------------------------------------
ReaderStep(r) ==
    \/ GetHit(r) \/ GetMiss(r)
    \/ TryLock(r) \/ LockTaken(r) \/ TryLockFails(r)
    \/ Fetch(r) \/ FetchFails(r)
    \/ Store(r) \/ StoreFails(r)
    \/ Unlock(r) \/ UnlockFails(r)
    \/ PollHit(r) \/ PollMiss(r) \/ Fallback(r)

WriterStep(w) ==
    \/ ScanKey(w) \/ ScanDone(w)
    \/ UnlinkBatch(w) \/ UnlinkDone(w) \/ InvalidateFails(w)
    \/ Commit(w) \/ Rollback(w)

\* History: a lock goes, by its TTL or somebody's DEL, while requests that have
\* won it go on.  This is forgotten when none of the page is at work any more.
Observe ==
    LET at(k) == {r \in Readers : Winner(r) /\ rkey[r] = k}
    IN outlived' = [k \in Keys |->
           /\ at(k)' # {}
           /\ \/ outlived[k]
              \/ lock[k] /\ ~lock'[k] /\ \A r \in at(k)' : rpc'[r] = rpc[r]]

Step ==
    \/ \E r \in Readers, k \in Keys : Start(r, k)
    \/ \E r \in Readers : ReaderStep(r) \/ ReaderCrash(r)
    \/ \E w \in Writers : Flush(w) \/ WriterStep(w)
    \/ \E k \in Keys : ExpireKey(k) \/ ExpireLock(k)
    \/ \E c \in late : LateRuns(c) \/ LateLost(c)

Next == Step /\ Observe

Spec == Init /\ [][Next]_vars

\* The event loop runs every request it has accepted, and Redis expires pages.
\* Nobody is obliged to send a request, and no lock need ever expire.
Fairness ==
    /\ \A r \in Readers : WF_vars(ReaderStep(r) /\ Observe)
    /\ \A w \in Writers : WF_vars(WriterStep(w) /\ Observe)
    /\ \A k \in Keys : WF_vars(ExpireKey(k) /\ Observe)

FairSpec == Spec /\ Fairness

-----------------------------------------------------------------------------
TypeOK ==
    /\ version \in Nat
    /\ cache \in [Keys -> Nat \cup {Empty}]
    /\ lock \in [Keys -> BOOLEAN]
    /\ late \subseteq Commands
    /\ outlived \in [Keys -> BOOLEAN]
    /\ rpc \in [Readers -> ReaderPCs]
    /\ rkey \in [Readers -> Keys]
    /\ rval \in [Readers -> Nat \cup {Empty}]
    /\ rpolls \in [Readers -> 0 .. Polls]
    /\ \A r \in Readers : rpc[r] # "direct" => rpolls[r] < Polls
    /\ \A r \in Readers : rpc[r] = "store" => rval[r] # Empty
    /\ wpc \in [Writers -> WriterPCs]
    /\ wtodo \in [Writers -> SUBSET Keys]
    /\ wfound \in [Writers -> SUBSET Keys]

\* Of the requests that missed a page at most one computes it for the cache,
\* except in a chain of overlapping ones that began when the first of them
\* outlived its lock or lost it to a DEL of somebody else: the DEL names no owner,
\* so each that leaves may let the next one in (cached, cache.py:33-49).
OneWinnerUnlessOutlived ==
    \A r, s \in Readers :
        Winner(r) /\ Winner(s) /\ rkey[r] = rkey[s] => r = s \/ outlived[rkey[r]]

\* A page never holds a version that is not committed, whatever transactions
\* are open while it is filled; and what a winner is about to store is no older
\* than the page, unless a lock of the page has been outlived: neither fallbacks
\* nor commands executed late put a newer one there first (cached, cache.py:41-43).
VersionsOrdered ==
    /\ \A k \in Keys : cache[k] <= version
    /\ \A r \in Readers :
           rpc[r] = "store" =>
               /\ rval[r] \in 0 .. version
               /\ cache[rkey[r]] <= rval[r] \/ outlived[rkey[r]]

\* The versions on their way to a page: fetched by a winner, or in a late SET.
Carried == [k \in Keys |->
    {rval[r] : r \in {s \in Readers : rpc[s] = "store" /\ rkey[s] = k}} \cup
    {c.val : c \in {d \in late : d.cmd = "set" /\ d.key = k}}]

\* The cache with its locks, scans, polls, crashes, Redis errors, outlived locks
\* and commands executed late is a register of pages: a page is filled only with
\* a version that was read when it was current and has been on its way since.
Register == INSTANCE PageRegister WITH carried <- Carried
ImplementsRegister == Register!Spec

\* Every list request is answered, even when the winner died, its lock was
\* orphaned or Redis fails at every call (cached, cache.py:52-66).
EveryReadAnswered ==
    \A r \in Readers : rpc[r] # "idle" ~> rpc[r] = "idle"

\* Once the writes have stopped, no page is stale for ever, although a page
\* may be refilled with the old version between UNLINK and COMMIT and a failed
\* invalidation or a late SET leaves it in place.
EventuallyFresh == <>[](\A k \in Keys : cache[k] \in {Empty, version})

-----------------------------------------------------------------------------
(* What the documentation says and the code does not do                    *)

\* "Stampede protection" (cache.py:1, 22): of the requests that missed a page, at
\* most one computes it for the cache.
OneWinner ==
    \A r, s \in Readers :
        Winner(r) /\ Winner(s) /\ rkey[r] = rkey[s] => r = s
=============================================================================
