-------------------------- MODULE ItemCacheProofs --------------------------
(***************************************************************************)
(* Proofs about ItemCache, for any number of requests, writers and pages   *)
(* and with everything the model lets go wrong: locks that expire under    *)
(* their winners, commands that are executed late, crashes, Redis errors.  *)
(*                                                                         *)
(* The inductive invariant is IInv.  Its first part is the lock protocol:  *)
(* a winner's lock is set unless it has been outlived, so a second winner  *)
(* of the page needs an outlived lock (LockInv).  The order of the         *)
(* versions rests on it, and needs in addition what the late SETs carry    *)
(* (LateOrdered): nothing newer than what a winner of the page fetched.    *)
(***************************************************************************)
EXTENDS ItemCache, TLAPS

\* A winner's lock is set, or has been outlived.
LockHeld == \A r \in Readers : Winner(r) => lock[rkey[r]] \/ outlived[rkey[r]]

LockInv == TypeOK /\ LockHeld /\ OneWinnerUnlessOutlived

\* A SET that is still on its way carries a committed version, no newer than what
\* the winner of its page is about to store, unless the lock has been outlived.
LateOrdered ==
    \A c \in late :
        c.cmd = "set" =>
            /\ c.val \in 0 .. version
            /\ \A r \in Readers :
                   rpc[r] = "store" /\ rkey[r] = c.key =>
                       c.val <= rval[r] \/ outlived[c.key]

IInv == LockInv /\ VersionsOrdered /\ LateOrdered

\* What the proofs need of the history variable: while a winner of the page is at
\* work it stays set, and it is set when the lock goes unless a winner moves and
\* stays one.
Watched ==
    \A r \in Readers :
        Winner(r)' =>
            \/ outlived'[rkey'[r]]
            \/ /\ ~outlived[rkey'[r]]
               /\ \/ ~lock[rkey'[r]]
                  \/ lock'[rkey'[r]]
                  \/ \E s \in Readers : Winner(s)' /\ rkey'[s] = rkey'[r] /\ rpc'[s] # rpc[s]

LEMMA ObserveWatches ==
    ASSUME Observe, rkey' \in [Readers -> Keys]
    PROVE  Watched
  BY DEF Observe, Watched

LEMMA ObserveTypes == Observe => outlived' \in [Keys -> BOOLEAN]
  BY DEF Observe

-----------------------------------------------------------------------------
LEMMA TypeInit == Init => TypeOK
<1> USE DEF Init, TypeOK, Empty, ReaderPCs, WriterPCs
<1> QED BY CountsAssumption

\* All variables that a step itself changes.
StepTypeOK ==
    /\ version \in Nat
    /\ cache \in [Keys -> Nat \cup {Empty}]
    /\ lock \in [Keys -> BOOLEAN]
    /\ late \subseteq Commands
    /\ rpc \in [Readers -> ReaderPCs]
    /\ rkey \in [Readers -> Keys]
    /\ rval \in [Readers -> Nat \cup {Empty}]
    /\ rpolls \in [Readers -> 0 .. Polls]
    /\ \A r \in Readers : rpc[r] # "direct" => rpolls[r] < Polls
    /\ \A r \in Readers : rpc[r] = "store" => rval[r] # Empty
    /\ wpc \in [Writers -> WriterPCs]
    /\ wtodo \in [Writers -> SUBSET Keys]
    /\ wfound \in [Writers -> SUBSET Keys]

\* Only commands of the three kinds are ever left on the way.
LEMMA CopiesTyped ==
    ASSUME StepTypeOK, NEW r \in Readers
    PROVE  /\ [cmd |-> "nx", key |-> rkey[r]] \in Commands
           /\ [cmd |-> "del", key |-> rkey[r]] \in Commands
           /\ rpc[r] = "store" => [cmd |-> "set", key |-> rkey[r], val |-> rval[r]] \in Commands
  BY DEF StepTypeOK, Commands, Empty

LEMMA StepTypes == StepTypeOK /\ Step => StepTypeOK'
<1> SUFFICES ASSUME StepTypeOK, Step PROVE StepTypeOK'
  OBVIOUS
<1> USE CountsAssumption
    DEF StepTypeOK, Empty, ReaderPCs, WriterPCs, redis, readerVars, writerVars,
        Goto, Return, Put, Remove, LeavesCopy
<1>1. ASSUME NEW r \in Readers, NEW k \in Keys, Start(r, k) PROVE StepTypeOK'
  BY <1>1 DEF Start
<1>2. ASSUME NEW r \in Readers, ReaderStep(r) PROVE StepTypeOK'
  <2>1. CASE GetHit(r)  BY <2>1 DEF GetHit
  <2>2. CASE GetMiss(r)  BY <2>2 DEF GetMiss
  <2>3. CASE TryLock(r)  BY <2>3, CopiesTyped DEF TryLock
  <2>4. CASE LockTaken(r)  BY <2>4, CopiesTyped DEF LockTaken
  <2>5. CASE TryLockFails(r)  BY <2>5, CopiesTyped DEF TryLockFails
  <2>6. CASE Fetch(r)  BY <2>6 DEF Fetch
  <2>7. CASE FetchFails(r)  BY <2>7 DEF FetchFails
  <2>8. CASE Store(r)  BY <2>8, CopiesTyped DEF Store
  <2>9. CASE StoreFails(r)  BY <2>9, CopiesTyped DEF StoreFails
  <2>10. CASE Unlock(r)
    <3>1. [cmd |-> "del", key |-> rkey[r]] \in Commands
      BY CopiesTyped
    <3>2. late' \subseteq Commands
      BY <2>10, <3>1 DEF Unlock
    <3> QED  BY <2>10, <3>2 DEF Unlock
  <2>11. CASE UnlockFails(r)
    <3>1. [cmd |-> "del", key |-> rkey[r]] \in Commands
      BY CopiesTyped
    <3>2. late' \subseteq Commands
      BY <2>11, <3>1 DEF UnlockFails
    <3> QED  BY <2>11, <3>2 DEF UnlockFails
  <2>12. CASE PollHit(r)  BY <2>12 DEF PollHit
  <2>13. CASE PollMiss(r)  BY <2>13 DEF PollMiss
  <2>14. CASE Fallback(r)  BY <2>14 DEF Fallback
  <2> QED
    BY <1>2, <2>1, <2>2, <2>3, <2>4, <2>5, <2>6, <2>7, <2>8, <2>9, <2>10, <2>11, <2>12, <2>13, <2>14 DEF ReaderStep
<1>3. ASSUME NEW r \in Readers, ReaderCrash(r) PROVE StepTypeOK'
  BY <1>3 DEF ReaderCrash
<1>4. ASSUME NEW w \in Writers, Flush(w) PROVE StepTypeOK'
  BY <1>4 DEF Flush
<1>5. ASSUME NEW w \in Writers, WriterStep(w) PROVE StepTypeOK'
  <2>1. CASE ScanKey(w)  BY <2>1 DEF ScanKey
  <2>2. CASE ScanDone(w)  BY <2>2 DEF ScanDone
  <2>3. CASE UnlinkBatch(w)  BY <2>3 DEF UnlinkBatch, Batches
  <2>4. CASE UnlinkDone(w)  BY <2>4 DEF UnlinkDone
  <2>5. CASE InvalidateFails(w)  BY <2>5 DEF InvalidateFails
  <2>6. CASE Commit(w)  BY <2>6 DEF Commit
  <2>7. CASE Rollback(w)  BY <2>7 DEF Rollback
  <2> QED
    BY <1>5, <2>1, <2>2, <2>3, <2>4, <2>5, <2>6, <2>7 DEF WriterStep
<1>6. ASSUME NEW k \in Keys, ExpireKey(k) PROVE StepTypeOK'
  BY <1>6 DEF ExpireKey
<1>7. ASSUME NEW k \in Keys, ExpireLock(k) PROVE StepTypeOK'
  BY <1>7 DEF ExpireLock
<1>8. ASSUME NEW c \in late, LateRuns(c) PROVE StepTypeOK'
  <2>1. CASE c.cmd = "set"
    BY <1>8, <2>1 DEF LateRuns, Commands
  <2>2. CASE c.cmd # "set"
    BY <1>8, <2>2 DEF LateRuns, Commands
  <2> QED  BY <2>1, <2>2
<1>9. ASSUME NEW c \in late, LateLost(c) PROVE StepTypeOK'
  BY <1>9 DEF LateLost
<1> QED
  BY <1>1, <1>2, <1>3, <1>4, <1>5, <1>6, <1>7, <1>8, <1>9 DEF Step

LEMMA TypeNext == TypeOK /\ [Next]_vars => TypeOK'
<1>1. TypeOK <=> StepTypeOK /\ outlived \in [Keys -> BOOLEAN]
  BY DEF TypeOK, StepTypeOK
<1>2. TypeOK' <=> StepTypeOK' /\ outlived' \in [Keys -> BOOLEAN]
  BY DEF TypeOK, StepTypeOK
<1>3. TypeOK /\ Next => TypeOK'
  BY <1>1, <1>2, StepTypes, ObserveTypes DEF Next
<1>4. TypeOK /\ UNCHANGED vars => TypeOK'
  BY DEF TypeOK, vars, redis, readerVars, writerVars
<1> QED  BY <1>3, <1>4

\* Every variable keeps its type: in particular a loser polls Polls times at most
\* before it fetches by itself, and only a fetched version is ever stored.
THEOREM TypeCorrect == Spec => []TypeOK
<1>1. QED
  BY TypeInit, TypeNext, PTL DEF Spec

-----------------------------------------------------------------------------
\* The lock protocol: only TryLock makes a winner, and it needs a free lock;
\* whatever else frees a lock is observed, unless it is its winner that leaves.
LEMMA LockStep ==
    ASSUME LockInv, TypeOK', Step, Watched
    PROVE  LockHeld' /\ OneWinnerUnlessOutlived'
<1> USE DEF LockInv, TypeOK, LockHeld, OneWinnerUnlessOutlived, Winner, Watched,
        ReaderPCs, redis, readerVars, writerVars, Goto, Return, Put, Remove
<1>1. ASSUME NEW r \in Readers, NEW k \in Keys, Start(r, k) PROVE LockHeld' /\ OneWinnerUnlessOutlived'
  BY <1>1 DEF Start
<1>2. ASSUME NEW r \in Readers, ReaderStep(r) PROVE LockHeld' /\ OneWinnerUnlessOutlived'
  <2>1. CASE GetHit(r)  BY <2>1 DEF GetHit
  <2>2. CASE GetMiss(r)  BY <2>2 DEF GetMiss
  <2>3. CASE TryLock(r)  BY <2>3 DEF TryLock
  <2>4. CASE LockTaken(r)  BY <2>4 DEF LockTaken
  <2>5. CASE TryLockFails(r)  BY <2>5 DEF TryLockFails
  <2>6. CASE Fetch(r)  BY <2>6 DEF Fetch
  <2>7. CASE FetchFails(r)  BY <2>7 DEF FetchFails
  <2>8. CASE Store(r)  BY <2>8 DEF Store
  <2>9. CASE StoreFails(r)  BY <2>9 DEF StoreFails
  <2>10. CASE Unlock(r)  BY <2>10 DEF Unlock
  <2>11. CASE UnlockFails(r)  BY <2>11 DEF UnlockFails
  <2>12. CASE PollHit(r)  BY <2>12 DEF PollHit
  <2>13. CASE PollMiss(r)  BY <2>13 DEF PollMiss
  <2>14. CASE Fallback(r)  BY <2>14 DEF Fallback
  <2> QED
    BY <1>2, <2>1, <2>2, <2>3, <2>4, <2>5, <2>6, <2>7, <2>8, <2>9, <2>10, <2>11, <2>12, <2>13, <2>14 DEF ReaderStep
<1>3. ASSUME NEW r \in Readers, ReaderCrash(r) PROVE LockHeld' /\ OneWinnerUnlessOutlived'
  BY <1>3 DEF ReaderCrash
<1>4. ASSUME NEW w \in Writers, Flush(w) PROVE LockHeld' /\ OneWinnerUnlessOutlived'
  BY <1>4 DEF Flush
<1>5. ASSUME NEW w \in Writers, WriterStep(w) PROVE LockHeld' /\ OneWinnerUnlessOutlived'
  <2>1. CASE ScanKey(w)  BY <2>1 DEF ScanKey
  <2>2. CASE ScanDone(w)  BY <2>2 DEF ScanDone
  <2>3. CASE UnlinkBatch(w)  BY <2>3 DEF UnlinkBatch
  <2>4. CASE UnlinkDone(w)  BY <2>4 DEF UnlinkDone
  <2>5. CASE InvalidateFails(w)  BY <2>5 DEF InvalidateFails
  <2>6. CASE Commit(w)  BY <2>6 DEF Commit
  <2>7. CASE Rollback(w)  BY <2>7 DEF Rollback
  <2> QED
    BY <1>5, <2>1, <2>2, <2>3, <2>4, <2>5, <2>6, <2>7 DEF WriterStep
<1>6. ASSUME NEW k \in Keys, ExpireKey(k) PROVE LockHeld' /\ OneWinnerUnlessOutlived'
  BY <1>6 DEF ExpireKey
<1>7. ASSUME NEW k \in Keys, ExpireLock(k) PROVE LockHeld' /\ OneWinnerUnlessOutlived'
  BY <1>7 DEF ExpireLock
<1>8. ASSUME NEW c \in late, LateRuns(c) PROVE LockHeld' /\ OneWinnerUnlessOutlived'
  BY <1>8 DEF LateRuns
<1>9. ASSUME NEW c \in late, LateLost(c) PROVE LockHeld' /\ OneWinnerUnlessOutlived'
  BY <1>9 DEF LateLost
<1> QED
  BY <1>1, <1>2, <1>3, <1>4, <1>5, <1>6, <1>7, <1>8, <1>9 DEF Step

LEMMA LockNext == LockInv /\ [Next]_vars => LockInv'
<1>1. LockInv /\ Next => LockInv'
  <2> SUFFICES ASSUME LockInv, Next PROVE LockInv'
    OBVIOUS
  <2>1. TypeOK'
    BY TypeNext DEF LockInv
  <2>2. Watched
    BY <2>1, ObserveWatches DEF Next, TypeOK
  <2> QED  BY <2>1, <2>2, LockStep DEF Next, LockInv
<1>2. LockInv /\ UNCHANGED vars => LockInv'
  BY DEF LockInv, TypeOK, LockHeld, OneWinnerUnlessOutlived, Winner,
         vars, redis, readerVars, writerVars
<1> QED  BY <1>1, <1>2

\* Two requests compute the same page for the cache only in a chain of overlapping
\* ones that began with a lock lost under its winner.
THEOREM StampedeProtection == Spec => []OneWinnerUnlessOutlived
<1>1. Init => LockInv
  BY TypeInit DEF Init, LockInv, LockHeld, OneWinnerUnlessOutlived, Winner
<1>2. LockInv => OneWinnerUnlessOutlived
  BY DEF LockInv
<1> QED
  BY <1>1, <1>2, LockNext, PTL DEF Spec

-----------------------------------------------------------------------------
\* The order of the versions: a fetch reads the newest committed version, and
\* until the winner stores it, nothing newer is stored under its page or left on
\* its way to it, unless a lock of the page has been outlived.
LEMMA OrderStep ==
    ASSUME IInv, TypeOK', Step, Watched
    PROVE  VersionsOrdered' /\ LateOrdered'
<1> USE DEF IInv, LockInv, TypeOK, OneWinnerUnlessOutlived, Winner, Watched,
        VersionsOrdered, LateOrdered, Empty, ReaderPCs, redis, readerVars, writerVars,
        Goto, Return, Put, Remove, LeavesCopy
<1>1. ASSUME NEW r \in Readers, NEW k \in Keys, Start(r, k) PROVE VersionsOrdered' /\ LateOrdered'
  BY <1>1 DEF Start
<1>2. ASSUME NEW r \in Readers, ReaderStep(r) PROVE VersionsOrdered' /\ LateOrdered'
  <2>1. CASE GetHit(r)  BY <2>1 DEF GetHit
  <2>2. CASE GetMiss(r)  BY <2>2 DEF GetMiss
  <2>3. CASE TryLock(r)  BY <2>3 DEF TryLock
  <2>4. CASE LockTaken(r)  BY <2>4 DEF LockTaken
  <2>5. CASE TryLockFails(r)  BY <2>5 DEF TryLockFails
  <2>6. CASE Fetch(r)  BY <2>6 DEF Fetch
  <2>7. CASE FetchFails(r)  BY <2>7 DEF FetchFails
  <2>8. CASE Store(r)  BY <2>8 DEF Store
  <2>9. CASE StoreFails(r)  BY <2>9 DEF StoreFails
  <2>10. CASE Unlock(r)  BY <2>10 DEF Unlock
  <2>11. CASE UnlockFails(r)  BY <2>11 DEF UnlockFails
  <2>12. CASE PollHit(r)  BY <2>12 DEF PollHit
  <2>13. CASE PollMiss(r)  BY <2>13 DEF PollMiss
  <2>14. CASE Fallback(r)  BY <2>14 DEF Fallback
  <2> QED
    BY <1>2, <2>1, <2>2, <2>3, <2>4, <2>5, <2>6, <2>7, <2>8, <2>9, <2>10, <2>11, <2>12, <2>13, <2>14 DEF ReaderStep
<1>3. ASSUME NEW r \in Readers, ReaderCrash(r) PROVE VersionsOrdered' /\ LateOrdered'
  BY <1>3 DEF ReaderCrash
<1>4. ASSUME NEW w \in Writers, Flush(w) PROVE VersionsOrdered' /\ LateOrdered'
  BY <1>4 DEF Flush
<1>5. ASSUME NEW w \in Writers, WriterStep(w) PROVE VersionsOrdered' /\ LateOrdered'
  <2>1. CASE ScanKey(w)  BY <2>1 DEF ScanKey
  <2>2. CASE ScanDone(w)  BY <2>2 DEF ScanDone
  <2>3. CASE UnlinkBatch(w)  BY <2>3 DEF UnlinkBatch
  <2>4. CASE UnlinkDone(w)  BY <2>4 DEF UnlinkDone
  <2>5. CASE InvalidateFails(w)  BY <2>5 DEF InvalidateFails
  <2>6. CASE Commit(w)  BY <2>6 DEF Commit
  <2>7. CASE Rollback(w)  BY <2>7 DEF Rollback
  <2> QED
    BY <1>5, <2>1, <2>2, <2>3, <2>4, <2>5, <2>6, <2>7 DEF WriterStep
<1>6. ASSUME NEW k \in Keys, ExpireKey(k) PROVE VersionsOrdered' /\ LateOrdered'
  BY <1>6 DEF ExpireKey
<1>7. ASSUME NEW k \in Keys, ExpireLock(k) PROVE VersionsOrdered' /\ LateOrdered'
  BY <1>7 DEF ExpireLock
<1>8. ASSUME NEW c \in late, LateRuns(c) PROVE VersionsOrdered' /\ LateOrdered'
  BY <1>8 DEF LateRuns
<1>9. ASSUME NEW c \in late, LateLost(c) PROVE VersionsOrdered' /\ LateOrdered'
  BY <1>9 DEF LateLost
<1> QED
  BY <1>1, <1>2, <1>3, <1>4, <1>5, <1>6, <1>7, <1>8, <1>9 DEF Step

LEMMA IInvInit == Init => IInv
<1> SUFFICES ASSUME Init PROVE IInv
  OBVIOUS
<1>1. TypeOK
  BY TypeInit
<1>2. LockHeld /\ OneWinnerUnlessOutlived /\ LateOrdered
  BY DEF Init, LockHeld, OneWinnerUnlessOutlived, LateOrdered, Winner
<1>3. VersionsOrdered
  BY DEF Init, VersionsOrdered, Empty
<1> QED
  BY <1>1, <1>2, <1>3 DEF IInv, LockInv

LEMMA IInvNext == IInv /\ [Next]_vars => IInv'
<1>1. IInv /\ Next => IInv'
  <2> SUFFICES ASSUME IInv, Next PROVE IInv'
    OBVIOUS
  <2>1. LockInv'
    BY LockNext DEF IInv
  <2>2. Watched
    BY <2>1, ObserveWatches DEF Next, LockInv, TypeOK
  <2>3. VersionsOrdered' /\ LateOrdered'
    BY <2>1, <2>2, OrderStep DEF Next, LockInv
  <2> QED  BY <2>1, <2>3 DEF IInv
<1>2. IInv /\ UNCHANGED vars => IInv'
  <2> SUFFICES ASSUME IInv, UNCHANGED vars PROVE IInv'
    OBVIOUS
  <2>1. LockInv'
    BY LockNext DEF IInv
  <2>2. VersionsOrdered' /\ LateOrdered'
    BY DEF IInv, VersionsOrdered, LateOrdered, vars, redis, readerVars, writerVars
  <2> QED  BY <2>1, <2>2 DEF IInv
<1> QED  BY <1>1, <1>2

\* Pages hold committed versions only, and a winner never replaces a page by an
\* older one, unless a lock of the page has been outlived.
THEOREM OnlyNewerVersionsStored == Spec => []VersionsOrdered
<1>1. IInv => VersionsOrdered
  BY DEF IInv
<1> QED
  BY <1>1, IInvInit, IInvNext, PTL DEF Spec

-----------------------------------------------------------------------------
LEMMA CarriedMember ==
    ASSUME NEW k \in Keys, NEW v
    PROVE  v \in Carried[k] <=>
               \/ \E r \in Readers : rpc[r] = "store" /\ rkey[r] = k /\ rval[r] = v
               \/ \E c \in late : c.cmd = "set" /\ c.key = k /\ c.val = v
  BY DEF Carried

LEMMA CarriedMemberNext ==
    ASSUME NEW k \in Keys, NEW v
    PROVE  v \in Carried'[k] <=>
               \/ \E r \in Readers : rpc'[r] = "store" /\ rkey'[r] = k /\ rval'[r] = v
               \/ \E c \in late' : c.cmd = "set" /\ c.key = k /\ c.val = v
  BY DEF Carried

\* Carried is the same when nobody fetches, stores, gives up or loses a result.
LEMMA CarriedSame ==
    ASSUME \A r \in Readers :
               /\ rpc'[r] = "store" <=> rpc[r] = "store"
               /\ rpc[r] = "store" => rkey'[r] = rkey[r] /\ rval'[r] = rval[r],
           \A c : c.cmd = "set" => (c \in late' <=> c \in late)
    PROVE  Carried' = Carried
<1>1. ASSUME NEW k \in Keys PROVE Carried'[k] = Carried[k]
  <2>1. ASSUME NEW v PROVE v \in Carried'[k] <=> v \in Carried[k]
    BY CarriedMember, CarriedMemberNext
  <2> QED  BY <2>1
<1> QED  BY <1>1 DEF Carried

\* What is on its way to one page may lose one version.
LEMMA CarriedLess ==
    ASSUME NEW k \in Keys, NEW v,
           \A j \in Keys \ {k} : \A u : u \in Carried'[j] <=> u \in Carried[j],
           \A u : u # v => (u \in Carried'[k] <=> u \in Carried[k]),
           v \in Carried[k]
    PROVE  Carried' \in {Carried, [Carried EXCEPT ![k] = Carried[k] \ {v}]}
<1>1. \A j \in Keys \ {k} : Carried'[j] = Carried[j]
  OBVIOUS
<1>2. DOMAIN Carried = Keys /\ DOMAIN Carried' = Keys /\ Carried = [j \in Keys |-> Carried[j]]
      /\ Carried' = [j \in Keys |-> Carried'[j]]
  BY DEF Carried
<1>3. CASE v \in Carried'[k]
  <2>1. Carried'[k] = Carried[k]
    BY <1>3
  <2> QED  BY <1>1, <1>2, <2>1
<1>4. CASE v \notin Carried'[k]
  <2>1. Carried'[k] = Carried[k] \ {v}
    BY <1>4
  <2> QED  BY <1>1, <1>2, <2>1
<1> QED  BY <1>3, <1>4

\* A request that was about to store leaves; its result may stay on the way.
LEMMA StoreLeaves ==
    ASSUME NEW r \in Readers, TypeOK, rpc[r] = "store", rpc'[r] # "store",
           \A s \in Readers \ {r} : rpc'[s] = rpc[s] /\ rkey'[s] = rkey[s] /\ rval'[s] = rval[s],
           \/ late' = late
           \/ late' = late \cup {[cmd |-> "set", key |-> rkey[r], val |-> rval[r]]}
    PROVE  /\ rval[r] \in Carried[rkey[r]]
           /\ Carried' \in {Carried, [Carried EXCEPT ![rkey[r]] = Carried[rkey[r]] \ {rval[r]}]}
<1> DEFINE k == rkey[r]
           v == rval[r]
<1>0. k \in Keys
  BY DEF TypeOK
<1>1. v \in Carried[k]
  BY <1>0, CarriedMember
<1>2. \A c \in late' : c.cmd = "set" => c \in late \/ (c.key = k /\ c.val = v)
  OBVIOUS
<1>3. late \subseteq late'
  OBVIOUS
<1>4. ASSUME NEW j \in Keys \ {k}, NEW u PROVE u \in Carried'[j] <=> u \in Carried[j]
  BY <1>2, <1>3, CarriedMember, CarriedMemberNext
<1>5. ASSUME NEW u, u # v PROVE u \in Carried'[k] <=> u \in Carried[k]
  BY <1>0, <1>2, <1>3, <1>5, CarriedMember, CarriedMemberNext
<1> HIDE DEF k, v
<1>6. Carried' \in {Carried, [Carried EXCEPT ![k] = Carried[k] \ {v}]}
  BY <1>0, <1>1, <1>4, <1>5, CarriedLess
<1> QED  BY <1>1, <1>6 DEF k, v

\* A late SET is executed or lost.
LEMMA LateLeaves ==
    ASSUME TypeOK, NEW c \in late, c.cmd = "set", late' = late \ {c}, UNCHANGED readerVars
    PROVE  /\ c.key \in Keys
           /\ c.val \in Carried[c.key]
           /\ Carried' \in {Carried, [Carried EXCEPT ![c.key] = Carried[c.key] \ {c.val}]}
<1> DEFINE k == c.key
           v == c.val
<1>0. k \in Keys
  BY DEF TypeOK, Commands
<1>1. v \in Carried[k]
  BY <1>0, CarriedMember
<1>4. ASSUME NEW j \in Keys \ {k}, NEW u PROVE u \in Carried'[j] <=> u \in Carried[j]
  BY CarriedMember, CarriedMemberNext DEF readerVars
<1>5. ASSUME NEW u, u # v PROVE u \in Carried'[k] <=> u \in Carried[k]
  BY <1>0, <1>5, CarriedMember, CarriedMemberNext DEF readerVars
<1> HIDE DEF k, v
<1>6. Carried' \in {Carried, [Carried EXCEPT ![k] = Carried[k] \ {v}]}
  BY <1>0, <1>1, <1>4, <1>5, CarriedLess
<1> QED  BY <1>0, <1>1, <1>6 DEF k, v

\* Every step of the cache is a step of the page register or leaves its three
\* variables alone: a winner's fetch takes the current version along, SET and
\* late SETs fill, UNLINK and expiry evict, Commit commits; a crash or a SET
\* that fails drops what was on its way.
LEMMA StepRefines ==
    ASSUME TypeOK, Step
    PROVE  [Register!Next]_(Register!vars)
<1> USE DEF Register!vars, redis, readerVars, writerVars, Goto, Return, Put, Remove
<1>1. ASSUME NEW r \in Readers, NEW k \in Keys, Start(r, k) PROVE [Register!Next]_(Register!vars)
  <2>1. Carried' = Carried
    BY <1>1, CarriedSame DEF Start, TypeOK
  <2> QED  BY <1>1, <2>1 DEF Start
<1>2. ASSUME NEW r \in Readers, ReaderStep(r) PROVE [Register!Next]_(Register!vars)
  <2>1. CASE GetHit(r)
    <3>1. Carried' = Carried
      BY <2>1, CarriedSame DEF TypeOK, GetHit
    <3> QED  BY <2>1, <3>1 DEF GetHit
  <2>2. CASE GetMiss(r)
    <3>1. Carried' = Carried
      BY <2>2, CarriedSame DEF TypeOK, GetMiss
    <3> QED  BY <2>2, <3>1 DEF GetMiss
  <2>3. CASE TryLock(r)
    <3>1. Carried' = Carried
      BY <2>3, CarriedSame DEF TypeOK, TryLock, LeavesCopy
    <3> QED  BY <2>3, <3>1 DEF TryLock
  <2>4. CASE LockTaken(r)
    <3>1. Carried' = Carried
      BY <2>4, CarriedSame DEF TypeOK, LockTaken, LeavesCopy
    <3> QED  BY <2>4, <3>1 DEF LockTaken
  <2>5. CASE TryLockFails(r)
    <3>1. Carried' = Carried
      BY <2>5, CarriedSame DEF TypeOK, TryLockFails, LeavesCopy
    <3> QED  BY <2>5, <3>1 DEF TryLockFails
  <2>6. CASE Fetch(r)
    <3>1. rkey[r] \in Keys
      BY DEF TypeOK
    <3>2. ASSUME NEW j \in Keys, NEW u
          PROVE  u \in Carried'[j] <=> u \in Carried[j] \/ (j = rkey[r] /\ u = version)
      BY <2>6, CarriedMember, CarriedMemberNext DEF Fetch, TypeOK
    <3>3. Carried' = [Carried EXCEPT ![rkey[r]] = Carried[rkey[r]] \cup {version}]
      <4>1. \A j \in Keys : Carried'[j] = IF j = rkey[r] THEN Carried[j] \cup {version} ELSE Carried[j]
        BY <3>2
      <4> QED  BY <4>1 DEF Carried
    <3>4. Register!Fetch(rkey[r])
      BY <2>6, <3>3 DEF Fetch, Register!Fetch
    <3> QED  BY <3>1, <3>4 DEF Register!Next
  <2>7. CASE FetchFails(r)
    <3>1. Carried' = Carried
      BY <2>7, CarriedSame DEF TypeOK, FetchFails
    <3> QED  BY <2>7, <3>1 DEF FetchFails
  <2>8. CASE Store(r)
    <3>1. rkey[r] \in Keys
      BY DEF TypeOK
    <3>2. /\ rval[r] \in Carried[rkey[r]]
          /\ Carried' \in {Carried, [Carried EXCEPT ![rkey[r]] = Carried[rkey[r]] \ {rval[r]}]}
      BY <2>8, StoreLeaves DEF Store, LeavesCopy, TypeOK
    <3>3. Register!Fill(rkey[r])
      BY <2>8, <3>2 DEF Store, Register!Fill
    <3> QED  BY <3>1, <3>3 DEF Register!Next
  <2>9. CASE StoreFails(r)
    <3>1. rkey[r] \in Keys
      BY DEF TypeOK
    <3>2. /\ rval[r] \in Carried[rkey[r]]
          /\ Carried' \in {Carried, [Carried EXCEPT ![rkey[r]] = Carried[rkey[r]] \ {rval[r]}]}
      BY <2>9, StoreLeaves DEF StoreFails, LeavesCopy, TypeOK
    <3>3. Register!Drop(rkey[r]) \/ Carried' = Carried
      BY <2>9, <3>2 DEF StoreFails, Register!Drop
    <3> QED  BY <2>9, <3>1, <3>3 DEF StoreFails, Register!Next
  <2>10. CASE Unlock(r)
    <3>1. Carried' = Carried
      BY <2>10, CarriedSame DEF TypeOK, Unlock, LeavesCopy
    <3> QED  BY <2>10, <3>1 DEF Unlock
  <2>11. CASE UnlockFails(r)
    <3>1. Carried' = Carried
      BY <2>11, CarriedSame DEF TypeOK, UnlockFails, LeavesCopy
    <3> QED  BY <2>11, <3>1 DEF UnlockFails
  <2>12. CASE PollHit(r)
    <3>1. Carried' = Carried
      BY <2>12, CarriedSame DEF TypeOK, PollHit
    <3> QED  BY <2>12, <3>1 DEF PollHit
  <2>13. CASE PollMiss(r)
    <3>1. Carried' = Carried
      BY <2>13, CarriedSame DEF TypeOK, PollMiss
    <3> QED  BY <2>13, <3>1 DEF PollMiss
  <2>14. CASE Fallback(r)
    <3>1. Carried' = Carried
      BY <2>14, CarriedSame DEF TypeOK, Fallback
    <3> QED  BY <2>14, <3>1 DEF Fallback
  <2> QED
    BY <1>2, <2>1, <2>2, <2>3, <2>4, <2>5, <2>6, <2>7, <2>8, <2>9, <2>10, <2>11, <2>12, <2>13, <2>14 DEF ReaderStep
<1>3. ASSUME NEW r \in Readers, ReaderCrash(r) PROVE [Register!Next]_(Register!vars)
  <2>1. rkey[r] \in Keys
    BY DEF TypeOK
  <2>2. CASE rpc[r] = "store"
    <3>1. /\ rval[r] \in Carried[rkey[r]]
          /\ Carried' \in {Carried, [Carried EXCEPT ![rkey[r]] = Carried[rkey[r]] \ {rval[r]}]}
      BY <1>3, <2>2, StoreLeaves DEF ReaderCrash, TypeOK
    <3>2. Register!Drop(rkey[r]) \/ Carried' = Carried
      BY <1>3, <3>1 DEF ReaderCrash, Register!Drop
    <3> QED  BY <1>3, <2>1, <3>2 DEF ReaderCrash, Register!Next
  <2>3. CASE rpc[r] # "store"
    <3>1. Carried' = Carried
      BY <1>3, <2>3, CarriedSame DEF ReaderCrash, TypeOK
    <3> QED  BY <1>3, <3>1 DEF ReaderCrash
  <2> QED  BY <2>2, <2>3
<1>4. ASSUME NEW w \in Writers, Flush(w) PROVE [Register!Next]_(Register!vars)
  <2>1. Carried' = Carried
    BY <1>4 DEF Flush, Carried
  <2> QED  BY <1>4, <2>1 DEF Flush
<1>5. ASSUME NEW w \in Writers, WriterStep(w) PROVE [Register!Next]_(Register!vars)
  <2>1. CASE ScanKey(w)
    <3>1. Carried' = Carried
      BY <2>1, CarriedSame DEF TypeOK, ScanKey
    <3> QED  BY <2>1, <3>1 DEF ScanKey
  <2>2. CASE ScanDone(w)
    <3>1. Carried' = Carried
      BY <2>2, CarriedSame DEF TypeOK, ScanDone
    <3> QED  BY <2>2, <3>1 DEF ScanDone
  <2>3. CASE UnlinkBatch(w)
    <3>1. PICK B \in SUBSET Keys : Remove(B) /\ UNCHANGED <<version, readerVars>>
      BY <2>3 DEF UnlinkBatch, Batches, TypeOK
    <3>2. Carried' = Carried
      BY <3>1 DEF Carried
    <3>3. Register!Evict(B)
      BY <3>1, <3>2 DEF Register!Evict, Register!Empty, Empty
    <3> QED  BY <3>3 DEF Register!Next
  <2>4. CASE UnlinkDone(w)
    <3>1. Carried' = Carried
      BY <2>4, CarriedSame DEF TypeOK, UnlinkDone
    <3> QED  BY <2>4, <3>1 DEF UnlinkDone
  <2>5. CASE InvalidateFails(w)
    <3>1. Carried' = Carried
      BY <2>5, CarriedSame DEF TypeOK, InvalidateFails
    <3> QED  BY <2>5, <3>1 DEF InvalidateFails
  <2>6. CASE Commit(w)
    <3>1. Carried' = Carried
      BY <2>6 DEF Commit, Carried
    <3>2. Register!Commit
      BY <2>6, <3>1 DEF Commit, Register!Commit
    <3> QED  BY <3>2 DEF Register!Next
  <2>7. CASE Rollback(w)
    <3>1. Carried' = Carried
      BY <2>7, CarriedSame DEF TypeOK, Rollback
    <3> QED  BY <2>7, <3>1 DEF Rollback
  <2> QED
    BY <1>5, <2>1, <2>2, <2>3, <2>4, <2>5, <2>6, <2>7 DEF WriterStep
<1>6. ASSUME NEW k \in Keys, ExpireKey(k) PROVE [Register!Next]_(Register!vars)
  <2>1. Carried' = Carried
    BY <1>6 DEF ExpireKey, Carried
  <2>2. Register!Evict({k})
    BY <1>6, <2>1 DEF ExpireKey, Register!Evict, Register!Empty, Empty
  <2> QED  BY <2>2 DEF Register!Next
<1>7. ASSUME NEW k \in Keys, ExpireLock(k) PROVE [Register!Next]_(Register!vars)
  <2>1. Carried' = Carried
    BY <1>7 DEF ExpireLock, Carried
  <2> QED  BY <1>7, <2>1 DEF ExpireLock
<1>8. ASSUME NEW c \in late, LateRuns(c) PROVE [Register!Next]_(Register!vars)
  <2>1. CASE c.cmd = "set"
    <3>1. /\ c.key \in Keys
          /\ c.val \in Carried[c.key]
          /\ Carried' \in {Carried, [Carried EXCEPT ![c.key] = Carried[c.key] \ {c.val}]}
      BY <1>8, <2>1, LateLeaves DEF LateRuns
    <3>2. Register!Fill(c.key)
      BY <1>8, <2>1, <3>1 DEF LateRuns, Register!Fill
    <3> QED  BY <3>1, <3>2 DEF Register!Next
  <2>2. CASE c.cmd # "set"
    <3>1. Carried' = Carried
      BY <1>8, <2>2, CarriedSame DEF LateRuns
    <3> QED  BY <1>8, <2>2, <3>1 DEF LateRuns
  <2> QED  BY <2>1, <2>2
<1>9. ASSUME NEW c \in late, LateLost(c) PROVE [Register!Next]_(Register!vars)
  <2>1. CASE c.cmd = "set"
    <3>1. /\ c.key \in Keys
          /\ c.val \in Carried[c.key]
          /\ Carried' \in {Carried, [Carried EXCEPT ![c.key] = Carried[c.key] \ {c.val}]}
      BY <1>9, <2>1, LateLeaves DEF LateLost
    <3>2. Register!Drop(c.key) \/ Carried' = Carried
      BY <1>9, <3>1 DEF LateLost, Register!Drop
    <3> QED  BY <1>9, <3>1, <3>2 DEF LateLost, Register!Next
  <2>2. CASE c.cmd # "set"
    <3>1. Carried' = Carried
      BY <1>9, <2>2, CarriedSame DEF LateLost
    <3> QED  BY <1>9, <3>1 DEF LateLost
  <2> QED  BY <2>1, <2>2
<1> QED
  BY <1>1, <1>2, <1>3, <1>4, <1>5, <1>6, <1>7, <1>8, <1>9 DEF Step

\* The locks, scans, polls, crashes, Redis errors and late commands never show: to
\* the rest of the program the cache is a register filled from the database.
THEOREM CacheRefinesRegister == Spec => ImplementsRegister
<1>1. Init => Register!Init
  BY DEF Init, Register!Init, Carried, Empty, Register!Empty
<1>2. TypeOK /\ [Next]_vars => [Register!Next]_(Register!vars)
  <2>1. UNCHANGED vars => UNCHANGED Register!vars
    BY DEF vars, redis, readerVars, writerVars, Register!vars, Carried
  <2> QED  BY <2>1, StepRefines DEF Next
<1> QED
  BY <1>1, <1>2, TypeInit, TypeNext, PTL DEF Spec, ImplementsRegister, Register!Spec
=============================================================================
