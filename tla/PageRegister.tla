--------------------------- MODULE PageRegister ---------------------------
(***************************************************************************)
(* What the cached item list promises, without locks, polling or scans:    *)
(* each page of the list is a register that is either empty or holds a     *)
(* COMMITTED version of the list, and that may be emptied at any time.     *)
(* It is filled only with a version that was the current one when somebody *)
(* fetched it and that is still on its way to the page.  It may lag behind *)
(* the database, and it goes back when it is filled with an older version  *)
(* that was still on its way; what is no longer on its way never comes     *)
(* back unless it is fetched again.                                        *)
(***************************************************************************)
EXTENDS Integers

CONSTANT Keys        \* the cached pages of one owner's list

VARIABLES
    version,         \* number of committed writes to the owner's items
    cache,           \* the version each page holds, or Empty
    carried          \* the versions on their way to each page

vars == <<version, cache, carried>>

Empty == -1

Init ==
    /\ version = 0
    /\ cache = [k \in Keys |-> Empty]
    /\ carried = [k \in Keys |-> {}]

Commit ==
    /\ version' = version + 1
    /\ UNCHANGED <<cache, carried>>

\* The current version, and no other, is taken along.
Fetch(k) ==
    /\ carried' = [carried EXCEPT ![k] = @ \cup {version}]
    /\ UNCHANGED <<version, cache>>

\* A version that has arrived may arrive again: a command is sent twice.
Fill(k) ==
    \E v \in carried[k] :
        /\ cache' = [cache EXCEPT ![k] = v]
        /\ carried' \in {carried, [carried EXCEPT ![k] = @ \ {v}]}
        /\ UNCHANGED version

\* What was on its way does not arrive.
Drop(k) ==
    \E v \in carried[k] :
        /\ carried' = [carried EXCEPT ![k] = @ \ {v}]
        /\ UNCHANGED <<version, cache>>

Evict(S) ==
    /\ cache' = [k \in Keys |-> IF k \in S THEN Empty ELSE cache[k]]
    /\ UNCHANGED <<version, carried>>

Next ==
    \/ Commit
    \/ \E k \in Keys : Fetch(k) \/ Fill(k) \/ Drop(k)
    \/ \E S \in SUBSET Keys : Evict(S)

Spec == Init /\ [][Next]_vars
=============================================================================
