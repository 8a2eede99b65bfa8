-------------------------- MODULE UserAdminProofs --------------------------
(***************************************************************************)
(* Proofs about UserAdmin, for any number of accounts and of requests,     *)
(* every initial state and every interleaving of their transactions.       *)
(***************************************************************************)
EXTENDS UserAdmin, TLAPS

\* A request under way is somebody's and about somebody.
PlacedAt(q) == q.pc # "idle" => q.actor \in Users /\ q.target \in Users

Placed == \A q \in Requests : PlacedAt(req[q])

TypeInv == TypeOK /\ Placed

\* What a transaction has written, and what its request will log with it: a
\* row it blocks, unblocks or removes is the one its client has named; a row it
\* creates is its own account's, and so is a role that it has not been told to
\* assign.
Means(q, u) ==
    /\ row[u].live =>
           /\ draft[u].id = row[u].id
           /\ draft[u].active # row[u].active =>
                  /\ req[q].op \in {"block", "unblock"} /\ req[q].target = u
                  /\ req[q].tid = row[u].id /\ draft[u].active = (req[q].op = "unblock")
           /\ ~draft[u].live =>
                  /\ req[q].op \in {"delete", "delete_self"} /\ req[q].target = u
                  /\ req[q].tid = row[u].id
                  /\ req[q].pc \in {"audit", "akdelete", "close"}
    /\ ~row[u].live => u = req[q].actor /\ draft[u].id = row[u].id + 1
    /\ draft[u].role # row[u].role =>
           \/ u = req[q].actor /\ draft[u].role = req[q].me.role
           \/ req[q].op = "role" /\ req[q].target = u /\ draft[u].role = req[q].arg

\* A lock belongs to a request that has begun to write and whose transaction
\* still stands.
InTransaction(q) == req[q].pc \notin {"idle", "lookup", "sync"} /\ ~req[q].doomed

Drafts ==
    \A u \in Users :
        /\ own[u] = None => draft[u] = row[u]
        /\ own[u] # None => InTransaction(own[u]) /\ Means(own[u], u)

\* A request that changes an account and is about to answer has its entry in
\* its transaction, or no transaction.
EntryAt(q) ==
    /\ q.pc = "delete" => q.op \in {"delete", "delete_self"}
    /\ q.pc = "akdelete" => /\ q.op \in {"delete", "delete_self"}
                            /\ q.op = "delete" => q.entry \/ q.doomed
    /\ q.pc = "close" => q.op = "me" \/ q.entry \/ q.doomed
    /\ q.doomed => q.pc = "close" \/ (q.pc = "akdelete" /\ q.op = "delete")

TransactionInv == Drafts /\ \A q \in Requests : EntryAt(req[q])

\* A role that Authentik has granted the account, or that needs no grant.
Deserved(u, role) ==
    \/ role \in granted[u] \cup {"free"}
    \/ role = "admin" /\ u \in AdminEmails

\* So is every role that is stored, written, read or about to be written, and
\* no token and no answer names a group that was never granted.
StoreRoles ==
    \A u \in Users :
        /\ Deserved(u, row[u].role) /\ Deserved(u, draft[u].role)
        /\ akGroups[u] \subseteq granted[u]
        /\ tok[u] # Bare => tok[u] \subseteq granted[u]

RolesOf(q) ==
    q.pc # "idle" =>
        /\ Deserved(q.actor, q.me.role)
        /\ q.groups # NoGroups => q.groups \subseteq granted[q.actor]
        /\ q.pc = "write" /\ q.op = "role" => q.arg \in granted[q.target]

RolesInv == StoreRoles /\ \A q \in Requests : RolesOf(req[q])

-----------------------------------------------------------------------------
(* Rows, requests and roles, field by field.                               *)

LEMMA RowFields ==
    ASSUME NEW x \in Rows
    PROVE  x.id \in Nat /\ x.live \in BOOLEAN /\ x.role \in Roles /\ x.active \in BOOLEAN
  BY DEF Rows

LEMMA RowWithRole ==
    ASSUME NEW x \in Rows, NEW role \in Roles
    PROVE  LET y == [x EXCEPT !.role = role]
           IN  /\ y \in Rows /\ y.id = x.id /\ y.live = x.live /\ y.active = x.active
               /\ y.role = role
  BY DEF Rows

LEMMA RowWithActive ==
    ASSUME NEW x \in Rows, NEW b \in BOOLEAN
    PROVE  LET y == [x EXCEPT !.active = b]
           IN  /\ y \in Rows /\ y.id = x.id /\ y.live = x.live /\ y.role = x.role
               /\ y.active = b
  BY DEF Rows

LEMMA RowRemoved ==
    ASSUME NEW x \in Rows
    PROVE  LET y == [x EXCEPT !.live = FALSE]
           IN  /\ y \in Rows /\ y.id = x.id /\ y.active = x.active /\ y.role = x.role
               /\ y.live = FALSE
  BY DEF Rows

LEMMA NewRow ==
    ASSUME NEW i \in Nat, NEW role \in Roles
    PROVE  LET y == [id |-> i, live |-> TRUE, role |-> role, active |-> TRUE]
           IN  y \in Rows /\ y.id = i /\ y.live /\ y.active /\ y.role = role
  BY DEF Rows

LEMMA ReqFields ==
    ASSUME NEW x \in Reqs
    PROVE  /\ x.pc \in PCs /\ x.op \in AllOps /\ x.actor \in Users \cup {None}
           /\ x.groups \in (SUBSET Roles) \cup {NoGroups} /\ x.target \in Users \cup {None}
           /\ x.tid \in Nat /\ x.arg \in Roles /\ x.me \in Rows /\ x.tgt \in Rows
           /\ x.entry \in BOOLEAN /\ x.doomed \in BOOLEAN
  BY DEF Reqs

LEMMA IdleFields ==
    /\ Idle \in Reqs /\ Idle.pc = "idle" /\ ~Idle.doomed /\ ~Idle.entry
    /\ NoRow \in Rows /\ NoRow.role = "free"
<1>1. NoRow \in Rows /\ NoRow.role = "free"
  BY DEF NoRow, Rows, Roles
<1>2. Idle \in Reqs /\ Idle.pc = "idle" /\ ~Idle.doomed /\ ~Idle.entry
  BY <1>1 DEF Idle, Reqs, PCs, AllOps, Roles
<1> QED
  BY <1>1, <1>2

LEMMA ResolveRange ==
    ASSUME NEW u, NEW groups
    PROVE  /\ Resolve(u, groups) \in Roles
           /\ \/ Resolve(u, groups) \in groups \cup {"free"}
              \/ Resolve(u, groups) = "admin" /\ u \in AdminEmails
<1>1. CASE "admin" \in groups
  BY <1>1 DEF Resolve, Roles
<1>2. CASE "admin" \notin groups /\ "paid" \in groups
  BY <1>2 DEF Resolve, Roles
<1>3. CASE "admin" \notin groups /\ "paid" \notin groups
  BY <1>3 DEF Resolve, Roles
<1> QED
  BY <1>1, <1>2, <1>3

-----------------------------------------------------------------------------
(* What the operators do that move a request.                              *)

\* Only request q moves; for whom it acts, on what and how stays.
Moved(q) ==
    /\ req' \in [Requests -> Reqs]
    /\ \A x \in Requests : x # q => req'[x] = req[x]
Frame(q) ==
    /\ Moved(q)
    /\ req'[q].op = req[q].op /\ req'[q].actor = req[q].actor
    /\ req'[q].target = req[q].target /\ req'[q].arg = req[q].arg
KeepsMe(q) == req'[q].me = req[q].me
KeepsAim(q) == req'[q].tid = req[q].tid
KeepsGroups(q) == req'[q].groups = req[q].groups
KeepsEntry(q) == req'[q].entry = req[q].entry /\ req'[q].doomed = req[q].doomed

LEMMA GotoEffect ==
    ASSUME req \in [Requests -> Reqs], NEW q \in Requests, NEW pc \in PCs, Goto(q, pc)
    PROVE  /\ Frame(q) /\ req'[q].pc = pc
           /\ KeepsMe(q) /\ KeepsAim(q) /\ KeepsGroups(q) /\ KeepsEntry(q)
<1> DEFINE y == [req[q] EXCEPT !.pc = pc]
<1>1. /\ y \in Reqs /\ y.pc = pc /\ y.op = req[q].op /\ y.actor = req[q].actor
      /\ y.target = req[q].target /\ y.arg = req[q].arg /\ y.me = req[q].me
      /\ y.tid = req[q].tid /\ y.groups = req[q].groups /\ y.entry = req[q].entry
      /\ y.doomed = req[q].doomed
  BY DEF Reqs
<1>2. req' = [req EXCEPT ![q] = y]
  BY DEF Goto
<1> HIDE DEF y
<1> QED
  BY <1>1, <1>2 DEF Frame, Moved, KeepsMe, KeepsAim, KeepsGroups, KeepsEntry

\* The row of the request's account has been read, or synced.
LEMMA MeEffect ==
    ASSUME req \in [Requests -> Reqs], NEW q \in Requests, NEW m \in Rows, NEW pc \in PCs,
           req' = [req EXCEPT ![q].me = m, ![q].pc = pc]
    PROVE  /\ Frame(q) /\ req'[q].pc = pc /\ req'[q].me = m
           /\ KeepsAim(q) /\ KeepsGroups(q) /\ KeepsEntry(q)
<1> DEFINE y == [req[q] EXCEPT !.me = m, !.pc = pc]
<1>1. /\ y \in Reqs /\ y.pc = pc /\ y.op = req[q].op /\ y.actor = req[q].actor
      /\ y.target = req[q].target /\ y.arg = req[q].arg /\ y.me = m
      /\ y.tid = req[q].tid /\ y.groups = req[q].groups /\ y.entry = req[q].entry
      /\ y.doomed = req[q].doomed
  BY DEF Reqs
<1>2. req' = [req EXCEPT ![q] = y]
  OBVIOUS
<1> HIDE DEF y
<1> QED
  BY <1>1, <1>2 DEF Frame, Moved, KeepsAim, KeepsGroups, KeepsEntry

LEMMA EntryEffect ==
    ASSUME req \in [Requests -> Reqs], NEW q \in Requests, NEW pc \in PCs,
           req' = [req EXCEPT ![q].entry = TRUE, ![q].pc = pc]
    PROVE  /\ Frame(q) /\ req'[q].pc = pc
           /\ KeepsMe(q) /\ KeepsAim(q) /\ KeepsGroups(q)
           /\ req'[q].entry = TRUE /\ req'[q].doomed = req[q].doomed
<1> DEFINE y == [req[q] EXCEPT !.entry = TRUE, !.pc = pc]
<1>1. /\ y \in Reqs /\ y.pc = pc /\ y.op = req[q].op /\ y.actor = req[q].actor
      /\ y.target = req[q].target /\ y.arg = req[q].arg /\ y.me = req[q].me
      /\ y.tid = req[q].tid /\ y.groups = req[q].groups /\ y.entry = TRUE
      /\ y.doomed = req[q].doomed
  BY DEF Reqs
<1>2. req' = [req EXCEPT ![q] = y]
  OBVIOUS
<1> HIDE DEF y
<1> QED
  BY <1>1, <1>2 DEF Frame, Moved, KeepsMe, KeepsAim, KeepsGroups

LEMMA DoomedEffect ==
    ASSUME req \in [Requests -> Reqs], NEW q \in Requests, NEW pc \in PCs,
           req' = [req EXCEPT ![q].doomed = TRUE, ![q].pc = pc]
    PROVE  /\ Frame(q) /\ req'[q].pc = pc
           /\ KeepsMe(q) /\ KeepsAim(q) /\ KeepsGroups(q) /\ req'[q].doomed = TRUE
<1> DEFINE y == [req[q] EXCEPT !.doomed = TRUE, !.pc = pc]
<1>1. /\ y \in Reqs /\ y.pc = pc /\ y.op = req[q].op /\ y.actor = req[q].actor
      /\ y.target = req[q].target /\ y.arg = req[q].arg /\ y.me = req[q].me
      /\ y.tid = req[q].tid /\ y.groups = req[q].groups /\ y.doomed = TRUE
  BY DEF Reqs
<1>2. req' = [req EXCEPT ![q] = y]
  OBVIOUS
<1> HIDE DEF y
<1> QED
  BY <1>1, <1>2 DEF Frame, Moved, KeepsMe, KeepsAim, KeepsGroups

LEMMA DeleteEffect ==
    ASSUME req \in [Requests -> Reqs], NEW q \in Requests, NEW pc \in PCs, NEW id \in Nat,
           req' = [req EXCEPT ![q].tid = id, ![q].pc = pc]
    PROVE  /\ Frame(q) /\ req'[q].pc = pc /\ req'[q].tid = id
           /\ KeepsMe(q) /\ KeepsGroups(q) /\ KeepsEntry(q)
<1> DEFINE y == [req[q] EXCEPT !.tid = id, !.pc = pc]
<1>1. /\ y \in Reqs /\ y.pc = pc /\ y.op = req[q].op /\ y.actor = req[q].actor
      /\ y.target = req[q].target /\ y.arg = req[q].arg /\ y.me = req[q].me
      /\ y.tid = id /\ y.groups = req[q].groups /\ y.entry = req[q].entry
      /\ y.doomed = req[q].doomed
  BY DEF Reqs
<1>2. req' = [req EXCEPT ![q] = y]
  OBVIOUS
<1> HIDE DEF y
<1> QED
  BY <1>1, <1>2 DEF Frame, Moved, KeepsMe, KeepsGroups, KeepsEntry

LEMMA TargetEffect ==
    ASSUME req \in [Requests -> Reqs], NEW q \in Requests, NEW pc \in PCs, NEW found \in Rows,
           req' = [req EXCEPT ![q].tgt = found, ![q].groups = NoGroups, ![q].pc = pc]
    PROVE  /\ Frame(q) /\ req'[q].pc = pc /\ req'[q].groups = NoGroups
           /\ KeepsMe(q) /\ KeepsAim(q) /\ KeepsEntry(q)
<1> DEFINE y == [req[q] EXCEPT !.tgt = found, !.groups = NoGroups, !.pc = pc]
<1>1. /\ y \in Reqs /\ y.pc = pc /\ y.op = req[q].op /\ y.actor = req[q].actor
      /\ y.target = req[q].target /\ y.arg = req[q].arg /\ y.me = req[q].me
      /\ y.tid = req[q].tid /\ y.groups = NoGroups /\ y.entry = req[q].entry
      /\ y.doomed = req[q].doomed
  BY DEF Reqs
<1>2. req' = [req EXCEPT ![q] = y]
  OBVIOUS
<1> HIDE DEF y
<1> QED
  BY <1>1, <1>2 DEF Frame, Moved, KeepsMe, KeepsAim, KeepsEntry

\* A request is over, with an answer or an error.
LEMMA EndEffect ==
    ASSUME req \in [Requests -> Reqs], NEW q \in Requests, req' = [req EXCEPT ![q] = Idle]
    PROVE  Moved(q) /\ req'[q] = Idle
  BY IdleFields DEF Moved

\* A request is accepted: it acts for the claims of an account's token.
LEMMA BeginEffect ==
    ASSUME TypeOK, NEW q \in Requests, NEW u \in Users, NEW op \in AllOps, NEW t \in Users,
           NEW role \in Roles, Begin(q, u, op, t, role)
    PROVE  /\ req[q].pc = "idle" /\ Moved(q) /\ req'[q].pc = "lookup"
           /\ req'[q].actor = u /\ req'[q].target = t /\ req'[q].op = op
           /\ req'[q].me = NoRow /\ ~req'[q].entry /\ ~req'[q].doomed
           /\ req'[q].groups \in Claims(u) /\ req'[q].tid = row[t].id
           /\ IF op \in AdminOps THEN row[t].live ELSE t = u
           /\ UNCHANGED <<authentik, tok, postgres>> /\ logged' = None
<1>1. PICK groups \in Claims(u) :
          req' = [req EXCEPT ![q] =
                     [Idle EXCEPT !.pc = "lookup", !.op = op, !.actor = u,
                                  !.groups = groups, !.target = t, !.tid = row[t].id,
                                  !.arg = IF op = "role" THEN role ELSE "free"]]
  BY DEF Begin
<1> DEFINE y == [Idle EXCEPT !.pc = "lookup", !.op = op, !.actor = u,
                             !.groups = groups, !.target = t, !.tid = row[t].id,
                             !.arg = IF op = "role" THEN role ELSE "free"]
<1>2. groups \in (SUBSET Roles) \cup {NoGroups}
  <2>1. tok[u] # Bare => tok[u] \in SUBSET Roles
    BY DEF TypeOK, Tokens
  <2>2. akGroups[u] \in SUBSET Roles
    BY DEF TypeOK
  <2> QED
    BY <2>1, <2>2 DEF Claims
<1>3. row[t].id \in Nat
  BY RowFields DEF TypeOK
<1>4. /\ y \in Reqs /\ y.pc = "lookup" /\ y.actor = u /\ y.target = t /\ y.op = op
      /\ y.me = NoRow /\ ~y.entry /\ ~y.doomed /\ y.groups = groups
      /\ y.tid = row[t].id
  BY <1>2, <1>3, IdleFields DEF Idle, Reqs, PCs, Roles
<1>5. req' = [req EXCEPT ![q] = y]
  BY <1>1
<1> HIDE DEF y
<1> QED
  BY <1>4, <1>5 DEF Begin, Moved, TypeOK, NoEntry

-----------------------------------------------------------------------------
(* What the actions do that write a row.                                   *)

LEMMA CurrentTyped ==
    ASSUME TypeOK, NEW q \in Requests, NEW u \in Users
    PROVE  Current(q, u) \in Rows
  BY DEF TypeOK, Current

\* The transaction is rolled back and the request is over.
Aborts(q) ==
    /\ Moved(q) /\ req'[q] = Idle
    /\ own' = [u \in Users |-> IF own[u] = q THEN None ELSE own[u]]
    /\ draft' = [u \in Users |-> IF own[u] = q THEN row[u] ELSE draft[u]]
    /\ row' = row /\ logged' = None

LEMMA AbortEffect ==
    ASSUME TypeOK, NEW q \in Requests, Abort(q)
    PROVE  Aborts(q)
<1>1. Moved(q) /\ req'[q] = Idle
  BY EndEffect DEF Abort, TypeOK
<1> QED
  BY <1>1 DEF Aborts, Abort, RollbackOnly, Unlock, NoEntry

\* The row of the request's account gets the role v.role, and is created or
\* stays what it is otherwise.
Syncs(q, v) ==
    LET u == req[q].actor
        now == Current(q, u)
    IN  /\ req[q].pc = "sync" /\ Frame(q) /\ req'[q].pc = "gate"
        /\ req'[q].me.role = v.role /\ req'[q].me.id \in {req[q].me.id, v.id}
        /\ KeepsAim(q) /\ KeepsGroups(q) /\ KeepsEntry(q)
        /\ WriteRow(q, u, v)
        /\ \/ v.role = req[q].me.role
           \/ v.role = "free"
           \/ req[q].groups # NoGroups /\ v.role = Resolve(u, req[q].groups)
        /\ now.live => v.id = now.id /\ v.live /\ v.active = now.active
        /\ ~now.live => v.id = now.id + 1 /\ v.live /\ v.active
        /\ UNCHANGED <<authentik, tok>> /\ logged' = None

LEMMA SyncRoleEffect ==
    ASSUME TypeInv, NEW q \in Requests, SyncRole(q)
    PROVE  (Aborts(q) /\ UNCHANGED <<authentik, tok>>) \/ \E v \in Rows : Syncs(q, v)
<1>0. TypeOK /\ req \in [Requests -> Reqs] /\ req[q] \in Reqs
  BY DEF TypeInv, TypeOK
<1>1. req[q].pc = "sync" /\ req[q].actor \in Users
  BY DEF TypeInv, Placed, PlacedAt, SyncRole
<1>2. CASE Abort(q)
  BY <1>0, <1>2, AbortEffect DEF SyncRole
<1>3. CASE ~Abort(q)
  <2> DEFINE u == req[q].actor
             now == Current(q, u)
             role == JwtRole(q, req[q].me)
             v == [now EXCEPT !.role = role]
             m == [req[q].me EXCEPT !.role = role]
  <2>1. /\ now.live /\ WriteRow(q, u, v)
        /\ req' = [req EXCEPT ![q].pc = "gate", ![q].me.role = role]
        /\ UNCHANGED <<authentik, tok>> /\ logged' = None
    BY <1>3 DEF SyncRole, NoEntry
  <2>2. now \in Rows /\ req[q].me \in Rows
    BY <1>0, <1>1, CurrentTyped, ReqFields
  <2>3. /\ role \in Roles
        /\ role = req[q].me.role \/ (req[q].groups # NoGroups /\ role = Resolve(u, req[q].groups))
    <3>1. role = IF req[q].groups = NoGroups THEN req[q].me.role
                 ELSE Resolve(u, req[q].groups)
      BY DEF JwtRole
    <3>2. req[q].me.role \in Roles /\ Resolve(u, req[q].groups) \in Roles
      BY <2>2, RowFields, ResolveRange
    <3> QED
      BY <3>1, <3>2
  <2>4. req' = [req EXCEPT ![q].me = m, ![q].pc = "gate"]
    BY <1>0, <2>1
  <2> HIDE DEF now, role
  <2>5. /\ v \in Rows /\ v.role = role /\ v.id = now.id /\ v.live = now.live
        /\ v.active = now.active /\ m \in Rows /\ m.role = role /\ m.id = req[q].me.id
    BY <2>2, <2>3, RowWithRole
  <2> HIDE DEF v, m
  <2>6. /\ Frame(q) /\ req'[q].pc = "gate" /\ req'[q].me = m
        /\ KeepsAim(q) /\ KeepsGroups(q) /\ KeepsEntry(q)
    BY <1>0, <2>4, <2>5, MeEffect DEF PCs
  <2>7. Syncs(q, v)
    BY <1>1, <2>1, <2>3, <2>5, <2>6 DEF Syncs, now
  <2> QED
    BY <2>5, <2>7
<1> QED
  BY <1>2, <1>3

LEMMA UpsertEffect ==
    ASSUME TypeInv, NEW q \in Requests, Upsert(q)
    PROVE  \E v \in Rows : Syncs(q, v)
<1>0. TypeOK /\ req \in [Requests -> Reqs] /\ req[q] \in Reqs
  BY DEF TypeInv, TypeOK
<1>1. req[q].pc = "sync" /\ req[q].actor \in Users
  BY DEF TypeInv, Placed, PlacedAt, Upsert
<1> DEFINE u == req[q].actor
           now == Current(q, u)
           role == IF req[q].groups = NoGroups THEN "free" ELSE Resolve(u, req[q].groups)
           v == IF now.live THEN [now EXCEPT !.role = role]
                ELSE [id |-> now.id + 1, live |-> TRUE, role |-> role, active |-> TRUE]
<1>2. /\ WriteRow(q, u, v)
      /\ req' = [req EXCEPT ![q].pc = "gate", ![q].me = v]
      /\ UNCHANGED <<authentik, tok>> /\ logged' = None
  BY DEF Upsert, NoEntry
<1>3. now \in Rows
  BY <1>0, <1>1, CurrentTyped
<1>4. /\ role \in Roles
      /\ role = "free" \/ (req[q].groups # NoGroups /\ role = Resolve(u, req[q].groups))
  BY ResolveRange DEF Roles
<1> HIDE DEF now, role
<1>5. /\ v \in Rows /\ v.role = role
      /\ now.live => v.id = now.id /\ v.live /\ v.active = now.active
      /\ ~now.live => v.id = now.id + 1 /\ v.live /\ v.active
  <2>1. CASE now.live
    BY <1>3, <1>4, <2>1, RowWithRole
  <2>2. CASE ~now.live
    <3>1. now.id + 1 \in Nat
      BY <1>3, RowFields
    <3> QED
      BY <1>4, <2>2, <3>1, NewRow
  <2> QED
    BY <2>1, <2>2
<1> HIDE DEF v
<1>6. req' = [req EXCEPT ![q].me = v, ![q].pc = "gate"]
  BY <1>0, <1>2
<1>7. /\ Frame(q) /\ req'[q].pc = "gate" /\ req'[q].me = v
      /\ KeepsAim(q) /\ KeepsGroups(q) /\ KeepsEntry(q)
  BY <1>0, <1>5, <1>6, MeEffect DEF PCs
<1>8. Syncs(q, v)
  BY <1>1, <1>2, <1>4, <1>5, <1>7 DEF Syncs, now
<1> QED
  BY <1>5, <1>8

\* The target's row is found live and under the id the client has named, and
\* gets what the operation assigns: a role, or whether it is active.
Updates(q, v) ==
    LET t == req[q].target
        now == Current(q, t)
    IN  /\ req[q].pc = "write" /\ Goto(q, "audit")
        /\ req[q].op = "role" => ~SelfAimed(q)
        /\ WriteRow(q, t, v)
        /\ now.live /\ now.id = req[q].tid /\ v.id = now.id /\ v.live
        /\ \/ v.active = now.active
           \/ req[q].op \in {"block", "unblock"} /\ v.active = (req[q].op = "unblock")
        /\ \/ v.role = now.role
           \/ req[q].op = "role" /\ v.role = req[q].arg
        /\ UNCHANGED <<authentik, tok>> /\ logged' = None

LEMMA UpdateTargetEffect ==
    ASSUME NEW q \in Requests, NEW v, UpdateTarget(q, v)
    PROVE  /\ UNCHANGED <<authentik, tok>>
           /\ \/ Abort(q)
              \/ /\ Current(q, req[q].target).live
                 /\ Current(q, req[q].target).id = req[q].tid
                 /\ WriteRow(q, req[q].target, v) /\ Goto(q, "audit") /\ logged' = None
  BY DEF UpdateTarget, NoEntry

LEMMA UpdateEffect ==
    ASSUME TypeInv, NEW q \in Requests, ChangeRole(q) \/ SetActive(q)
    PROVE  (Aborts(q) /\ UNCHANGED <<authentik, tok>>) \/ \E v \in Rows : Updates(q, v)
<1> DEFINE t == req[q].target
           now == Current(q, t)
<1>0. TypeOK /\ req[q] \in Reqs /\ req[q].arg \in Roles
  BY ReqFields DEF TypeInv, TypeOK
<1>1. req[q].pc = "write" /\ t \in Users
  BY DEF TypeInv, Placed, PlacedAt, ChangeRole, SetActive
<1>2. now \in Rows
  BY <1>0, <1>1, CurrentTyped
<1>3. CASE ChangeRole(q)
  <2>1. CASE Abort(q) /\ UNCHANGED <<authentik, tok>>
    BY <1>0, <2>1, AbortEffect
  <2>2. CASE UpdateTarget(q, IF req[q].arg = req[q].tgt.role THEN now
                             ELSE [now EXCEPT !.role = req[q].arg])
    <3> DEFINE r == [now EXCEPT !.role = req[q].arg]
               v == IF req[q].arg = req[q].tgt.role THEN now ELSE r
    <3>1. /\ r \in Rows /\ r.id = now.id /\ r.live = now.live /\ r.active = now.active
          /\ r.role = req[q].arg
      BY <1>0, <1>2, RowWithRole
    <3>2. req[q].op = "role" /\ (~SelfAimed(q) \/ Abort(q))
      BY <1>3 DEF ChangeRole
    <3>3. /\ UNCHANGED <<authentik, tok>>
          /\ \/ Abort(q)
             \/ /\ now.live /\ now.id = req[q].tid
                /\ WriteRow(q, t, v) /\ Goto(q, "audit") /\ logged' = None
      BY <2>2, UpdateTargetEffect, Zenon
    <3> HIDE DEF now, r
    <3>4. /\ v \in Rows /\ v.id = now.id /\ v.live = now.live /\ v.active = now.active
          /\ v.role = now.role \/ v.role = req[q].arg
      BY <1>2, <3>1
    <3> HIDE DEF v
    <3>5. CASE Abort(q)
      BY <1>0, <3>3, <3>5, AbortEffect
    <3>6. CASE ~Abort(q)
      <4>1. Updates(q, v)
        BY <1>1, <3>2, <3>3, <3>4, <3>6 DEF Updates, now
      <4> QED
        BY <3>4, <4>1
    <3> QED
      BY <3>5, <3>6
  <2> QED
    BY <1>3, <2>1, <2>2 DEF ChangeRole
<1>4. CASE SetActive(q)
  <2> DEFINE on == req[q].op = "unblock"
             a == [now EXCEPT !.active = on]
             v == IF on = req[q].tgt.active THEN now ELSE a
  <2>1. /\ a \in Rows /\ a.id = now.id /\ a.live = now.live /\ a.role = now.role
        /\ a.active = on
    BY <1>2, RowWithActive
  <2>2. req[q].op \in {"block", "unblock"} /\ UpdateTarget(q, v)
    BY <1>4 DEF SetActive
  <2>3. /\ UNCHANGED <<authentik, tok>>
        /\ \/ Abort(q)
           \/ /\ now.live /\ now.id = req[q].tid
              /\ WriteRow(q, t, v) /\ Goto(q, "audit") /\ logged' = None
    BY <2>2, UpdateTargetEffect, Zenon
  <2> HIDE DEF now, a
  <2>4. /\ v \in Rows /\ v.id = now.id /\ v.live = now.live /\ v.role = now.role
        /\ v.active = now.active \/ v.active = on
    BY <1>2, <2>1
  <2> HIDE DEF v
  <2>5. CASE Abort(q)
    BY <1>0, <2>3, <2>5, AbortEffect
  <2>6. CASE ~Abort(q)
    <3>1. Updates(q, v)
      BY <1>1, <2>2, <2>3, <2>4, <2>6 DEF Updates, now
    <3> QED
      BY <2>4, <3>1
  <2> QED
    BY <2>5, <2>6
<1> QED
  BY <1>3, <1>4

\* The row is gone, under the id that is logged, if it is still that one.
Deletes(q, v) ==
    LET t == req[q].target
        now == Current(q, t)
    IN  /\ req[q].pc = "delete" /\ Frame(q)
        /\ req'[q].pc = IF req[q].op = "delete" THEN "audit" ELSE "akdelete"
        /\ req'[q].tid = IF req[q].op = "delete" THEN req[q].tid ELSE req[q].me.id
        /\ KeepsMe(q) /\ KeepsGroups(q) /\ KeepsEntry(q)
        /\ \/ UNCHANGED postgres
           \/ /\ WriteRow(q, t, v)
              /\ now.live /\ now.id = req'[q].tid /\ v.id = now.id
              /\ v.active = now.active /\ v.role = now.role
        /\ UNCHANGED <<authentik, tok>> /\ logged' = None

LEMMA DeleteRowEffect ==
    ASSUME TypeInv, NEW q \in Requests, DeleteRow(q)
    PROVE  \E v \in Rows : Deletes(q, v)
<1> DEFINE t == req[q].target
           now == Current(q, t)
           id == IF req[q].op = "delete" THEN req[q].tid ELSE req[q].me.id
           pc == IF req[q].op = "delete" THEN "audit" ELSE "akdelete"
           v == [now EXCEPT !.live = FALSE]
<1>0. TypeOK /\ req \in [Requests -> Reqs] /\ req[q] \in Reqs
  BY DEF TypeInv, TypeOK
<1>1. req[q].pc = "delete" /\ t \in Users
  BY DEF TypeInv, Placed, PlacedAt, DeleteRow
<1>2. id \in Nat /\ pc \in PCs
  BY <1>0, ReqFields, RowFields DEF PCs
<1>3. now \in Rows
  BY <1>0, <1>1, CurrentTyped
<1>4. v \in Rows /\ v.id = now.id /\ v.active = now.active /\ v.role = now.role
  BY <1>3, RowRemoved
<1>5. /\ req' = [req EXCEPT ![q].tid = id, ![q].pc = pc]
      /\ \/ now.live /\ now.id = id /\ WriteRow(q, t, v)
         \/ UNCHANGED postgres
      /\ UNCHANGED <<authentik, tok>> /\ logged' = None
  BY DEF DeleteRow, NoEntry
<1>6. /\ Frame(q) /\ req'[q].pc = pc /\ req'[q].tid = id
      /\ KeepsMe(q) /\ KeepsGroups(q) /\ KeepsEntry(q)
  BY <1>0, <1>2, <1>5, DeleteEffect
<1> HIDE DEF id, v, now
<1>7. Deletes(q, v)
  BY <1>1, <1>4, <1>5, <1>6 DEF Deletes, now, id
<1> QED
  BY <1>4, <1>7

\* The target has been found; Authentik, the row or the audit trail is next.
Targets(q) ==
    /\ req[q].pc = "gate" /\ Frame(q)
    /\ \/ req[q].op = "role" /\ req'[q].pc = "akremove"
       \/ req[q].op = "reset" /\ req'[q].pc = "akpassword"
       \/ req[q].op = "delete" /\ req'[q].pc = "delete"
       \/ req[q].op \in {"block", "unblock"} /\ req'[q].pc = "write"
    /\ IF SelfAimed(q) THEN req[q].op \notin GuardedEarly
       ELSE row[req[q].target].live /\ row[req[q].target].id = req[q].tid
    /\ req'[q].groups = NoGroups /\ KeepsMe(q) /\ KeepsAim(q) /\ KeepsEntry(q)
    /\ UNCHANGED postgres /\ logged' = None

LEMMA TargetFound ==
    ASSUME TypeInv, NEW q \in Requests, Target(q)
    PROVE  (Aborts(q) \/ Targets(q)) /\ UNCHANGED <<authentik, tok>>
<1> DEFINE found == IF SelfAimed(q) THEN req[q].me ELSE row[req[q].target]
           pc == CASE req[q].op = "role" -> "akremove"
                   [] req[q].op = "reset" -> "akpassword"
                   [] req[q].op = "delete" -> "delete"
                   [] OTHER -> "write"
<1>0. TypeOK /\ req \in [Requests -> Reqs] /\ req[q] \in Reqs
  BY DEF TypeInv, TypeOK
<1>1. /\ req[q].pc = "gate" /\ req[q].target \in Users
      /\ req[q].op \in {"role", "block", "unblock", "delete", "reset"}
      /\ UNCHANGED <<authentik, tok>>
  BY <1>0, ReqFields DEF TypeInv, Placed, PlacedAt, Target, AdminOps, AllOps
<1>2. found \in Rows
  BY <1>0, <1>1, ReqFields DEF TypeOK
<1>3. /\ req[q].op = "role" => pc = "akremove"
      /\ req[q].op = "reset" => pc = "akpassword"
      /\ req[q].op = "delete" => pc = "delete"
      /\ req[q].op \in {"block", "unblock"} => pc = "write"
  OBVIOUS
<1>4. \/ Abort(q)
      \/ /\ req' = [req EXCEPT ![q].tgt = found, ![q].groups = NoGroups, ![q].pc = pc]
         /\ UNCHANGED postgres /\ logged' = None
         /\ found.live /\ found.id = req[q].tid
         /\ ~(SelfAimed(q) /\ req[q].op \in GuardedEarly)
  BY DEF Target, NoEntry
<1>4a. \/ Abort(q)
      \/ IF SelfAimed(q) THEN req[q].op \notin GuardedEarly
         ELSE row[req[q].target].live /\ row[req[q].target].id = req[q].tid
  BY <1>4
<1> HIDE DEF found, pc
<1>5. pc \in PCs
  BY <1>1, <1>3 DEF PCs
<1>6. CASE Abort(q)
  BY <1>0, <1>1, <1>6, AbortEffect
<1>7. CASE ~Abort(q)
  <2>1. /\ Frame(q) /\ req'[q].pc = pc /\ req'[q].groups = NoGroups
        /\ KeepsMe(q) /\ KeepsAim(q) /\ KeepsEntry(q)
    BY <1>0, <1>2, <1>4, <1>5, <1>7, TargetEffect
  <2> QED
    BY <1>1, <1>3, <1>4, <1>7, <1>4a, <2>1 DEF Targets
<1> QED
  BY <1>6, <1>7

\* The transaction is committed, with its entry.
Commits(q) ==
    /\ req[q].pc = "close" /\ ~req[q].doomed /\ Moved(q) /\ req'[q] = Idle
    /\ row' = [u \in Users |-> Current(q, u)]
    /\ own' = [u \in Users |-> IF own[u] = q THEN None ELSE own[u]]
    /\ draft' = draft
    /\ logged' = IF req[q].entry THEN Entry(q) ELSE None
    /\ UNCHANGED <<authentik, tok>>

LEMMA CommitEffect ==
    ASSUME TypeOK, NEW q \in Requests, Commit(q)
    PROVE  Commits(q)
<1>1. Moved(q) /\ req'[q] = Idle
  BY EndEffect DEF Commit, TypeOK
<1>2. draft' = draft
  BY DEF Commit, Unlock, TypeOK
<1> QED
  BY <1>1, <1>2 DEF Commits, Commit, Unlock

-----------------------------------------------------------------------------
(* Types.                                                                  *)

\* The types of the two databases and the tokens, apart from the requests.
StoreOK ==
    /\ akExists \in [Users -> BOOLEAN]
    /\ akGroups \in [Users -> SUBSET Roles] /\ granted \in [Users -> SUBSET Roles]
    /\ tok \in [Users -> Tokens]
    /\ row \in [Users -> Rows] /\ draft \in [Users -> Rows]
    /\ own \in [Users -> Requests \cup {None}]
    /\ logged \in [op : AllOps, admin : Users, user : Users, id : Nat] \cup {None}

LEMMA TypeParts ==
    /\ TypeOK <=> StoreOK /\ req \in [Requests -> Reqs]
    /\ TypeOK' <=> StoreOK' /\ req' \in [Requests -> Reqs]
  BY DEF TypeOK, StoreOK

LEMMA StoreSame ==
    ASSUME StoreOK, UNCHANGED <<authentik, tok, postgres>>, logged' = None
    PROVE  StoreOK'
  BY DEF StoreOK, authentik, postgres

LEMMA StoreWritten ==
    ASSUME StoreOK, NEW q \in Requests, NEW u \in Users, NEW v \in Rows, WriteRow(q, u, v),
           UNCHANGED <<authentik, tok>>, logged' = None
    PROVE  StoreOK'
  BY DEF StoreOK, authentik, WriteRow

LEMMA StoreRolledBack ==
    ASSUME StoreOK, NEW q \in Requests, RollbackOnly(q), logged' = None,
           UNCHANGED <<authentik, tok>>
    PROVE  StoreOK'
  BY DEF StoreOK, authentik, RollbackOnly, Unlock

LEMMA FrameTyped ==
    ASSUME Placed, NEW q \in Requests, req[q].pc # "idle", Frame(q)
    PROVE  req' \in [Requests -> Reqs] /\ Placed'
  BY DEF Placed, PlacedAt, Frame, Moved

LEMMA EndTyped ==
    ASSUME Placed, NEW q \in Requests, Moved(q), req'[q] = Idle
    PROVE  req' \in [Requests -> Reqs] /\ Placed'
  BY IdleFields DEF Placed, PlacedAt, Moved

LEMMA AbortTyped ==
    ASSUME TypeInv, NEW q \in Requests, Aborts(q), UNCHANGED tok,
           akExists' \in [Users -> BOOLEAN], akGroups' \in [Users -> SUBSET Roles],
           granted' \in [Users -> SUBSET Roles]
    PROVE  TypeInv'
<1>1. StoreOK'
  BY TypeParts DEF TypeInv, StoreOK, Aborts
<1>2. req' \in [Requests -> Reqs] /\ Placed'
  BY EndTyped DEF TypeInv, Aborts
<1> QED
  BY <1>1, <1>2, TypeParts DEF TypeInv

LEMMA TypeInvInit == Init => TypeInv
<1> SUFFICES ASSUME Init PROVE TypeInv
  OBVIOUS
<1>1. ASSUME NEW u \in Users
      PROVE  InitialGroups(u) \in SUBSET Roles /\ Resolve(u, InitialGroups(u)) \in Roles
  BY ResolveRange DEF InitialGroups, Roles
<1>2. akGroups \in [Users -> SUBSET Roles]
  BY <1>1 DEF Init
<1>3. tok \in [Users -> Tokens]
  BY <1>2 DEF Init, NewToken, Tokens
<1>4. row \in [Users -> Rows]
  <2>1. ASSUME NEW u \in Users
        PROVE  [id |-> 1, live |-> TRUE, active |-> TRUE,
                role |-> IF u \in Lagging THEN "free" ELSE Resolve(u, InitialGroups(u))]
                   \in Rows
    BY <1>1 DEF Rows, Roles
  <2> QED
    BY <2>1 DEF Init
<1>5. StoreOK
  BY <1>2, <1>3, <1>4 DEF Init, StoreOK
<1>6. req \in [Requests -> Reqs] /\ Placed
  BY IdleFields DEF Init, Placed, PlacedAt
<1> QED
  BY <1>5, <1>6, TypeParts DEF TypeInv

\* A request goes on, as far as its own transaction.
LEMMA TypeStep ==
    ASSUME TypeInv, NEW q \in Requests, Step(q)
    PROVE  TypeInv'
<1>0. /\ TypeOK /\ StoreOK /\ Placed
      /\ req \in [Requests -> Reqs] /\ req[q] \in Reqs
      /\ req[q].pc # "idle" => req[q].actor \in Users /\ req[q].target \in Users
  BY TypeParts DEF TypeInv, TypeOK, Placed, PlacedAt
<1>a. ASSUME StoreOK', Frame(q), req[q].pc # "idle" PROVE TypeInv'
  BY <1>0, <1>a, FrameTyped, TypeParts DEF TypeInv
<1>b. ASSUME Abort(q), UNCHANGED <<authentik, tok>> PROVE TypeInv'
  BY <1>0, <1>b, AbortEffect, AbortTyped DEF authentik, StoreOK
<1>1. CASE Lookup(q)
  <2>1. PICK pc \in {"gate", "sync"} :
            req' = [req EXCEPT ![q].me = row[req[q].actor], ![q].pc = pc]
    BY <1>1 DEF Lookup
  <2>2. req[q].pc = "lookup" /\ row[req[q].actor] \in Rows
    BY <1>0, <1>1 DEF Lookup, StoreOK
  <2>3. Frame(q)
    BY <1>0, <2>1, <2>2, MeEffect DEF PCs
  <2> QED
    BY <1>0, <1>1, <1>a, <2>2, <2>3, StoreSame DEF Lookup, NoEntry
<1>2. CASE SyncRole(q) \/ Upsert(q)
  <2>1. CASE Aborts(q) /\ UNCHANGED <<authentik, tok>>
    BY <1>0, <2>1, AbortTyped DEF authentik, StoreOK
  <2>2. ASSUME NEW v \in Rows, Syncs(q, v) PROVE TypeInv'
    <3>1. StoreOK'
      BY <1>0, <2>2, StoreWritten DEF Syncs
    <3> QED
      BY <1>a, <2>2, <3>1 DEF Syncs
  <2> QED
    BY <1>2, <2>1, <2>2, SyncRoleEffect, UpsertEffect
<1>3. CASE Gate(q) \/ AkSetPassword(q)
  <2>1. PICK pc \in {"close", "delete", "audit"} : Goto(q, pc)
    BY <1>3 DEF Gate, AkSetPassword
  <2>2. /\ req[q].pc # "idle" /\ logged' = None
        /\ UNCHANGED <<authentik, tok, postgres>>
    BY <1>3 DEF Gate, AkSetPassword, NoEntry
  <2> QED
    BY <1>0, <1>a, <2>1, <2>2, GotoEffect, StoreSame DEF PCs
<1>4. CASE Refuse(q) \/ AkGone(q) \/ CloseDoomed(q) \/ AbortWait(q)
  BY <1>4, <1>b DEF Refuse, AkGone, CloseDoomed, AbortWait
<1>5. CASE Target(q)
  <2>1. CASE Aborts(q) /\ UNCHANGED <<authentik, tok>>
    BY <1>0, <2>1, AbortTyped DEF authentik, StoreOK
  <2>2. CASE Targets(q) /\ UNCHANGED <<authentik, tok>>
    BY <1>0, <1>a, <2>2, StoreSame DEF Targets
  <2> QED
    BY <1>5, <2>1, <2>2, TargetFound
<1>6. CASE AkRemove(q) \/ AkAdd(q)
  <2>1. /\ req[q].pc # "idle" /\ req[q].tgt \in Rows /\ req[q].arg \in Roles
        /\ req[q].tgt.role \in Roles
    BY <1>0, <1>6, ReqFields, RowFields DEF AkRemove, AkAdd
  <2>2. /\ akGroups' \in [Users -> SUBSET Roles] /\ granted' \in [Users -> SUBSET Roles]
        /\ UNCHANGED <<akExists, tok>>
    BY <1>0, <1>6, <2>1 DEF AkRemove, AkAdd, StoreOK
  <2>3. CASE Abort(q)
    BY <1>0, <2>2, <2>3, AbortEffect, AbortTyped DEF StoreOK
  <2>4. CASE ~Abort(q)
    <3>1. PICK pc \in {"akadd", "write"} : Goto(q, pc) /\ UNCHANGED postgres /\ logged' = None
      BY <1>6, <2>4 DEF AkRemove, AkAdd, NoEntry
    <3>2. StoreOK'
      BY <1>0, <2>2, <3>1 DEF StoreOK, postgres
    <3> QED
      BY <1>0, <1>a, <2>1, <3>1, <3>2, GotoEffect DEF PCs
  <2> QED
    BY <2>3, <2>4
<1>7. CASE ChangeRole(q) \/ SetActive(q)
  <2>1. CASE Aborts(q) /\ UNCHANGED <<authentik, tok>>
    BY <1>0, <2>1, AbortTyped DEF authentik, StoreOK
  <2>2. ASSUME NEW v \in Rows, Updates(q, v) PROVE TypeInv'
    <3>1. StoreOK'
      BY <1>0, <2>2, StoreWritten DEF Updates
    <3> QED
      BY <1>0, <1>a, <2>2, <3>1, GotoEffect DEF Updates, PCs
  <2> QED
    BY <1>7, <2>1, <2>2, UpdateEffect
<1>8. CASE DeleteRow(q)
  <2>1. PICK v \in Rows : Deletes(q, v)
    BY <1>8, DeleteRowEffect
  <2>2. StoreOK'
    BY <1>0, <2>1, StoreWritten, StoreSame DEF Deletes
  <2> QED
    BY <1>a, <2>1, <2>2 DEF Deletes
<1>9. CASE Audit(q) \/ AuditFails(q)
  <2>1. AfterAudit(q) \in PCs /\ req[q].pc # "idle" /\ logged' = None
    BY <1>9 DEF Audit, AuditFails, AfterAudit, PCs, NoEntry
  <2>2. Frame(q)
    BY <1>0, <1>9, <2>1, EntryEffect, DoomedEffect DEF Audit, AuditFails
  <2>3. StoreOK'
    BY <1>0, <1>9, <2>1, StoreSame, StoreRolledBack DEF Audit, AuditFails
  <2> QED
    BY <1>a, <2>1, <2>2, <2>3
<1>10. CASE AkDelete(q)
  <2>1. PICK pc \in {"close", "audit"} : Goto(q, pc)
    BY <1>10 DEF AkDelete
  <2>2. StoreOK'
    BY <1>0, <1>10 DEF AkDelete, StoreOK, postgres, NoEntry
  <2> QED
    BY <1>0, <1>10, <1>a, <2>1, <2>2, GotoEffect DEF AkDelete, PCs
<1>11. CASE Commit(q)
  <2>1. Commits(q)
    BY <1>0, <1>11, CommitEffect
  <2>2. logged' \in [op : AllOps, admin : Users, user : Users, id : Nat] \cup {None}
    BY <1>0, <2>1, ReqFields DEF Commits, Entry, Placed, PlacedAt
  <2>3. row' \in [Users -> Rows]
    BY <1>0, <2>1, CurrentTyped DEF Commits
  <2>4. StoreOK'
    BY <1>0, <2>1, <2>2, <2>3 DEF Commits, StoreOK, authentik
  <2> QED
    BY <1>0, <2>1, <2>4, EndTyped, TypeParts DEF Commits, TypeInv
<1> QED
  BY <1>1, <1>2, <1>3, <1>4, <1>5, <1>6, <1>7, <1>8, <1>9, <1>10, <1>11 DEF Step

LEMMA TypeInvNext == TypeInv /\ [Next]_vars => TypeInv'
<1> SUFFICES ASSUME TypeInv, [Next]_vars PROVE TypeInv'
  OBVIOUS
<1>0. StoreOK /\ Placed /\ TypeOK /\ req \in [Requests -> Reqs]
  BY TypeParts DEF TypeInv
<1>1. ASSUME NEW q \in Requests, NEW u \in Users, NEW op \in Ops, NEW t \in Users,
             NEW role \in NewRoles, Begin(q, u, op, t, role)
      PROVE  TypeInv'
  <2>1. op \in AllOps /\ role \in Roles
    BY UsersAssumption
  <2>2. /\ Moved(q) /\ req'[q].actor = u /\ req'[q].target = t
        /\ UNCHANGED <<authentik, tok, postgres>> /\ logged' = None
    BY <1>0, <1>1, <2>1, BeginEffect
  <2>3. StoreOK'
    BY <1>0, <2>2, StoreSame
  <2>4. req' \in [Requests -> Reqs] /\ Placed'
    BY <1>0, <2>2 DEF Placed, PlacedAt, Moved
  <2> QED
    BY <2>3, <2>4, TypeParts DEF TypeInv
<1>2. ASSUME NEW q \in Requests, Step(q) PROVE TypeInv'
  BY <1>2, TypeStep
<1>3. ASSUME NEW q \in Requests, Fail(q) PROVE TypeInv'
  BY <1>0, <1>3, AbortEffect, AbortTyped DEF Fail, authentik, StoreOK
<1>4. ASSUME NEW u \in Users, IssueToken(u) PROVE TypeInv'
  <2>1. tok' \in [Users -> Tokens]
    BY <1>0, <1>4 DEF IssueToken, NewToken, StoreOK, Tokens
  <2>2. StoreOK' /\ req' = req
    BY <1>0, <1>4, <2>1 DEF IssueToken, StoreOK, authentik, postgres, NoEntry
  <2>3. Placed'
    BY <1>0, <2>2 DEF Placed
  <2> QED
    BY <1>0, <2>2, <2>3, TypeParts DEF TypeInv
<1>5. CASE UNCHANGED vars
  <2>1. StoreOK' /\ req' = req
    BY <1>0, <1>5 DEF vars, StoreOK, authentik, postgres
  <2>2. Placed'
    BY <1>0, <2>1 DEF Placed
  <2> QED
    BY <1>0, <2>1, <2>2, TypeParts DEF TypeInv
<1> QED
  BY <1>1, <1>2, <1>3, <1>4, <1>5 DEF Next

\* Every variable keeps its type, through errors, rollbacks and lock waits.
THEOREM UserAdminTypeCorrect == Spec => []TypeOK
<1>1. TypeInv => TypeOK
  BY DEF TypeInv
<1> QED
  BY <1>1, TypeInvInit, TypeInvNext, PTL DEF Spec

-----------------------------------------------------------------------------
(* Transactions.                                                           *)

Entries == \A q \in Requests : EntryAt(req[q])

\* What a lock means is said of the row, of its draft and of its request.
LEMMA DraftsAt ==
    /\ Drafts <=>
           \A u \in Users : /\ own[u] = None => draft[u] = row[u]
                            /\ own[u] # None => InTransaction(own[u]) /\ Means(own[u], u)
    /\ Drafts' <=>
           \A u \in Users : /\ own'[u] = None => draft'[u] = row'[u]
                            /\ own'[u] # None => \E q \in {own'[u]} :
                                                     InTransaction(q)' /\ Means(q, u)'
  BY DEF Drafts, InTransaction, Means

\* The requests that do not move keep what they mean.
LEMMA OthersKeep ==
    ASSUME TypeInv, Drafts, NEW q \in Requests, Moved(q), NEW u \in Users, own[u] # q,
           own'[u] = own[u], draft'[u] = draft[u], row'[u] = row[u]
    PROVE  /\ own'[u] = None => draft'[u] = row'[u]
           /\ own'[u] # None => \E x \in {own'[u]} : InTransaction(x)' /\ Means(x, u)'
<1>1. CASE own[u] = None
  BY <1>1 DEF Drafts
<1>2. CASE own[u] # None
  <2>1. PICK x \in Requests : x = own[u] /\ x # q /\ InTransaction(x) /\ Means(x, u)
    BY <1>2 DEF TypeInv, TypeOK, Drafts
  <2>2. req'[x] = req[x]
    BY <2>1 DEF Moved
  <2>3. InTransaction(x)' /\ Means(x, u)'
    BY <2>1, <2>2 DEF InTransaction, Means
  <2> QED
    BY <1>2, <2>1, <2>3
<1> QED
  BY <1>1, <1>2

\* A request moves on within its transaction and writes nothing.
LEMMA DraftsKept ==
    ASSUME TypeInv, Drafts, UNCHANGED postgres, NEW q \in Requests, Frame(q), KeepsAim(q),
           InTransaction(q) => InTransaction(q)' /\ KeepsMe(q),
           req[q].pc \in {"audit", "akdelete", "close"} =>
               req'[q].pc \in {"audit", "akdelete", "close"}
    PROVE  Drafts'
<1> SUFFICES ASSUME NEW u \in Users
             PROVE  /\ own'[u] = None => draft'[u] = row'[u]
                    /\ own'[u] # None =>
                           \E x \in {own'[u]} : InTransaction(x)' /\ Means(x, u)'
  BY DraftsAt
<1>0. own' = own /\ draft' = draft /\ row' = row
  BY DEF postgres
<1>1. CASE own[u] = q
  <2>1. q # None /\ InTransaction(q) /\ Means(q, u)
    BY <1>1, UsersAssumption DEF Drafts
  <2>2. Means(q, u)'
    BY <1>0, <2>1 DEF Means, Frame, KeepsAim, KeepsMe
  <2> QED
    BY <1>0, <1>1, <2>1, <2>2
<1>2. CASE own[u] # q
  BY <1>0, <1>2, OthersKeep DEF Frame
<1> QED
  BY <1>1, <1>2

\* A rollback leaves the committed rows and frees the locks.
LEMMA DraftsRolledBack ==
    ASSUME TypeInv, Drafts, NEW q \in Requests, Moved(q), row' = row,
           own' = [u \in Users |-> IF own[u] = q THEN None ELSE own[u]],
           draft' = [u \in Users |-> IF own[u] = q THEN row[u] ELSE draft[u]]
    PROVE  Drafts'
<1> SUFFICES ASSUME NEW u \in Users
             PROVE  /\ own'[u] = None => draft'[u] = row'[u]
                    /\ own'[u] # None =>
                           \E x \in {own'[u]} : InTransaction(x)' /\ Means(x, u)'
  BY DraftsAt
<1>1. CASE own[u] = q
  BY <1>1
<1>2. CASE own[u] # q
  BY <1>2, OthersKeep
<1> QED
  BY <1>1, <1>2

\* A commit makes the drafts of its transaction the rows.
LEMMA DraftsCommitted ==
    ASSUME TypeInv, Drafts, NEW q \in Requests, Commits(q)
    PROVE  Drafts'
<1> SUFFICES ASSUME NEW u \in Users
             PROVE  /\ own'[u] = None => draft'[u] = row'[u]
                    /\ own'[u] # None =>
                           \E x \in {own'[u]} : InTransaction(x)' /\ Means(x, u)'
  BY DraftsAt
<1>1. CASE own[u] = q
  BY <1>1 DEF Commits, Current
<1>2. CASE own[u] # q
  BY <1>2, OthersKeep DEF Commits, Current
<1> QED
  BY <1>1, <1>2

LEMMA DraftsSynced ==
    ASSUME TypeInv, Drafts, NEW q \in Requests, ~req[q].doomed, NEW v \in Rows, Syncs(q, v)
    PROVE  Drafts'
<1> SUFFICES ASSUME NEW u \in Users
             PROVE  /\ own'[u] = None => draft'[u] = row'[u]
                    /\ own'[u] # None =>
                           \E x \in {own'[u]} : InTransaction(x)' /\ Means(x, u)'
  BY DraftsAt
<1>0. /\ own \in [Users -> Requests \cup {None}] /\ draft \in [Users -> Rows]
      /\ q # None /\ req[q].actor \in Users
  BY UsersAssumption DEF TypeInv, TypeOK, Placed, PlacedAt, Syncs
<1>1. own[u] # q
  BY <1>0 DEF Drafts, InTransaction, Syncs
<1>2. CASE u = req[q].actor
  <2>1. /\ own'[u] = q /\ draft'[u] = v /\ row'[u] = row[u]
        /\ row[u].live => v.id = row[u].id /\ v.live /\ v.active = row[u].active
        /\ ~row[u].live => v.id = row[u].id + 1
        /\ v.role = req'[q].me.role /\ u = req'[q].actor
    BY <1>0, <1>1, <1>2 DEF Syncs, WriteRow, Current, Frame
  <2>2. InTransaction(q)'
    BY DEF InTransaction, Syncs, KeepsEntry
  <2>3. Means(q, u)'
    BY <2>1 DEF Means
  <2> QED
    BY <1>0, <2>1, <2>2, <2>3
<1>3. CASE u # req[q].actor
  BY <1>0, <1>1, <1>3, OthersKeep DEF Syncs, WriteRow, Frame
<1> QED
  BY <1>2, <1>3

LEMMA DraftsUpdated ==
    ASSUME TypeInv, Drafts, NEW q \in Requests, ~req[q].doomed, NEW v \in Rows, Updates(q, v)
    PROVE  Drafts'
<1> SUFFICES ASSUME NEW u \in Users
             PROVE  /\ own'[u] = None => draft'[u] = row'[u]
                    /\ own'[u] # None =>
                           \E x \in {own'[u]} : InTransaction(x)' /\ Means(x, u)'
  BY DraftsAt
<1>0. /\ own \in [Users -> Requests \cup {None}] /\ draft \in [Users -> Rows]
      /\ q # None /\ req[q].target \in Users /\ req[q].pc = "write"
  BY UsersAssumption DEF TypeInv, TypeOK, Placed, PlacedAt, Updates
<1>1. Frame(q) /\ req'[q].pc = "audit" /\ KeepsMe(q) /\ KeepsAim(q) /\ KeepsEntry(q)
  BY GotoEffect DEF TypeInv, TypeOK, Updates, PCs
<1>2. InTransaction(q)'
  BY <1>1 DEF InTransaction, KeepsEntry
<1>3. own[u] # q /\ own[u] # None => u # req[q].target
  BY <1>0 DEF Updates, WriteRow, Free
<1>4. own[u] = q => Means(q, u)
  BY <1>0 DEF Drafts
<1>5. CASE u = req[q].target
  <2>1. /\ own'[u] = q /\ draft'[u] = v /\ row'[u] = row[u]
        /\ own[u] = None => draft[u] = row[u]
    BY <1>0, <1>5 DEF Updates, WriteRow, Drafts
  <2>2. PICK now \in {row[u], draft[u]} :
            /\ now = Current(q, u) /\ now.live /\ now.id = req[q].tid
            /\ v.id = now.id /\ v.live
            /\ \/ v.active = now.active
               \/ req[q].op \in {"block", "unblock"} /\ v.active = (req[q].op = "unblock")
            /\ v.role = now.role \/ (req[q].op = "role" /\ v.role = req[q].arg)
    BY <1>5 DEF Updates, Current
  <2>3. row[u].live =>
            /\ now.id = row[u].id
            /\ now.active # row[u].active =>
                   /\ req[q].op \in {"block", "unblock"}
                   /\ now.active = (req[q].op = "unblock")
    BY <1>4, <2>2 DEF Current, Means
  <2>4. /\ ~row[u].live => u = req[q].actor /\ now.id = row[u].id + 1
        /\ now.role # row[u].role =>
               \/ u = req[q].actor /\ now.role = req[q].me.role
               \/ req[q].op = "role" /\ now.role = req[q].arg
    BY <1>4, <2>2 DEF Current, Means
  <2>5. Means(q, u)'
    BY <1>1, <1>5, <2>1, <2>2, <2>3, <2>4 DEF Means, Frame, KeepsMe, KeepsAim
  <2> QED
    BY <1>0, <1>2, <2>1, <2>5
<1>6. CASE u # req[q].target
  <2>1. own'[u] = own[u] /\ draft'[u] = draft[u] /\ row'[u] = row[u]
    BY <1>0, <1>6 DEF Updates, WriteRow
  <2>2. CASE own[u] = q
    <3>1. Means(q, u)'
      BY <1>1, <1>4, <2>1, <2>2, <1>0 DEF Means, Frame, KeepsMe, KeepsAim
    <3> QED
      BY <1>0, <1>2, <2>1, <2>2, <3>1
  <2>3. CASE own[u] # q
    BY <1>1, <2>1, <2>3, OthersKeep DEF Frame
  <2> QED
    BY <2>2, <2>3
<1> QED
  BY <1>5, <1>6

LEMMA DraftsDeleted ==
    ASSUME TypeInv, Drafts, NEW q \in Requests, ~req[q].doomed,
           req[q].op \in {"delete", "delete_self"}, NEW v \in Rows, Deletes(q, v)
    PROVE  Drafts'
<1> SUFFICES ASSUME NEW u \in Users
             PROVE  /\ own'[u] = None => draft'[u] = row'[u]
                    /\ own'[u] # None =>
                           \E x \in {own'[u]} : InTransaction(x)' /\ Means(x, u)'
  BY DraftsAt
<1>0. /\ own \in [Users -> Requests \cup {None}] /\ draft \in [Users -> Rows]
      /\ q # None /\ req[q].target \in Users /\ req[q].pc = "delete"
  BY UsersAssumption DEF TypeInv, TypeOK, Placed, PlacedAt, Deletes
<1>1. /\ Frame(q) /\ req'[q].pc \in {"audit", "akdelete"} /\ KeepsMe(q) /\ KeepsEntry(q)
      /\ req'[q].op = req[q].op /\ req'[q].target = req[q].target
      /\ req'[q].actor = req[q].actor /\ req'[q].me = req[q].me
  BY DEF Deletes, Frame, KeepsMe
<1>2. InTransaction(q)'
  BY <1>1 DEF InTransaction, KeepsEntry
\* So far the transaction has removed no row and set none active or inactive.
<1>3. own[u] = q =>
          /\ row[u].live => /\ draft[u].id = row[u].id /\ draft[u].live
                            /\ draft[u].active = row[u].active
          /\ ~row[u].live => u = req[q].actor /\ draft[u].id = row[u].id + 1
          /\ draft[u].role # row[u].role =>
                 u = req[q].actor /\ draft[u].role = req[q].me.role
  BY <1>0 DEF Drafts, Means
<1>4. CASE own'[u] = own[u] /\ draft'[u] = draft[u] /\ row'[u] = row[u]
  <2>1. CASE own[u] = q
    <3>1. Means(q, u)'
      BY <1>1, <1>3, <1>4, <2>1 DEF Means
    <3> QED
      BY <1>0, <1>2, <1>4, <2>1, <3>1
  <2>2. CASE own[u] # q
    BY <1>1, <1>4, <2>2, OthersKeep DEF Frame
  <2> QED
    BY <2>1, <2>2
<1>5. CASE WriteRow(q, req[q].target, v) /\ u = req[q].target
  <2>1. /\ own'[u] = q /\ draft'[u] = v /\ row'[u] = row[u]
        /\ own[u] = None => draft[u] = row[u]
    BY <1>0, <1>5 DEF WriteRow, Drafts
  <2>2. \/ UNCHANGED postgres
        \/ \E now \in {row[u], draft[u]} :
               /\ now = Current(q, u) /\ now.id = req'[q].tid
               /\ now.live /\ v.id = now.id /\ v.active = now.active /\ v.role = now.role
    BY <1>5 DEF Deletes, Current
  <2>3. CASE UNCHANGED postgres
    BY <1>4, <2>3 DEF postgres
  <2>4. ASSUME NEW now \in {row[u], draft[u]}, now = Current(q, u), now.id = req'[q].tid,
               now.live, v.id = now.id, v.active = now.active, v.role = now.role
        PROVE  Means(q, u)'
    <3>1. /\ row[u].live => now.id = row[u].id /\ now.active = row[u].active
          /\ ~row[u].live => u = req[q].actor /\ now.id = row[u].id + 1
          /\ now.role # row[u].role => u = req[q].actor /\ now.role = req[q].me.role
      BY <1>0, <1>3, <2>1, <2>4 DEF Current
    <3> QED
      BY <1>1, <1>5, <2>1, <2>4, <3>1 DEF Means
  <2> QED
    BY <1>0, <1>2, <2>1, <2>2, <2>3, <2>4
<1> QED
  BY <1>0, <1>4, <1>5 DEF Deletes, WriteRow, postgres

LEMMA EntriesMoved ==
    ASSUME Entries, NEW q \in Requests, Moved(q), EntryAt(req'[q])
    PROVE  Entries'
  BY DEF Entries, Moved

LEMMA EntriesEnded ==
    ASSUME Entries, NEW q \in Requests, Moved(q), req'[q] = Idle
    PROVE  Entries'
  BY IdleFields, EntriesMoved DEF EntryAt

LEMMA AbortKeeps ==
    ASSUME TypeInv, TransactionInv, NEW q \in Requests, Aborts(q)
    PROVE  TransactionInv'
<1>1. Drafts'
  BY DraftsRolledBack DEF TransactionInv, Aborts
<1>2. Entries'
  BY EntriesEnded DEF TransactionInv, Entries, Aborts
<1> QED
  BY <1>1, <1>2 DEF TransactionInv, Entries

LEMMA TransactionStep ==
    ASSUME TypeInv, TransactionInv, NEW q \in Requests, Step(q)
    PROVE  TransactionInv'
<1>0. /\ TypeOK /\ Placed /\ req \in [Requests -> Reqs] /\ req[q] \in Reqs
      /\ Drafts /\ Entries /\ EntryAt(req[q])
      /\ Entries' /\ Drafts' => TransactionInv'
  BY TypeParts DEF TypeInv, TransactionInv, Entries
<1>a. ASSUME Abort(q) PROVE TransactionInv'
  BY <1>0, <1>a, AbortEffect, AbortKeeps
\* A step that only moves its request, from an undoomed place to another.
<1>b. ASSUME NEW pc \in PCs, Goto(q, pc), UNCHANGED postgres,
             pc \notin {"idle", "lookup", "sync"},
             req[q].pc \in {"audit", "akdelete", "close"} => pc \in {"audit", "akdelete", "close"},
             \A x \in Reqs : /\ x.pc = pc /\ x.op = req[q].op
                             /\ x.entry = req[q].entry /\ x.doomed = req[q].doomed
                             => EntryAt(x)
      PROVE  TransactionInv'
  <2>1. /\ Frame(q) /\ req'[q].pc = pc /\ KeepsMe(q) /\ KeepsAim(q) /\ KeepsEntry(q)
        /\ Moved(q) /\ req'[q] \in Reqs
    BY <1>0, <1>b, GotoEffect DEF Frame, Moved
  <2>2. EntryAt(req'[q])
    BY <1>b, <2>1 DEF Frame, KeepsEntry
  <2>3. Drafts'
    BY <1>0, <1>b, <2>1, DraftsKept DEF InTransaction, KeepsEntry
  <2> QED
    BY <1>0, <2>1, <2>2, <2>3, EntriesMoved
<1>1. CASE Lookup(q)
  <2>1. PICK pc \in {"gate", "sync"} :
            req' = [req EXCEPT ![q].me = row[req[q].actor], ![q].pc = pc]
    BY <1>1 DEF Lookup
  <2>2. req[q].pc = "lookup" /\ row[req[q].actor] \in Rows /\ UNCHANGED postgres
    BY <1>0, <1>1 DEF Lookup, TypeOK, Placed, PlacedAt
  <2>3. Frame(q) /\ Moved(q) /\ req'[q].pc = pc /\ KeepsAim(q) /\ KeepsEntry(q)
    BY <1>0, <2>1, <2>2, MeEffect DEF PCs, Frame
  <2>4. EntryAt(req'[q])
    BY <1>0, <2>2, <2>3 DEF EntryAt, KeepsEntry
  <2>5. ~InTransaction(q)
    BY <2>2 DEF InTransaction
  <2>6. Drafts'
    BY <1>0, <2>2, <2>3, <2>5, DraftsKept
  <2> QED
    BY <1>0, <2>3, <2>4, <2>6, EntriesMoved
<1>2. CASE SyncRole(q) \/ Upsert(q)
  <2>1. ASSUME NEW v \in Rows, Syncs(q, v) PROVE TransactionInv'
    <3>1. ~req[q].doomed /\ req'[q].pc = "gate" /\ Moved(q) /\ KeepsEntry(q)
      BY <1>0, <2>1 DEF EntryAt, Syncs, Frame
    <3>2. EntryAt(req'[q])
      BY <3>1 DEF EntryAt, KeepsEntry
    <3> QED
      BY <1>0, <2>1, <3>1, <3>2, DraftsSynced, EntriesMoved
  <2> QED
    BY <1>2, <2>1, SyncRoleEffect, UpsertEffect, AbortKeeps
<1>3. CASE Gate(q)
  <2>1. /\ Goto(q, IF req[q].op = "me" THEN "close" ELSE "delete")
        /\ req[q].pc = "gate" /\ UNCHANGED postgres
        /\ req[q].op \in {"me", "delete_self"} /\ ~req[q].doomed
    BY <1>0, <1>3, ReqFields DEF Gate, AdminOps, AllOps, EntryAt
  <2>2. CASE req[q].op = "me"
    BY <1>b, <2>1, <2>2 DEF EntryAt, PCs
  <2>3. CASE req[q].op = "delete_self"
    BY <1>b, <2>1, <2>3 DEF EntryAt, PCs
  <2> QED
    BY <2>1, <2>2, <2>3
<1>4. CASE Refuse(q) \/ AkGone(q) \/ CloseDoomed(q) \/ AbortWait(q)
  BY <1>4, <1>a DEF Refuse, AkGone, CloseDoomed, AbortWait
<1>5. CASE Target(q)
  <2>1. ASSUME Targets(q) PROVE TransactionInv'
    <3>1. /\ Frame(q) /\ Moved(q) /\ KeepsMe(q) /\ KeepsAim(q) /\ KeepsEntry(q)
          /\ UNCHANGED postgres /\ req[q].pc = "gate" /\ ~req[q].doomed
      BY <1>0, <2>1 DEF Targets, Frame, EntryAt
    <3>2. EntryAt(req'[q])
      BY <2>1, <3>1 DEF Targets, EntryAt, KeepsEntry, Frame
    <3>3. InTransaction(q)'
      BY <2>1, <3>1 DEF Targets, InTransaction, KeepsEntry
    <3>4. Drafts'
      BY <1>0, <3>1, <3>3, DraftsKept
    <3> QED
      BY <1>0, <3>1, <3>2, <3>4, EntriesMoved
  <2> QED
    BY <1>5, <2>1, TargetFound, AbortKeeps
<1>6. CASE AkRemove(q)
  <2>1. req[q].pc = "akremove" /\ ~req[q].doomed
        /\ (Abort(q) \/ (Goto(q, "akadd") /\ UNCHANGED postgres))
    BY <1>0, <1>6 DEF AkRemove, EntryAt
  <2> QED
    BY <1>a, <1>b, <2>1 DEF EntryAt, PCs
<1>7. CASE AkAdd(q)
  <2>1. req[q].pc = "akadd" /\ ~req[q].doomed
        /\ (Abort(q) \/ (Goto(q, "write") /\ UNCHANGED postgres))
    BY <1>0, <1>7 DEF AkAdd, EntryAt
  <2> QED
    BY <1>a, <1>b, <2>1 DEF EntryAt, PCs
<1>8. CASE AkSetPassword(q)
  <2>1. /\ req[q].pc = "akpassword" /\ ~req[q].doomed
        /\ Goto(q, "audit") /\ UNCHANGED postgres
    BY <1>0, <1>8 DEF AkSetPassword, EntryAt
  <2> QED
    BY <1>b, <2>1 DEF EntryAt, PCs
<1>9. CASE ChangeRole(q) \/ SetActive(q)
  <2>1. ASSUME NEW v \in Rows, Updates(q, v) PROVE TransactionInv'
    <3>1. /\ ~req[q].doomed /\ req'[q].pc = "audit" /\ Moved(q) /\ KeepsEntry(q)
      BY <1>0, <2>1, GotoEffect DEF EntryAt, Updates, Frame, PCs
    <3>2. EntryAt(req'[q])
      BY <3>1 DEF EntryAt, KeepsEntry
    <3> QED
      BY <1>0, <2>1, <3>1, <3>2, DraftsUpdated, EntriesMoved
  <2> QED
    BY <1>9, <2>1, UpdateEffect, AbortKeeps
<1>10. CASE DeleteRow(q)
  <2>1. PICK v \in Rows : Deletes(q, v)
    BY <1>10, DeleteRowEffect
  <2>2. /\ ~req[q].doomed /\ req[q].op \in {"delete", "delete_self"}
        /\ req'[q].pc = (IF req[q].op = "delete" THEN "audit" ELSE "akdelete")
        /\ Moved(q) /\ KeepsEntry(q) /\ req'[q].op = req[q].op
    BY <1>0, <2>1 DEF EntryAt, Deletes, Frame
  <2>3. EntryAt(req'[q])
    BY <2>2 DEF EntryAt, KeepsEntry
  <2> QED
    BY <1>0, <2>1, <2>2, <2>3, DraftsDeleted, EntriesMoved
<1>11. CASE Audit(q)
  <2>1. /\ req[q].pc = "audit" /\ ~req[q].doomed /\ AfterAudit(q) \in {"akdelete", "close"}
        /\ AfterAudit(q) = "akdelete" => req[q].op = "delete"
        /\ UNCHANGED postgres
    BY <1>0, <1>11 DEF Audit, AfterAudit, EntryAt
  <2>2. /\ Frame(q) /\ Moved(q) /\ req'[q].pc = AfterAudit(q) /\ KeepsMe(q) /\ KeepsAim(q)
        /\ req'[q].entry = TRUE /\ req'[q].doomed = req[q].doomed
    BY <1>0, <1>11, <2>1, EntryEffect DEF Audit, PCs, Frame
  <2>3. EntryAt(req'[q])
    BY <2>1, <2>2 DEF EntryAt, Frame
  <2>4. Drafts'
    BY <1>0, <2>1, <2>2, DraftsKept DEF InTransaction
  <2> QED
    BY <1>0, <2>2, <2>3, <2>4, EntriesMoved
<1>12. CASE AuditFails(q)
  <2>1. /\ AfterAudit(q) \in {"akdelete", "close"} /\ RollbackOnly(q)
        /\ AfterAudit(q) = "akdelete" => req[q].op = "delete"
    BY <1>12 DEF AuditFails, AfterAudit
  <2>2. Frame(q) /\ Moved(q) /\ req'[q].pc = AfterAudit(q) /\ req'[q].doomed = TRUE
    BY <1>0, <1>12, <2>1, DoomedEffect DEF AuditFails, PCs, Frame
  <2>3. EntryAt(req'[q])
    BY <2>1, <2>2 DEF EntryAt, Frame
  <2>4. Drafts'
    BY <1>0, <2>1, <2>2, DraftsRolledBack DEF RollbackOnly, Unlock
  <2> QED
    BY <1>0, <2>2, <2>3, <2>4, EntriesMoved
<1>13. CASE AkDelete(q)
  <2>1. /\ req[q].pc = "akdelete" /\ req[q].op \in {"delete", "delete_self"}
        /\ req[q].op = "delete" => req[q].entry \/ req[q].doomed
        /\ req[q].op = "delete_self" => ~req[q].doomed
        /\ Goto(q, IF req[q].op = "delete" THEN "close" ELSE "audit")
        /\ UNCHANGED postgres
    BY <1>0, <1>13 DEF AkDelete, EntryAt
  <2>2. CASE req[q].op = "delete"
    BY <1>b, <2>1, <2>2 DEF EntryAt, PCs
  <2>3. CASE req[q].op = "delete_self"
    BY <1>b, <2>1, <2>3 DEF EntryAt, PCs
  <2> QED
    BY <2>1, <2>2, <2>3
<1>14. CASE Commit(q)
  <2>1. Commits(q)
    BY <1>0, <1>14, CommitEffect
  <2> QED
    BY <1>0, <2>1, DraftsCommitted, EntriesEnded DEF Commits
<1> QED
  BY <1>1, <1>2, <1>3, <1>4, <1>5, <1>6, <1>7, <1>8, <1>9, <1>10, <1>11, <1>12,
     <1>13, <1>14 DEF Step

LEMMA TransactionInvInit == Init => TransactionInv
<1> SUFFICES ASSUME Init PROVE TransactionInv
  OBVIOUS
<1>1. Drafts
  BY DEF Init, Drafts
<1>2. \A q \in Requests : EntryAt(req[q])
  BY IdleFields DEF Init, EntryAt
<1> QED
  BY <1>1, <1>2 DEF TransactionInv

LEMMA TransactionInvNext == TypeInv /\ TransactionInv /\ [Next]_vars => TransactionInv'
<1> SUFFICES ASSUME TypeInv, TransactionInv, [Next]_vars PROVE TransactionInv'
  OBVIOUS
<1>0. TypeOK /\ Drafts /\ Entries /\ (Entries' /\ Drafts' => TransactionInv')
  BY DEF TypeInv, TransactionInv, Entries
<1>1. ASSUME NEW q \in Requests, NEW u \in Users, NEW op \in Ops, NEW t \in Users,
             NEW role \in NewRoles, Begin(q, u, op, t, role)
      PROVE  TransactionInv'
  <2>1. op \in AllOps /\ role \in Roles /\ None \notin Requests
    BY UsersAssumption
  <2>2. /\ req[q].pc = "idle" /\ Moved(q) /\ req'[q].pc = "lookup" /\ ~req'[q].doomed
        /\ UNCHANGED postgres
    BY <1>0, <1>1, <2>1, BeginEffect
  <2>3. \A x \in Users : own[x] # q
    BY <1>0, <2>1, <2>2 DEF Drafts, InTransaction
  <2>4. Drafts'
    BY <1>0, <2>2, <2>3, OthersKeep, DraftsAt DEF postgres
  <2>5. EntryAt(req'[q])
    BY <2>2 DEF EntryAt
  <2> QED
    BY <1>0, <2>2, <2>4, <2>5, EntriesMoved
<1>2. ASSUME NEW q \in Requests, Step(q) PROVE TransactionInv'
  BY <1>2, TransactionStep
<1>3. ASSUME NEW q \in Requests, Fail(q) PROVE TransactionInv'
  BY <1>0, <1>3, AbortEffect, AbortKeeps DEF Fail
<1>4. ASSUME UNCHANGED <<postgres, req>> PROVE TransactionInv'
  BY <1>4 DEF postgres, TransactionInv, Drafts, InTransaction, Means
<1> QED
  BY <1>1, <1>2, <1>3, <1>4 DEF Next, IssueToken, vars

\* What a transaction has written differs from the committed row only in what
\* its request means to change, whatever it had read before: a block or removal of
\* that very row, an assigned role, and on its own row the role it was admitted
\* with, which is that of its token and may be older than the committed one.
THEOREM TransactionsWriteTheirOwn == Spec => []DraftsAreCurrent
<1>1. TypeInv /\ TransactionInv => DraftsAreCurrent
  BY DEF TransactionInv, Drafts, InTransaction, Means, DraftsAreCurrent
<1> QED
  BY <1>1, TypeInvInit, TypeInvNext, TransactionInvInit, TransactionInvNext, PTL DEF Spec

-----------------------------------------------------------------------------
(* The audit trail.                                                        *)

\* What one step may do to an account that is in the database.
Audited(u) ==
    row[u].live /\ row'[u] # row[u] =>
        LET entries(op) == {[op |-> op, admin |-> a, user |-> u, id |-> row[u].id] :
                                a \in Users}
        IN  /\ row'[u].id = row[u].id
            /\ row[u].active /\ ~row'[u].active => logged' \in entries("block")
            /\ ~row[u].active /\ row'[u].active => logged' \in entries("unblock")
            /\ ~row'[u].live => logged' \in entries("delete") \cup entries("delete_self")

LEMMA CommitAudited ==
    ASSUME TypeInv, TransactionInv, NEW q \in Requests, Commits(q), NEW u \in Users
    PROVE  Audited(u)
<1> SUFFICES ASSUME row[u].live, row'[u] # row[u]
             PROVE  LET entries(op) == {[op |-> op, admin |-> a, user |-> u, id |-> row[u].id] :
                                            a \in Users}
                    IN  /\ row'[u].id = row[u].id
                        /\ row[u].active /\ ~row'[u].active => logged' \in entries("block")
                        /\ ~row[u].active /\ row'[u].active => logged' \in entries("unblock")
                        /\ ~row'[u].live =>
                               logged' \in entries("delete") \cup entries("delete_self")
  BY DEF Audited
<1>1. own[u] = q /\ row'[u] = draft[u]
  BY DEF Commits, Current
<1>2. Means(q, u)
  BY <1>1, UsersAssumption DEF TransactionInv, Drafts
<1>3. req[q].op # "me" =>
          /\ req[q].actor \in Users
          /\ logged' = [op |-> req[q].op, admin |-> req[q].actor,
                        user |-> req[q].target, id |-> req[q].tid]
  BY DEF TypeInv, Placed, PlacedAt, TransactionInv, EntryAt, Commits, Entry
<1>4. row[u].active \in BOOLEAN /\ draft[u].active \in BOOLEAN
  BY RowFields DEF TypeInv, TypeOK
<1> QED
  BY <1>1, <1>2, <1>3, <1>4 DEF Means

LEMMA RowsChangeAtCommit ==
    TypeInv /\ [Next]_vars => row' = row \/ \E q \in Requests : Commits(q)
<1> SUFFICES ASSUME TypeInv, [Next]_vars, \A q \in Requests : ~Commits(q)
             PROVE  row' = row
  OBVIOUS
<1>0. TypeOK
  BY DEF TypeInv
<1>1. ASSUME NEW q \in Requests, Step(q) PROVE row' = row
  BY <1>0, <1>1, CommitEffect
     DEF Step, Lookup, SyncRole, Upsert, Gate, Refuse, Target, AkRemove, AkAdd, AkGone,
         AkSetPassword, ChangeRole, SetActive, UpdateTarget, DeleteRow, Audit, AuditFails,
         AkDelete, CloseDoomed, AbortWait, Abort, RollbackOnly, WriteRow, postgres
<1>2. ASSUME NEW q \in Requests, Fail(q) PROVE row' = row
  BY <1>2 DEF Fail, Abort, RollbackOnly
<1> QED
  BY <1>1, <1>2 DEF Next, Begin, IssueToken, vars, postgres

\* An account is blocked, unblocked or removed only by a commit that carries
\* the audit entry for just that row.
THEOREM EffectsAreAudited == Spec => EffectsAudited
<1>1. TypeInv /\ TransactionInv /\ [Next]_vars => \A u \in Users : Audited(u)
  BY RowsChangeAtCommit, CommitAudited DEF Audited
<1>2. TypeInv /\ TransactionInv /\ [Next]_vars =>
          [\A u \in Users :
              row[u].live /\ row'[u] # row[u] =>
                  LET entries(op) == {[op |-> op, admin |-> a, user |-> u, id |-> row[u].id] :
                                          a \in Users}
                  IN  /\ row'[u].id = row[u].id
                      /\ row[u].active /\ ~row'[u].active => logged' \in entries("block")
                      /\ ~row[u].active /\ row'[u].active => logged' \in entries("unblock")
                      /\ ~row'[u].live => logged' \in entries("delete") \cup entries("delete_self")
          ]_vars
  BY <1>1 DEF Audited
<1> QED
  BY <1>2, TypeInvInit, TypeInvNext, TransactionInvInit, TransactionInvNext, PTL
     DEF Spec, EffectsAudited

-----------------------------------------------------------------------------
(* The roles.                                                              *)

\* What Authentik has once granted, it has granted.
Grows == \A u \in Users : granted[u] \subseteq granted'[u]

LEMMA StillDeserved ==
    ASSUME Grows, NEW u \in Users, NEW role, Deserved(u, role)
    PROVE  Deserved(u, role)'
  BY DEF Grows, Deserved

LEMMA StillRoles ==
    ASSUME Grows, NEW x \in Reqs, PlacedAt(x), RolesOf(x)
    PROVE  RolesOf(x)'
  BY StillDeserved DEF RolesOf, PlacedAt, Grows

\* The requests that do not move, and the one that does.
LEMMA ReqRolesKept ==
    ASSUME TypeInv, RolesInv, Grows, NEW q \in Requests, Moved(q),
           NEW y \in Reqs, y = req'[q], RolesOf(y)'
    PROVE  \A x \in Requests : RolesOf(req[x])'
<1> SUFFICES ASSUME NEW x \in Requests PROVE RolesOf(req[x])'
  OBVIOUS
<1>1. CASE x = q
  BY <1>1
<1>2. CASE x # q
  <2>1. PICK z \in Reqs : z = req[x] /\ PlacedAt(z) /\ RolesOf(z)
    BY DEF TypeInv, TypeOK, Placed, RolesInv
  <2>2. RolesOf(z)'
    BY <2>1, StillRoles
  <2> QED
    BY <1>2, <2>1, <2>2 DEF Moved
<1> QED
  BY <1>1, <1>2

\* A request that goes on with what it has read, and is not about to assign a
\* role it has not just granted.
LEMMA FrameRoles ==
    ASSUME TypeInv, RolesInv, Grows, NEW q \in Requests, req[q].pc # "idle", Frame(q),
           NEW u, u = req[q].actor, NEW role, role = req'[q].me.role, Deserved(u, role)',
           req'[q].groups = NoGroups \/ KeepsGroups(q),
           req'[q].pc = "write" /\ req[q].op = "role" => req[q].arg \in granted'[req[q].target]
    PROVE  \A x \in Requests : RolesOf(req[x])'
<1>1. PICK x \in Reqs : x = req[q] /\ RolesOf(x) /\ x.actor \in Users
  BY DEF TypeInv, TypeOK, Placed, PlacedAt, RolesInv
<1>2. PICK y \in Reqs : y = req'[q]
  BY DEF Frame, Moved
<1>3. y.groups # NoGroups => y.groups \subseteq granted'[u]
  BY <1>1, <1>2 DEF RolesOf, KeepsGroups, Grows
<1>4. RolesOf(y)'
  BY <1>1, <1>2, <1>3 DEF RolesOf, Frame
<1> QED
  BY <1>2, <1>4, ReqRolesKept DEF Frame

\* The same when its own row is not read or written, nor Authentik asked.
LEMMA GotoRoles ==
    ASSUME TypeInv, RolesInv, Grows, NEW q \in Requests, req[q].pc # "idle",
           Frame(q), KeepsMe(q), req'[q].groups = NoGroups \/ KeepsGroups(q),
           req'[q].pc = "write" /\ req[q].op = "role" => req[q].arg \in granted'[req[q].target]
    PROVE  \A x \in Requests : RolesOf(req[x])'
<1>1. PICK x \in Reqs : x = req[q] /\ RolesOf(x) /\ x.actor \in Users
  BY DEF TypeInv, TypeOK, Placed, PlacedAt, RolesInv
<1>2. Deserved(x.actor, x.me.role)'
  BY <1>1, StillDeserved DEF RolesOf
<1> QED
  BY <1>1, <1>2, FrameRoles DEF KeepsMe

LEMMA EndRoles ==
    ASSUME TypeInv, RolesInv, Grows, NEW q \in Requests, Moved(q), req'[q] = Idle
    PROVE  \A x \in Requests : RolesOf(req[x])'
<1>1. RolesOf(Idle)'
  BY IdleFields DEF RolesOf
<1> QED
  BY <1>1, IdleFields, ReqRolesKept

\* The stores, when the rows change among deserved roles.
LEMMA StoresKept ==
    ASSUME TypeInv, RolesInv, UNCHANGED <<authentik, tok>>,
           \A u \in Users : /\ row'[u].role \in {row[u].role, draft[u].role}
                            /\ draft'[u].role \in {row[u].role, draft[u].role}
    PROVE  StoreRoles' /\ Grows
  BY DEF RolesInv, StoreRoles, Deserved, authentik, Grows

LEMMA AbortRoles ==
    ASSUME TypeInv, RolesInv, NEW q \in Requests, Aborts(q), UNCHANGED <<authentik, tok>>
    PROVE  RolesInv'
<1>1. StoreRoles' /\ Grows
  BY StoresKept DEF Aborts
<1>2. \A x \in Requests : RolesOf(req[x])'
  BY <1>1, EndRoles DEF Aborts
<1> QED
  BY <1>1, <1>2 DEF RolesInv

\* A row is written with a role its account deserves.
LEMMA StoresWritten ==
    ASSUME TypeInv, RolesInv, NEW q \in Requests, NEW u \in Users, NEW v \in Rows,
           WriteRow(q, u, v), Deserved(u, v.role), UNCHANGED <<authentik, tok>>
    PROVE  StoreRoles' /\ Grows /\ Deserved(u, v.role)'
<1>1. Grows /\ \A x \in Users : \A role : Deserved(x, role) => Deserved(x, role)'
  BY DEF Grows, Deserved, authentik
<1>2. row' = row /\ \A x \in Users : draft'[x] = IF x = u THEN v ELSE draft[x]
  BY DEF WriteRow, TypeInv, TypeOK
<1>3. StoreRoles'
  BY <1>2 DEF RolesInv, StoreRoles, Deserved, authentik
<1> QED
  BY <1>1, <1>3

LEMMA RolesStep ==
    ASSUME TypeInv, RolesInv, NEW q \in Requests, Step(q)
    PROVE  RolesInv'
<1>0. /\ TypeOK /\ StoreRoles /\ req \in [Requests -> Reqs] /\ req[q] \in Reqs
      /\ req[q].pc # "idle" => /\ req[q].actor \in Users /\ req[q].target \in Users
                               /\ Deserved(req[q].actor, req[q].me.role)
      /\ StoreRoles' /\ (\A x \in Requests : RolesOf(req[x])') => RolesInv'
  BY DEF TypeInv, TypeOK, Placed, PlacedAt, RolesInv, RolesOf
<1>a. ASSUME Abort(q), UNCHANGED <<authentik, tok>> PROVE RolesInv'
  BY <1>0, <1>a, AbortEffect, AbortRoles
<1>b. ASSUME UNCHANGED <<authentik, tok, postgres>> PROVE StoreRoles' /\ Grows
  BY <1>b, StoresKept DEF postgres
<1>1. CASE Lookup(q)
  <2>1. PICK pc \in {"gate", "sync"} :
            req' = [req EXCEPT ![q].me = row[req[q].actor], ![q].pc = pc]
    BY <1>1 DEF Lookup
  <2>2. /\ req[q].pc = "lookup" /\ row[req[q].actor] \in Rows
        /\ UNCHANGED <<authentik, tok, postgres>>
    BY <1>0, <1>1 DEF Lookup, TypeOK
  <2>3. /\ Frame(q) /\ req'[q].pc = pc /\ KeepsGroups(q)
        /\ req'[q].me = row[req[q].actor]
    BY <1>0, <2>1, <2>2, MeEffect DEF PCs
  <2>4. PICK u \in Users, role \in Roles :
            /\ u = req[q].actor /\ role = row[u].role /\ role = req'[q].me.role
            /\ Deserved(u, role)
    BY <1>0, <2>2, <2>3, RowFields DEF StoreRoles
  <2>5. Deserved(u, role)'
    BY <1>b, <2>2, <2>4, StillDeserved
  <2>6. \A x \in Requests : RolesOf(req[x])'
    BY <1>b, <2>2, <2>3, <2>4, <2>5, FrameRoles
  <2> QED
    BY <1>0, <1>b, <2>2, <2>6
<1>2. CASE SyncRole(q) \/ Upsert(q)
  <2>1. ASSUME NEW v \in Rows, Syncs(q, v) PROVE RolesInv'
    <3>1. PICK u \in Users : u = req[q].actor
      BY <1>0, <2>1 DEF Syncs
    <3>2. Deserved(u, v.role)
      <4>1. CASE v.role = req[q].me.role
        BY <1>0, <2>1, <3>1, <4>1 DEF Syncs
      <4>2. CASE v.role = "free"
        BY <4>2 DEF Deserved
      <4>3. CASE req[q].groups # NoGroups /\ v.role = Resolve(u, req[q].groups)
        <5>1. req[q].groups \subseteq granted[u]
          BY <2>1, <3>1, <4>3 DEF RolesInv, RolesOf, Syncs
        <5> QED
          BY <4>3, <5>1, ResolveRange DEF Deserved
      <4> QED
        BY <2>1, <3>1, <4>1, <4>2, <4>3 DEF Syncs
    <3>3. StoreRoles' /\ Grows /\ Deserved(u, v.role)'
      BY <2>1, <3>1, <3>2, StoresWritten DEF Syncs
    <3>4. \A x \in Requests : RolesOf(req[x])'
      BY <2>1, <3>1, <3>3, FrameRoles DEF Syncs
    <3> QED
      BY <1>0, <3>3, <3>4
  <2> QED
    BY <1>2, <2>1, SyncRoleEffect, UpsertEffect, AbortRoles
<1>3. CASE Gate(q) \/ AkSetPassword(q)
  <2>1. PICK pc \in {"close", "delete", "audit"} : Goto(q, pc)
    BY <1>3 DEF Gate, AkSetPassword
  <2>2. req[q].pc # "idle" /\ UNCHANGED <<authentik, tok, postgres>>
    BY <1>3 DEF Gate, AkSetPassword
  <2>3. Frame(q) /\ KeepsMe(q) /\ KeepsGroups(q) /\ req'[q].pc # "write"
    BY <1>0, <2>1, GotoEffect DEF PCs
  <2> QED
    BY <1>0, <1>b, <2>2, <2>3, GotoRoles
<1>4. CASE Refuse(q) \/ AkGone(q) \/ CloseDoomed(q) \/ AbortWait(q)
  BY <1>4, <1>a DEF Refuse, AkGone, CloseDoomed, AbortWait
<1>5. CASE Target(q)
  <2>1. ASSUME Targets(q), UNCHANGED <<authentik, tok>> PROVE RolesInv'
    BY <1>0, <1>b, <2>1, GotoRoles DEF Targets
  <2> QED
    BY <1>5, <2>1, TargetFound, AbortRoles
<1>6. CASE AkRemove(q) \/ AkAdd(q)
  <2>1. /\ req[q].pc # "idle" /\ req[q].target \in Users /\ UNCHANGED tok
        /\ Grows /\ \A u \in Users : akGroups'[u] \subseteq granted'[u]
        /\ AkAdd(q) => req[q].arg \in granted'[req[q].target]
    BY <1>0, <1>6 DEF AkRemove, AkAdd, Grows, StoreRoles, TypeOK
  <2>2. \A u \in Users : /\ row'[u].role \in {row[u].role, draft[u].role}
                         /\ draft'[u].role \in {row[u].role, draft[u].role}
    BY <1>6 DEF AkRemove, AkAdd, Abort, RollbackOnly, Unlock, postgres
  <2>3. StoreRoles'
    BY <1>0, <2>1, <2>2 DEF StoreRoles, Grows, Deserved
  <2>4. CASE Abort(q)
    BY <1>0, <2>1, <2>3, <2>4, AbortEffect, EndRoles DEF Aborts
  <2>5. CASE AkRemove(q) /\ Goto(q, "akadd")
    BY <1>0, <2>1, <2>3, <2>5, GotoEffect, GotoRoles DEF PCs
  <2>6. CASE AkAdd(q) /\ Goto(q, "write")
    BY <1>0, <2>1, <2>3, <2>6, GotoEffect, GotoRoles DEF PCs
  <2> QED
    BY <1>6, <2>4, <2>5, <2>6 DEF AkRemove, AkAdd
<1>7. CASE ChangeRole(q) \/ SetActive(q)
  <2>1. ASSUME NEW v \in Rows, Updates(q, v) PROVE RolesInv'
    <3>1. PICK t \in Users : t = req[q].target /\ WriteRow(q, t, v)
      BY <1>0, <2>1 DEF Updates
    <3>2. \/ v.role \in {row[t].role, draft[t].role}
          \/ v.role \in granted[t]
      BY <2>1, <3>1 DEF Updates, Current, RolesInv, RolesOf
    <3>3. Deserved(t, v.role)
      BY <1>0, <3>2 DEF StoreRoles, Deserved
    <3>4. StoreRoles' /\ Grows
      BY <2>1, <3>1, <3>3, StoresWritten DEF Updates
    <3>5. Frame(q) /\ KeepsMe(q) /\ KeepsGroups(q) /\ req'[q].pc # "write"
      BY <1>0, <2>1, GotoEffect DEF Updates, PCs
    <3> QED
      BY <1>0, <2>1, <3>4, <3>5, GotoRoles DEF Updates
  <2> QED
    BY <1>7, <2>1, UpdateEffect, AbortRoles
<1>8. CASE DeleteRow(q)
  <2>1. PICK v \in Rows : Deletes(q, v)
    BY <1>8, DeleteRowEffect
  <2>2. PICK t \in Users : t = req[q].target
    BY <1>0, <2>1 DEF Deletes
  <2>3. StoreRoles' /\ Grows
    <3>1. CASE UNCHANGED postgres
      BY <1>b, <2>1, <3>1 DEF Deletes
    <3>2. CASE WriteRow(q, t, v) /\ v.role \in {row[t].role, draft[t].role}
      <4>1. Deserved(t, v.role)
        BY <1>0, <3>2 DEF StoreRoles
      <4> QED
        BY <2>1, <3>2, <4>1, StoresWritten DEF Deletes
    <3> QED
      BY <2>1, <2>2, <3>1, <3>2 DEF Deletes, Current
  <2> QED
    BY <1>0, <2>1, <2>3, GotoRoles DEF Deletes
<1>9. CASE Audit(q) \/ AuditFails(q)
  <2>1. /\ req[q].pc # "idle" /\ AfterAudit(q) \in {"akdelete", "close"}
        /\ UNCHANGED <<authentik, tok>>
    BY <1>9 DEF Audit, AuditFails, AfterAudit
  <2>2. Frame(q) /\ KeepsMe(q) /\ KeepsGroups(q) /\ req'[q].pc # "write"
    BY <1>0, <1>9, <2>1, EntryEffect, DoomedEffect DEF Audit, AuditFails, PCs
  <2>3. \A u \in Users : /\ row'[u].role \in {row[u].role, draft[u].role}
                         /\ draft'[u].role \in {row[u].role, draft[u].role}
    BY <1>9 DEF Audit, AuditFails, RollbackOnly, Unlock, postgres
  <2> QED
    BY <1>0, <2>1, <2>2, <2>3, StoresKept, GotoRoles
<1>10. CASE AkDelete(q)
  <2>1. PICK pc \in {"close", "audit"} : Goto(q, pc)
    BY <1>10 DEF AkDelete
  <2>2. StoreRoles' /\ Grows
    BY <1>0, <1>10 DEF AkDelete, StoreRoles, Deserved, Grows, TypeOK, postgres
  <2>3. /\ req[q].pc # "idle" /\ Frame(q) /\ KeepsMe(q) /\ KeepsGroups(q)
        /\ req'[q].pc # "write"
    BY <1>0, <1>10, <2>1, GotoEffect DEF AkDelete, PCs
  <2> QED
    BY <1>0, <2>2, <2>3, GotoRoles
<1>11. CASE Commit(q)
  <2>1. Commits(q)
    BY <1>0, <1>11, CommitEffect
  <2>2. StoreRoles' /\ Grows
    BY <2>1, StoresKept DEF Commits, Current
  <2> QED
    BY <1>0, <2>1, <2>2, EndRoles DEF Commits
<1> QED
  BY <1>1, <1>2, <1>3, <1>4, <1>5, <1>6, <1>7, <1>8, <1>9, <1>10, <1>11 DEF Step

LEMMA RolesInit == Init => RolesInv
<1> SUFFICES ASSUME Init PROVE RolesInv
  OBVIOUS
<1>1. StoreRoles
  <2> SUFFICES ASSUME NEW u \in Users
               PROVE  /\ Deserved(u, row[u].role) /\ Deserved(u, draft[u].role)
                      /\ akGroups[u] \subseteq granted[u]
                      /\ tok[u] # Bare => tok[u] \subseteq granted[u]
    BY DEF StoreRoles
  <2>1. granted[u] = InitialGroups(u) /\ akGroups[u] = InitialGroups(u)
    BY DEF Init
  <2>2. tok[u] \in {Bare, akGroups[u]}
    BY DEF Init, NewToken
  <2>3. draft[u] = row[u] /\ row[u].role \in {"free", Resolve(u, InitialGroups(u))}
    BY DEF Init
  <2>4. Deserved(u, row[u].role)
    BY <2>1, <2>3, ResolveRange DEF Deserved
  <2> QED
    BY <2>1, <2>2, <2>3, <2>4
<1>2. \A q \in Requests : RolesOf(req[q])
  BY IdleFields DEF Init, RolesOf
<1> QED
  BY <1>1, <1>2 DEF RolesInv

LEMMA RolesNext == TypeInv /\ RolesInv /\ [Next]_vars => RolesInv'
<1> SUFFICES ASSUME TypeInv, RolesInv, [Next]_vars PROVE RolesInv'
  OBVIOUS
<1>0. TypeOK /\ StoreRoles
  BY DEF TypeInv, RolesInv
<1>1. ASSUME NEW q \in Requests, NEW u \in Users, NEW op \in Ops, NEW t \in Users,
             NEW role \in NewRoles, Begin(q, u, op, t, role)
      PROVE  RolesInv'
  <2>1. op \in AllOps /\ role \in Roles
    BY UsersAssumption
  <2>2. /\ Moved(q) /\ req'[q].pc = "lookup" /\ req'[q].actor = u
        /\ req'[q].me = NoRow /\ req'[q].groups \in Claims(u)
        /\ UNCHANGED <<authentik, tok, postgres>>
    BY <1>0, <1>1, <2>1, BeginEffect
  <2>3. StoreRoles' /\ Grows
    BY <2>2, StoresKept DEF postgres
  <2>4. PICK y \in Reqs : y = req'[q]
    BY <2>2 DEF Moved
  <2>5. y.groups # NoGroups => y.groups \subseteq granted'[u]
    BY <1>0, <2>2, <2>4 DEF Claims, StoreRoles, authentik
  <2>6. RolesOf(y)'
    BY <2>2, <2>4, <2>5, IdleFields DEF RolesOf, Deserved
  <2> QED
    BY <2>2, <2>3, <2>4, <2>6, ReqRolesKept DEF RolesInv
<1>2. ASSUME NEW q \in Requests, Step(q) PROVE RolesInv'
  BY <1>2, RolesStep
<1>3. ASSUME NEW q \in Requests, Fail(q) PROVE RolesInv'
  BY <1>0, <1>3, AbortEffect, AbortRoles DEF Fail
<1>4. ASSUME NEW u \in Users, IssueToken(u) PROVE RolesInv'
  <2>1. /\ UNCHANGED <<authentik, postgres, req>>
        /\ \A x \in Users : tok'[x] \in {tok[x], Bare, akGroups[x]}
    BY <1>0, <1>4 DEF IssueToken, NewToken, TypeOK
  <2> QED
    BY <1>0, <2>1 DEF RolesInv, StoreRoles, RolesOf, Deserved, authentik, postgres
<1>5. CASE UNCHANGED vars
  BY <1>5 DEF vars, authentik, postgres, RolesInv, StoreRoles, RolesOf, Deserved
<1> QED
  BY <1>1, <1>2, <1>3, <1>4, <1>5 DEF Next

\* No row of the database shows a role above free that Authentik never granted.
THEOREM RolesAreGranted == Spec => []RoleGranted
<1>1. RolesInv => RoleGranted
  BY DEF RolesInv, StoreRoles, Deserved, RoleGranted
<1> QED
  BY <1>1, TypeInvInit, TypeInvNext, RolesInit, RolesNext, PTL DEF Spec
=============================================================================
