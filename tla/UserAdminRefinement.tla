------------------------ MODULE UserAdminRefinement ------------------------
(***************************************************************************)
(* UserAdmin implements AccountRegister, for any number of accounts and of *)
(* requests.  Begin to Refuse and every error are steps of the register in *)
(* which nothing is committed; Commit is its Commit, of the account that   *)
(* made the request, its operation and the account it names.               *)
(***************************************************************************)
EXTENDS UserAdminProofs

\* The last steps of an operation, when its row is written.
Past == {"audit", "akdelete", "close"}

\* What the register says of a transaction, before it is committed: each row it
\* has written is one after the sign-in and, past the write, the operation.
SignedRows(q, u) ==
    IF u = req[q].actor THEN Accounts!SignedIn(row[u]) ELSE {row[u]}
DoneRows(q, u, s) ==
    IF u = req[q].target /\ req[q].pc \in Past
    THEN Accounts!After(req[q].op, req[q].tid, s) ELSE {s}
Written(q, u) == \E s \in SignedRows(q, u) : draft[u] \in DoneRows(q, u, s)

\* A request knows no row that is newer than what it would find now; and if it is
\* about its own account, it has read its row after its client named it.
AgesAt(q) ==
    req[q].pc # "idle" /\ ~req[q].doomed =>
        /\ 1 <= req[q].tid /\ req[q].tid <= Current(q, req[q].target).id
        /\ req[q].pc # "lookup" =>
               /\ req[q].me.id <= Current(q, req[q].actor).id
               /\ req[q].target = req[q].actor => req[q].tid <= req[q].me.id

\* Past the guards, an administrator is about somebody else, sets a password, or
\* will be refused by the guard of change_role.
AimAt(r) ==
    /\ r.op \in {"me", "delete_self"} => r.target = r.actor
    /\ r.op = "me" => ~r.entry /\ r.pc \in {"idle", "lookup", "sync", "gate", "close"}
    /\ r.target = r.actor /\ r.pc \notin {"idle", "lookup", "sync", "gate"} =>
           \/ r.op \in {"me", "delete_self", "reset"}
           \/ r.op = "role" /\ r.pc \in {"akremove", "akadd", "write"} /\ r.tid = r.me.id

Mine(q) ==
    /\ \A u \in Users : own[u] = q => Written(q, u)
    /\ AgesAt(q)
    /\ AimAt(req[q])

Born == \A u \in Users : 1 <= row[u].id

RegisterInv == Born /\ \A q \in Requests : Mine(q)

-----------------------------------------------------------------------------
(* Rows after a sign-in and after an operation.                            *)

LEMMA SignedInRow ==
    ASSUME NEW x \in Rows, NEW v \in Rows,
           x.live => v.id = x.id /\ v.live /\ v.active = x.active,
           ~x.live => v.id = x.id + 1 /\ v.live /\ v.active
    PROVE  v \in Accounts!SignedIn(x)
<1>1. v.role \in Accounts!Roles
  BY RowFields DEF Roles, Accounts!Roles
<1>2. CASE x.live
  <2>1. x.live = TRUE /\ v.live = TRUE
    BY <1>2, RowFields
  <2>2. v = [x EXCEPT !.role = v.role]
    BY <1>2, <2>1 DEF Rows
  <2> QED  BY <1>1, <1>2, <2>2 DEF Accounts!SignedIn
<1>3. CASE ~x.live
  <2>1. v.live = TRUE /\ v.active = TRUE
    BY <1>3, RowFields
  <2>2. v = [id |-> x.id + 1, live |-> TRUE, role |-> v.role, active |-> TRUE]
    BY <1>3, <2>1 DEF Rows
  <2> QED  BY <1>1, <1>3, <2>2 DEF Accounts!SignedIn
<1> QED  BY <1>2, <1>3

LEMMA SignedInId ==
    ASSUME NEW x \in Rows, NEW s \in Accounts!SignedIn(x)
    PROVE  s \in Rows /\ x.id <= s.id /\ (x.live => s.id = x.id)
<1>1. x.id \in Nat /\ x.id + 1 \in Nat /\ x.id <= x.id /\ x.id <= x.id + 1
  BY RowFields
<1>2. CASE s = x
  BY <1>1, <1>2
<1>3. ASSUME NEW role \in Roles, x.live, s = [x EXCEPT !.role = role]
      PROVE  s \in Rows /\ x.id <= s.id /\ (x.live => s.id = x.id)
  BY <1>1, <1>3, RowWithRole
<1>4. ASSUME NEW role \in Roles, ~x.live,
             s = [id |-> x.id + 1, live |-> TRUE, role |-> role, active |-> TRUE]
      PROVE  s \in Rows /\ x.id <= s.id /\ (x.live => s.id = x.id)
  BY <1>1, <1>4, NewRow
<1> QED  BY <1>2, <1>3, <1>4 DEF Accounts!SignedIn, Accounts!Roles, Roles

LEMMA SignedInSelf ==
    ASSUME NEW x
    PROVE  x \in Accounts!SignedIn(x)
  BY DEF Accounts!SignedIn

LEMMA AfterSelf ==
    ASSUME NEW op, NEW id, NEW x
    PROVE  x \in Accounts!After(op, id, x)
  BY DEF Accounts!After

LEMMA AfterId ==
    ASSUME NEW op \in AllOps, NEW id, NEW x \in Rows, NEW y \in Accounts!After(op, id, x)
    PROVE  y.id = x.id
<1>1. CASE y = x
  BY <1>1
<1>2. CASE y # x
  <2>1. \/ \E role \in Roles : y = [x EXCEPT !.role = role]
        \/ y = [x EXCEPT !.active = FALSE]
        \/ y = [x EXCEPT !.active = TRUE]
        \/ y = [x EXCEPT !.live = FALSE]
    <3>1. CASE op \in {"role", "block", "unblock"}
      BY <1>2, <3>1 DEF Accounts!After, Accounts!Roles, Roles
    <3>2. CASE op \in {"delete", "delete_self"}
      BY <1>2, <3>2 DEF Accounts!After
    <3>3. CASE op \in {"me", "reset"}
      BY <1>2, <3>3 DEF Accounts!After
    <3> QED  BY <3>1, <3>2, <3>3 DEF AllOps
  <2> QED  BY <2>1 DEF Rows
<1> QED  BY <1>1, <1>2

\* What an UPDATE writes.
LEMMA AfterUpdate ==
    ASSUME NEW op \in {"role", "block", "unblock"}, NEW x \in Rows, NEW v \in Rows,
           x.live, v.live, v.id = x.id,
           \/ v.active = x.active
           \/ op \in {"block", "unblock"} /\ v.active = (op = "unblock"),
           v.role = x.role \/ op = "role"
    PROVE  v \in Accounts!After(op, x.id, x)
<1>0. x.live = TRUE /\ v.live = TRUE /\ v.role \in Roles
  BY RowFields
<1>1. CASE op = "role"
  <2>1. v = [x EXCEPT !.role = v.role]
    BY <1>0, <1>1 DEF Rows
  <2> QED  BY <1>0, <1>1, <2>1 DEF Accounts!After, Accounts!Roles, Roles
<1>2. CASE op \in {"block", "unblock"}
  <2>1. v.role = x.role
    BY <1>2
  <2>2. CASE v.active = x.active
    <3>1. v = x
      BY <1>0, <2>1, <2>2 DEF Rows
    <3> QED  BY <3>1, AfterSelf
  <2>3. CASE op = "block" /\ v.active = FALSE
    <3>1. v = [x EXCEPT !.active = FALSE]
      BY <1>0, <2>1, <2>3 DEF Rows
    <3> QED  BY <1>0, <2>3, <3>1 DEF Accounts!After
  <2>4. CASE op = "unblock" /\ v.active = TRUE
    <3>1. v = [x EXCEPT !.active = TRUE]
      BY <1>0, <2>1, <2>4 DEF Rows
    <3> QED  BY <1>0, <2>4, <3>1 DEF Accounts!After
  <2> QED  BY <1>2, <2>2, <2>3, <2>4
<1> QED  BY <1>1, <1>2

\* What a DELETE leaves.
LEMMA AfterDelete ==
    ASSUME NEW op \in {"delete", "delete_self"}, NEW x \in Rows, NEW v \in Rows,
           x.live, v.id = x.id, v.active = x.active, v.role = x.role
    PROVE  v \in Accounts!After(op, x.id, x)
<1>1. CASE v.live
  <2>1. x.live = TRUE /\ v.live = TRUE
    BY <1>1, RowFields
  <2>2. v = x
    BY <2>1 DEF Rows
  <2> QED  BY <2>2, AfterSelf
<1>2. CASE ~v.live
  <2>1. v.live = FALSE
    BY <1>2, RowFields
  <2>2. v = [x EXCEPT !.live = FALSE]
    BY <2>1 DEF Rows
  <2> QED  BY <2>2 DEF Accounts!After
<1> QED  BY <1>1, <1>2

-----------------------------------------------------------------------------
(* Requests that do not move.                                              *)

LEMMA RegisterTypes ==
    ASSUME TypeInv, NEW u \in Users, NEW q \in Requests
    PROVE  /\ row[u] \in Rows /\ draft[u] \in Rows /\ Current(q, u) \in Rows
           /\ row[u].id \in Nat /\ draft[u].id \in Nat /\ Current(q, u).id \in Nat
           /\ req[q] \in Reqs /\ req[q].tid \in Nat /\ req[q].me \in Rows
           /\ req[q].me.id \in Nat /\ req[q].op \in AllOps
           /\ q # None /\ own[u] \in Requests \cup {None}
  BY CurrentTyped, RowFields, ReqFields, UsersAssumption DEF TypeInv, TypeOK

\* What a request has written is not older than the row.
LEMMA WrittenId ==
    ASSUME TypeInv, NEW q \in Requests, NEW u \in Users, Written(q, u)
    PROVE  row[u].id <= draft[u].id /\ (row[u].live => draft[u].id = row[u].id)
<1>0. row[u] \in Rows /\ row[u].id \in Nat /\ draft[u].id \in Nat /\ req[q].op \in AllOps
  BY RegisterTypes
<1>1. PICK s \in SignedRows(q, u) : draft[u] \in DoneRows(q, u, s)
  BY DEF Written
<1>2. s \in Rows /\ row[u].id <= s.id /\ (row[u].live => s.id = row[u].id)
  BY <1>0, <1>1, SignedInId DEF SignedRows
<1>3. draft[u].id = s.id
  BY <1>0, <1>1, <1>2, AfterId DEF DoneRows
<1> QED  BY <1>2, <1>3

\* A step of request q leaves the locks of the others, their rows and what they
\* have written, and no row becomes an older one.
StepOf(q) ==
    /\ Moved(q)
    /\ \A u \in Users :
          /\ row[u].id <= row'[u].id
          /\ own[u] \notin {q, None} =>
                 own'[u] = own[u] /\ draft'[u] = draft[u] /\ row'[u] = row[u]
          /\ own[u] \in {q, None} => own'[u] \in {q, None}

LEMMA OthersMine ==
    ASSUME TypeInv, TypeInv', Placed, NEW q \in Requests, StepOf(q),
           NEW x \in Requests, x # q, Mine(x)
    PROVE  Mine(x)'
<1>1. req'[x] = req[x]
  BY DEF StepOf, Moved
<1>2. \A u \in Users : own'[u] = x <=> own[u] = x
  BY UsersAssumption DEF StepOf
<1>3. \A u \in Users : own[u] = x => draft'[u] = draft[u] /\ row'[u] = row[u]
  BY UsersAssumption DEF StepOf
<1>4. ASSUME NEW u \in Users, own'[u] = x PROVE Written(x, u)'
  <2>1. Written(x, u)
    BY <1>2, <1>4 DEF Mine
  <2> QED  BY <1>1, <1>2, <1>3, <1>4, <2>1 DEF Written, SignedRows, DoneRows
<1>5. ASSUME NEW u \in Users PROVE Current(x, u).id <= Current(x, u)'.id
  <2>1. Current(x, u).id \in Nat
    BY RegisterTypes
  <2>2. CASE own[u] = x
    BY <1>2, <1>3, <2>1, <2>2 DEF Current
  <2>3. CASE own[u] # x
    BY <1>2, <2>3 DEF Current, StepOf
  <2> QED  BY <2>2, <2>3
<1>6. AgesAt(x)'
  <2> SUFFICES ASSUME req[x].pc # "idle", ~req[x].doomed PROVE AgesAt(x)'
    BY <1>1 DEF AgesAt
  <2>1. PICK t \in Users, a \in Users : t = req[x].target /\ a = req[x].actor
    BY DEF Placed, PlacedAt
  <2>2. Current(x, t).id <= Current(x, t)'.id /\ Current(x, a).id <= Current(x, a)'.id
    BY <1>5
  <2>3. /\ Current(x, t).id \in Nat /\ Current(x, a).id \in Nat
        /\ req[x].tid \in Nat /\ req[x].me.id \in Nat
    BY RegisterTypes
  <2>4. Current(x, t)'.id \in Nat /\ Current(x, a)'.id \in Nat
    <3>1. \A u \in Users : row'[u].id \in Nat /\ draft'[u].id \in Nat
      BY RowFields DEF TypeInv, TypeOK
    <3> QED  BY <3>1 DEF Current
  <2>5. /\ 1 <= req[x].tid /\ req[x].tid <= Current(x, t).id
        /\ req[x].pc # "lookup" =>
               /\ req[x].me.id <= Current(x, a).id
               /\ req[x].target = req[x].actor => req[x].tid <= req[x].me.id
    BY <2>1 DEF Mine, AgesAt
  <2>6. /\ 1 <= req[x].tid /\ req[x].tid <= Current(x, t)'.id
        /\ req[x].pc # "lookup" =>
               /\ req[x].me.id <= Current(x, a)'.id
               /\ req[x].target = req[x].actor => req[x].tid <= req[x].me.id
    BY <2>2, <2>3, <2>4, <2>5
  <2> QED  BY <1>1, <2>1, <2>6 DEF AgesAt, Current
<1>7. AimAt(req'[x])
  BY <1>1 DEF Mine
<1> QED  BY <1>4, <1>6, <1>7 DEF Mine

\* So only the request that moves is to be looked at.
LEMMA RegisterKept ==
    ASSUME TypeInv, TypeInv', RegisterInv, NEW q \in Requests, StepOf(q), Mine(q)'
    PROVE  RegisterInv'
<1>1. Placed
  BY DEF TypeInv
<1>2. ASSUME NEW x \in Requests PROVE Mine(x)'
  BY <1>1, OthersMine DEF RegisterInv
<1>3. Born'
  <2> SUFFICES ASSUME NEW u \in Users PROVE 1 <= row'[u].id
    BY DEF Born
  <2>1. row[u].id \in Nat /\ row'[u].id \in Nat
    BY RowFields DEF TypeInv, TypeOK
  <2> QED  BY <2>1 DEF RegisterInv, Born, StepOf
<1> QED  BY <1>2, <1>3 DEF RegisterInv

\* A request that is over has nothing.
LEMMA MineEnded ==
    ASSUME NEW q \in Requests, req'[q] = Idle, \A u \in Users : own'[u] # q
    PROVE  Mine(q)'
<1>1. Idle.pc = "idle" /\ Idle.op = "me" /\ Idle.actor = Idle.target /\ ~Idle.entry
  BY DEF Idle
<1>2. AgesAt(q)' /\ AimAt(req'[q])
  BY <1>1 DEF AgesAt, AimAt
<1> QED  BY <1>2 DEF Mine

LEMMA AbortMine ==
    ASSUME TypeInv, NEW q \in Requests, Aborts(q)
    PROVE  StepOf(q) /\ Mine(q)'
<1>1. q # None /\ \A u \in Users : row[u].id \in Nat
  BY UsersAssumption, RegisterTypes
<1>2. StepOf(q)
  BY <1>1 DEF StepOf, Aborts
<1>3. Mine(q)'
  BY <1>1, MineEnded DEF Aborts
<1> QED  BY <1>2, <1>3

LEMMA CommitMine ==
    ASSUME TypeInv, RegisterInv, NEW q \in Requests, Commits(q)
    PROVE  StepOf(q) /\ Mine(q)'
<1>1. q # None /\ \A u \in Users : row[u].id \in Nat
  BY UsersAssumption, RegisterTypes
<1>2. ASSUME NEW u \in Users, own[u] = q PROVE row[u].id <= row'[u].id
  <2>1. row[u].id <= draft[u].id
    BY <1>2, WrittenId DEF RegisterInv, Mine
  <2> QED  BY <1>2, <2>1 DEF Commits, Current
<1>3. StepOf(q)
  BY <1>1, <1>2 DEF StepOf, Commits, Current
<1>4. Mine(q)'
  BY <1>1, MineEnded DEF Commits
<1> QED  BY <1>3, <1>4

-----------------------------------------------------------------------------
(* The request that moves.                                                 *)

LEMMA AgesNext ==
    ASSUME NEW q \in Requests, NEW t \in Users, NEW a \in Users,
           req'[q].target = t, req'[q].actor = a, 1 <= req'[q].tid,
           req'[q].tid <= Current(q, t)'.id, req'[q].me.id <= Current(q, a)'.id,
           t = a => req'[q].tid <= req'[q].me.id
    PROVE  AgesAt(q)'
  BY DEF AgesAt, Current

LEMMA AgesNow ==
    ASSUME TypeInv, RegisterInv, NEW q \in Requests, req[q].pc # "idle", ~req[q].doomed
    PROVE  \E t, a \in Users :
              /\ t = req[q].target /\ a = req[q].actor
              /\ 1 <= req[q].tid /\ req[q].tid <= Current(q, t).id
              /\ req[q].pc # "lookup" =>
                     /\ req[q].me.id <= Current(q, a).id
                     /\ t = a => req[q].tid <= req[q].me.id
  BY DEF TypeInv, Placed, PlacedAt, RegisterInv, Mine, AgesAt

LEMMA QuietStep ==
    ASSUME TypeInv, NEW q \in Requests, Moved(q), UNCHANGED postgres
    PROVE  StepOf(q)
<1>1. \A u \in Users : row[u].id \in Nat
  BY RegisterTypes
<1> QED  BY <1>1 DEF StepOf, postgres

LEMMA BeginMine ==
    ASSUME TypeInv, Drafts, Born, NEW q \in Requests, NEW u \in Users, NEW op \in AllOps,
           NEW t \in Users, NEW role \in Roles, Begin(q, u, op, t, role)
    PROVE  StepOf(q) /\ Mine(q)'
<1>1. /\ req[q].pc = "idle" /\ Moved(q) /\ req'[q].pc = "lookup"
      /\ req'[q].actor = u /\ req'[q].target = t /\ req'[q].op = op
      /\ ~req'[q].entry /\ req'[q].tid = row[t].id
      /\ op \notin AdminOps => t = u
      /\ UNCHANGED postgres
  BY BeginEffect DEF TypeInv
<1>2. \A x \in Users : own[x] # q
  BY <1>1, UsersAssumption DEF Drafts, InTransaction
<1>3. own' = own /\ draft' = draft /\ row' = row
  BY <1>1 DEF postgres
<1>4. AgesAt(q)'
  <2>1. row[t].id \in Nat /\ 1 <= row[t].id
    BY RegisterTypes DEF Born
  <2> QED  BY <1>1, <1>2, <1>3, <2>1 DEF AgesAt, Current
<1>5. AimAt(req'[q])
  BY <1>1 DEF AimAt, AdminOps
<1> QED  BY <1>1, <1>2, <1>3, <1>4, <1>5, QuietStep DEF Mine

\* SELECT by provider_id.
Looks(q) ==
    /\ req[q].pc = "lookup" /\ req'[q].pc \in {"gate", "sync"}
    /\ Frame(q) /\ KeepsAim(q) /\ KeepsEntry(q) /\ req'[q].me = row[req[q].actor]
    /\ UNCHANGED postgres

LEMMA LookMine ==
    ASSUME TypeInv, TransactionInv, RegisterInv, NEW q \in Requests, Looks(q)
    PROVE  StepOf(q) /\ Mine(q)'
<1>1. own' = own /\ draft' = draft /\ row' = row
  BY DEF Looks, postgres
<1>2. \A u \in Users : own[u] # q
  BY UsersAssumption DEF TransactionInv, Drafts, InTransaction, Looks
<1>3. req[q].pc # "idle" /\ ~req[q].doomed
  BY DEF TransactionInv, EntryAt, Looks
<1>4. PICK t \in Users, a \in Users :
          /\ t = req[q].target /\ a = req[q].actor
          /\ 1 <= req[q].tid /\ req[q].tid <= Current(q, t).id
  BY <1>3, AgesNow
<1>5. /\ req'[q].target = t /\ req'[q].actor = a /\ req'[q].tid = req[q].tid
      /\ req'[q].me.id = row[a].id
  BY <1>4 DEF Looks, Frame, KeepsAim
<1>6. row[a].id \in Nat /\ Current(q, t) = row[t] /\ Current(q, t)' = row[t]
      /\ Current(q, a)' = row[a]
  BY <1>1, <1>2, RegisterTypes DEF Current
<1>7. AgesAt(q)'
  BY <1>4, <1>5, <1>6, AgesNext
<1>8. AimAt(req'[q])
  BY DEF RegisterInv, Mine, AimAt, Looks, Frame, KeepsEntry
<1> QED  BY <1>1, <1>2, <1>7, <1>8, QuietStep DEF Mine, Looks, Frame

\* The row of the account that made the request is written for the first time.
LEMMA SyncMine ==
    ASSUME TypeInv, TransactionInv, RegisterInv, NEW q \in Requests, NEW v \in Rows, Syncs(q, v)
    PROVE  StepOf(q) /\ Mine(q)'
<1>1. \A u \in Users : own[u] # q
  BY UsersAssumption DEF TransactionInv, Drafts, InTransaction, Syncs
<1>2. req[q].pc # "idle" /\ req[q].pc # "lookup" /\ ~req[q].doomed
  BY DEF TransactionInv, EntryAt, Syncs
<1>3. PICK t \in Users, a \in Users :
          /\ t = req[q].target /\ a = req[q].actor
          /\ 1 <= req[q].tid /\ req[q].tid <= Current(q, t).id
          /\ req[q].me.id <= Current(q, a).id
          /\ t = a => req[q].tid <= req[q].me.id
  BY <1>2, AgesNow
<1>4. Current(q, a) = row[a] /\ Current(q, t) = row[t]
  BY <1>1 DEF Current
<1>5. /\ own' = [own EXCEPT ![a] = q] /\ draft' = [draft EXCEPT ![a] = v] /\ row' = row
      /\ own[a] = None
  BY <1>1, <1>3 DEF Syncs, WriteRow, Free
<1>6. /\ Frame(q) /\ req'[q].pc = "gate" /\ req'[q].tid = req[q].tid
      /\ req'[q].me.id \in {req[q].me.id, v.id} /\ KeepsEntry(q)
  BY DEF Syncs, KeepsAim
<1>7. /\ row[a].live => v.id = row[a].id /\ v.live /\ v.active = row[a].active
      /\ ~row[a].live => v.id = row[a].id + 1 /\ v.live /\ v.active
  BY <1>3, <1>4 DEF Syncs
<1>8. /\ own \in [Users -> Requests \cup {None}] /\ draft \in [Users -> Rows]
      /\ row[a] \in Rows /\ row[a].id \in Nat /\ row[t].id \in Nat /\ v.id \in Nat
      /\ req[q].tid \in Nat /\ req[q].me.id \in Nat /\ \A u \in Users : row[u].id \in Nat
  BY RegisterTypes, RowFields DEF TypeInv, TypeOK
<1>9. v \in Accounts!SignedIn(row[a])
  BY <1>7, <1>8, SignedInRow
<1>10. StepOf(q)
  BY <1>5, <1>6, <1>8 DEF StepOf, Frame
<1>11. ASSUME NEW u \in Users, own'[u] = q PROVE Written(q, u)'
  <2>1. u = a /\ draft'[u] = v
    BY <1>1, <1>5, <1>8, <1>11
  <2>2. v \in SignedRows(q, u)'
    BY <1>3, <1>5, <1>6, <1>9, <2>1 DEF SignedRows, Frame
  <2>3. v \in DoneRows(q, u, v)'
    BY <1>6 DEF DoneRows, Past
  <2> QED  BY <2>1, <2>2, <2>3 DEF Written
<1>12. AgesAt(q)'
  <2>1. row[a].id <= v.id
    BY <1>7, <1>8
  <2>2. /\ Current(q, a)' = v
        /\ t # a => Current(q, t)' = row[t]
    BY <1>1, <1>5, <1>8 DEF Current
  <2>3. /\ req'[q].tid <= Current(q, t)'.id /\ req'[q].me.id <= Current(q, a)'.id
        /\ t = a => req'[q].tid <= req'[q].me.id
    <3>1. t = a => req[q].tid <= v.id
      BY <1>3, <1>4, <1>8, <2>1
    <3>2. req[q].me.id <= v.id
      BY <1>3, <1>4, <1>8, <2>1
    <3>3. req'[q].me.id <= v.id /\ (t = a => req[q].tid <= req'[q].me.id)
      BY <1>3, <1>6, <1>8, <3>1, <3>2
    <3> QED  BY <1>3, <1>4, <1>6, <2>2, <3>1, <3>3
  <2>4. req'[q].target = t /\ req'[q].actor = a /\ 1 <= req'[q].tid
    BY <1>3, <1>6 DEF Frame
  <2> QED  BY <2>3, <2>4, AgesNext
<1>13. AimAt(req'[q])
  BY <1>6 DEF RegisterInv, Mine, AimAt, Frame, KeepsEntry, Syncs
<1> QED  BY <1>10, <1>11, <1>12, <1>13 DEF Mine

\* A step within the transaction that writes no row.
Moves(q) ==
    /\ req[q].pc \notin {"idle", "lookup", "sync"}
    /\ req'[q].pc \notin {"idle", "lookup", "sync"}
    /\ req[q].pc \in Past => req'[q].pc \in Past
    /\ Frame(q) /\ KeepsMe(q) /\ KeepsAim(q) /\ req'[q].doomed = req[q].doomed
    /\ UNCHANGED postgres
    /\ AimAt(req'[q])

LEMMA MoveMine ==
    ASSUME TypeInv, RegisterInv, NEW q \in Requests, Moves(q)
    PROVE  StepOf(q) /\ Mine(q)'
<1>1. own' = own /\ draft' = draft /\ row' = row
  BY DEF Moves, postgres
<1>2. ASSUME NEW u \in Users, own'[u] = q PROVE Written(q, u)'
  <2>1. PICK s \in SignedRows(q, u) : draft[u] \in DoneRows(q, u, s)
    BY <1>1, <1>2 DEF RegisterInv, Mine, Written
  <2>2. s \in SignedRows(q, u)'
    BY <1>1, <2>1 DEF SignedRows, Moves, Frame
  <2>3. draft[u] \in DoneRows(q, u, s)'
    BY <2>1, AfterSelf DEF DoneRows, Moves, Frame, KeepsAim
  <2> QED  BY <1>1, <2>2, <2>3 DEF Written
<1>3. AgesAt(q)'
  BY <1>1 DEF RegisterInv, Mine, AgesAt, Current, Moves, Frame, KeepsMe, KeepsAim
<1> QED  BY <1>2, <1>3, QuietStep DEF Mine, Moves, Frame

\* A step that writes, or would have written, the row of the target.
LEMMA TargetMine ==
    ASSUME TypeInv, RegisterInv, NEW q \in Requests,
           req[q].pc \notin Past \cup {"idle", "lookup", "sync"}, ~req[q].doomed,
           Frame(q), KeepsMe(q), AimAt(req'[q]), req'[q].pc \in Past, req'[q].tid \in Nat,
           1 <= req'[q].tid, req'[q].tid <= Current(q, req[q].target).id,
           req[q].target = req[q].actor => req'[q].tid <= req[q].me.id,
           \/ UNCHANGED postgres
           \/ \E v \in Rows :
                 /\ WriteRow(q, req[q].target, v) /\ v.id = Current(q, req[q].target).id
                 /\ v \in Accounts!After(req[q].op, req'[q].tid, Current(q, req[q].target))
    PROVE  StepOf(q) /\ Mine(q)'
<1>0. PICK t \in Users, a \in Users :
          /\ t = req[q].target /\ a = req[q].actor
          /\ req[q].me.id <= Current(q, a).id
  BY AgesNow
<1>1. PICK w : w = Current(q, t)
  OBVIOUS
<1>2. /\ own \in [Users -> Requests \cup {None}] /\ draft \in [Users -> Rows]
      /\ w \in Rows /\ w.id \in Nat /\ Current(q, a).id \in Nat /\ req[q].me.id \in Nat
      /\ q # None /\ \A u \in Users : row[u].id \in Nat
  BY <1>1, RegisterTypes DEF TypeInv, TypeOK
<1>3. PICK v \in Rows :
          /\ v.id = w.id /\ v \in Accounts!After(req[q].op, req'[q].tid, w)
          /\ row' = row
          /\ \/ own' = own /\ draft' = draft /\ v = w
             \/ /\ Free(q, t) /\ own' = [own EXCEPT ![t] = q]
                /\ draft' = [draft EXCEPT ![t] = v]
  <2>1. CASE UNCHANGED postgres
    BY <1>2, <2>1, AfterSelf DEF postgres
  <2>2. CASE ~UNCHANGED postgres
    BY <1>0, <1>1, <2>2 DEF WriteRow
  <2> QED  BY <2>1, <2>2
<1>4. /\ req'[q].target = t /\ req'[q].actor = a /\ req'[q].op = req[q].op
      /\ req'[q].me = req[q].me /\ Moved(q)
  BY <1>0 DEF Frame, KeepsMe
<1>5. StepOf(q)
  BY <1>2, <1>3, <1>4 DEF StepOf, Free
<1>6. w \in SignedRows(q, t)
  <2>1. CASE own[t] = q
    <3>1. PICK s \in SignedRows(q, t) : draft[t] \in DoneRows(q, t, s)
      BY <2>1 DEF RegisterInv, Mine, Written
    <3> QED  BY <1>1, <2>1, <3>1 DEF Current, DoneRows
  <2>2. CASE own[t] # q
    BY <1>1, <2>2, SignedInSelf DEF Current, SignedRows
  <2> QED  BY <2>1, <2>2
<1>7. ASSUME NEW u \in Users, own'[u] = q PROVE Written(q, u)'
  <2>1. CASE u = t
    <3>1. w \in SignedRows(q, u)'
      BY <1>0, <1>1, <1>3, <1>4, <1>6, <2>1 DEF SignedRows
    <3>2. draft'[u] = v
      BY <1>1, <1>2, <1>3, <1>7, <2>1 DEF Current
    <3>3. v \in DoneRows(q, u, w)'
      BY <1>3, <1>4, <2>1 DEF DoneRows
    <3> QED  BY <3>1, <3>2, <3>3 DEF Written
  <2>2. CASE u # t
    <3>1. own[u] = q /\ draft'[u] = draft[u]
      BY <1>2, <1>3, <1>7, <2>2
    <3>2. PICK s \in SignedRows(q, u) : draft[u] \in DoneRows(q, u, s)
      BY <3>1 DEF RegisterInv, Mine, Written
    <3>3. s \in SignedRows(q, u)'
      BY <1>0, <1>1, <1>3, <1>4, <3>2 DEF SignedRows
    <3>4. draft'[u] \in DoneRows(q, u, s)'
      BY <1>0, <1>1, <1>4, <2>2, <3>1, <3>2 DEF DoneRows
    <3> QED  BY <3>3, <3>4 DEF Written
  <2> QED  BY <2>1, <2>2
<1>8. AgesAt(q)'
  <2>1. Current(q, t)' \in {v, w} /\ (t # a => Current(q, a)' = Current(q, a))
    BY <1>1, <1>2, <1>3 DEF Current, Free
  <2>2. Current(q, t)'.id = w.id
    BY <1>3, <2>1
  <2>3. Current(q, a)'.id = Current(q, a).id
    BY <1>1, <2>1, <2>2
  <2>4. /\ req'[q].tid <= Current(q, t)'.id /\ req'[q].me.id <= Current(q, a)'.id
        /\ t = a => req'[q].tid <= req'[q].me.id
    BY <1>0, <1>1, <1>4, <2>2, <2>3
  <2> QED  BY <1>4, <2>4, AgesNext
<1> QED  BY <1>5, <1>7, <1>8 DEF Mine

LEMMA UpdateMine ==
    ASSUME TypeInv, TransactionInv, RegisterInv, NEW q \in Requests,
           req[q].op \in {"role", "block", "unblock"}, NEW v \in Rows, Updates(q, v)
    PROVE  StepOf(q) /\ Mine(q)'
<1>1. /\ Frame(q) /\ req'[q].pc = "audit" /\ KeepsMe(q) /\ KeepsAim(q) /\ KeepsEntry(q)
      /\ req[q].pc = "write"
  BY GotoEffect DEF Updates, TypeInv, TypeOK, PCs
<1>2. ~req[q].doomed
  BY <1>1 DEF TransactionInv, EntryAt
<1>3. PICK t \in Users, a \in Users :
          /\ t = req[q].target /\ a = req[q].actor
          /\ 1 <= req[q].tid /\ req[q].tid <= Current(q, t).id
          /\ t = a => req[q].tid <= req[q].me.id
  BY <1>1, <1>2, AgesNow
<1>4. Current(q, t) \in Rows /\ req[q].tid \in Nat
  BY RegisterTypes
<1>5. /\ WriteRow(q, t, v) /\ Current(q, t).live /\ Current(q, t).id = req[q].tid
      /\ v.id = Current(q, t).id /\ v.live
      /\ \/ v.active = Current(q, t).active
         \/ req[q].op \in {"block", "unblock"} /\ v.active = (req[q].op = "unblock")
      /\ v.role = Current(q, t).role \/ req[q].op = "role"
  BY <1>3 DEF Updates
<1>6. v \in Accounts!After(req[q].op, req[q].tid, Current(q, t))
  BY <1>4, <1>5, AfterUpdate
<1>7. AimAt(req'[q])
  <2>1. AimAt(req[q]) /\ (req[q].op = "role" => ~SelfAimed(q))
    BY DEF RegisterInv, Mine, Updates
  <2> QED  BY <1>1, <2>1 DEF AimAt, Frame, KeepsMe, KeepsAim, KeepsEntry, SelfAimed
<1> QED  BY <1>1, <1>2, <1>3, <1>4, <1>5, <1>6, <1>7, TargetMine DEF Past, KeepsAim

LEMMA DeleteMine ==
    ASSUME TypeInv, TransactionInv, RegisterInv, NEW q \in Requests, NEW v \in Rows, Deletes(q, v)
    PROVE  StepOf(q) /\ Mine(q)'
<1>1. /\ Frame(q) /\ req'[q].pc \in {"audit", "akdelete"} /\ KeepsMe(q) /\ KeepsEntry(q)
      /\ req[q].pc = "delete" /\ req[q].op \in {"delete", "delete_self"} /\ ~req[q].doomed
      /\ req'[q].tid = IF req[q].op = "delete" THEN req[q].tid ELSE req[q].me.id
  BY DEF Deletes, TransactionInv, EntryAt
<1>2. PICK t \in Users, a \in Users :
          /\ t = req[q].target /\ a = req[q].actor
          /\ 1 <= req[q].tid /\ req[q].tid <= Current(q, t).id
          /\ req[q].me.id <= Current(q, a).id
          /\ t = a => req[q].tid <= req[q].me.id
  BY <1>1, AgesNow
<1>3. AimAt(req[q])
  BY DEF RegisterInv, Mine
<1>4. /\ Current(q, t) \in Rows /\ req[q].tid \in Nat /\ req[q].me.id \in Nat
      /\ Current(q, t).id \in Nat
  BY RegisterTypes
<1>5. /\ req'[q].tid \in Nat /\ 1 <= req'[q].tid /\ req'[q].tid <= Current(q, t).id
      /\ t = a => req'[q].tid <= req[q].me.id
  <2>1. CASE req[q].op = "delete"
    BY <1>1, <1>2, <1>4, <2>1
  <2>2. CASE req[q].op = "delete_self"
    <3>1. t = a
      BY <1>2, <1>3, <2>2 DEF AimAt
    <3> QED  BY <1>1, <1>2, <1>4, <2>2, <3>1
  <2> QED  BY <1>1, <2>1, <2>2
<1>6. \/ UNCHANGED postgres
      \/ /\ WriteRow(q, t, v) /\ v.id = Current(q, t).id
         /\ v \in Accounts!After(req[q].op, req'[q].tid, Current(q, t))
  <2>1. CASE UNCHANGED postgres
    BY <2>1
  <2>2. CASE ~UNCHANGED postgres
    <3>1. /\ WriteRow(q, t, v) /\ Current(q, t).live /\ Current(q, t).id = req'[q].tid
          /\ v.id = Current(q, t).id /\ v.active = Current(q, t).active
          /\ v.role = Current(q, t).role
      BY <1>2, <2>2 DEF Deletes
    <3> QED  BY <1>1, <1>4, <3>1, AfterDelete
  <2> QED  BY <2>1, <2>2
<1>7. AimAt(req'[q])
  BY <1>1, <1>3 DEF AimAt, Frame, KeepsMe, KeepsEntry
<1> QED  BY <1>1, <1>2, <1>5, <1>6, <1>7, TargetMine DEF Past

\* The transaction is rolled back, and the request goes on.
Dooms(q) ==
    /\ req[q].pc = "audit" /\ req'[q].pc \in {"akdelete", "close"}
    /\ Frame(q) /\ req'[q].doomed /\ RollbackOnly(q)

LEMMA DoomMine ==
    ASSUME TypeInv, RegisterInv, NEW q \in Requests, Dooms(q)
    PROVE  StepOf(q) /\ Mine(q)'
<1>1. q # None /\ \A u \in Users : row[u].id \in Nat
  BY UsersAssumption, RegisterTypes
<1>2. Moved(q) /\ row' = row /\ (\A u \in Users : own'[u] = IF own[u] = q THEN None ELSE own[u])
      /\ \A u \in Users : own[u] # q => draft'[u] = draft[u]
  BY DEF Dooms, Frame, RollbackOnly, Unlock
<1>3. StepOf(q)
  BY <1>1, <1>2 DEF StepOf
<1>4. AgesAt(q)'
  BY DEF AgesAt, Dooms
<1>5. AimAt(req'[q])
  BY DEF RegisterInv, Mine, AimAt, Dooms, Frame
<1>6. \A u \in Users : own'[u] # q
  BY <1>1, <1>2
<1> QED  BY <1>3, <1>4, <1>5, <1>6 DEF Mine

-----------------------------------------------------------------------------
(* Every step of a request is one of these.                                *)

\* Only itself can be a request's target and actor when the row it names is there
\* and its own row is not newer.
LEMMA TargetAimed ==
    ASSUME TypeInv, TransactionInv, RegisterInv, NEW q \in Requests, Targets(q)
    PROVE  AimAt(req'[q])
<1>1. /\ Frame(q) /\ KeepsMe(q) /\ KeepsAim(q) /\ KeepsEntry(q) /\ req[q].pc = "gate"
      /\ ~req[q].doomed /\ req[q].op \in {"role", "reset", "block", "unblock", "delete"}
      /\ req[q].op = "role" => req'[q].pc = "akremove"
  BY DEF Targets, TransactionInv, EntryAt
<1>2. ASSUME req[q].target = req[q].actor PROVE SelfAimed(q)
  <2>1. PICK t \in Users :
            /\ t = req[q].target /\ t = req[q].actor
            /\ req[q].me.id <= Current(q, t).id /\ req[q].tid <= req[q].me.id
    BY <1>1, <1>2, AgesNow
  <2> SUFFICES ASSUME row[t].live, row[t].id = req[q].tid PROVE req[q].tid = req[q].me.id
    BY <2>1 DEF Targets, SelfAimed
  <2>2. Current(q, t).id = row[t].id
    <3>1. CASE own[t] = q
      BY <3>1, WrittenId DEF Current, RegisterInv, Mine
    <3>2. CASE own[t] # q
      BY <3>2 DEF Current
    <3> QED  BY <3>1, <3>2
  <2>3. req[q].tid \in Nat /\ req[q].me.id \in Nat
    BY RegisterTypes
  <2> QED  BY <2>1, <2>2, <2>3
<1>3. req[q].target = req[q].actor => req[q].op \in {"role", "reset"} /\ req[q].tid = req[q].me.id
  BY <1>1, <1>2 DEF Targets, SelfAimed, GuardedEarly
<1> QED  BY <1>1, <1>3 DEF AimAt, Frame, KeepsMe, KeepsAim

StepKind(q) ==
    \/ Aborts(q)
    \/ logged' = None /\ (Looks(q) \/ Moves(q) \/ Dooms(q))
    \/ \E v \in Rows :
          \/ Syncs(q, v) \/ Deletes(q, v)
          \/ req[q].op \in {"role", "block", "unblock"} /\ Updates(q, v)
    \/ Commits(q)

LEMMA StepKinds ==
    ASSUME TypeInv, TransactionInv, RegisterInv, NEW q \in Requests, Step(q)
    PROVE  StepKind(q)
<1>0. /\ TypeOK /\ Placed /\ req \in [Requests -> Reqs] /\ req[q] \in Reqs
      /\ EntryAt(req[q]) /\ AimAt(req[q]) /\ req[q].op \in AllOps
  <2>1. TypeOK /\ Placed /\ EntryAt(req[q]) /\ AimAt(req[q])
    BY DEF TypeInv, TransactionInv, RegisterInv, Mine
  <2> QED  BY <2>1, ReqFields DEF TypeOK
<1>a. ASSUME Abort(q) PROVE StepKind(q)
  BY <1>0, <1>a, AbortEffect DEF StepKind
\* A step that only moves its request, from one place to another.
<1>b. ASSUME NEW pc \in PCs, Goto(q, pc), UNCHANGED postgres, logged' = None,
             req[q].pc \notin {"idle", "lookup", "sync"}, pc \notin {"idle", "lookup", "sync"},
             req[q].pc \in Past => pc \in Past,
             \A x \in Reqs : /\ x.pc = pc /\ x.op = req[q].op /\ x.entry = req[q].entry
                             /\ x.target = req[q].target /\ x.actor = req[q].actor
                             /\ x.tid = req[q].tid /\ x.me = req[q].me
                             => AimAt(x)
      PROVE  StepKind(q)
  <2>1. /\ Frame(q) /\ req'[q].pc = pc /\ KeepsMe(q) /\ KeepsAim(q) /\ KeepsEntry(q)
        /\ req'[q] \in Reqs
    BY <1>0, <1>b, GotoEffect DEF Frame, Moved
  <2>2. AimAt(req'[q])
    BY <1>b, <2>1 DEF Frame, KeepsMe, KeepsAim, KeepsEntry
  <2> QED  BY <1>b, <2>1, <2>2 DEF StepKind, Moves, KeepsEntry
<1>1. CASE Lookup(q)
  <2>1. PICK pc \in {"gate", "sync"} :
            req' = [req EXCEPT ![q].me = row[req[q].actor], ![q].pc = pc]
    BY <1>1 DEF Lookup
  <2>2. /\ req[q].pc = "lookup" /\ row[req[q].actor] \in Rows /\ UNCHANGED postgres
        /\ logged' = None
    BY <1>0, <1>1 DEF Lookup, TypeOK, Placed, PlacedAt, NoEntry
  <2>3. /\ Frame(q) /\ req'[q].pc = pc /\ KeepsAim(q) /\ KeepsEntry(q)
        /\ req'[q].me = row[req[q].actor]
    BY <1>0, <2>1, <2>2, MeEffect DEF PCs
  <2> QED  BY <2>2, <2>3 DEF StepKind, Looks
<1>2. CASE SyncRole(q) \/ Upsert(q)
  <2>1. Aborts(q) \/ \E v \in Rows : Syncs(q, v)
    BY <1>2, SyncRoleEffect, UpsertEffect
  <2> QED  BY <2>1 DEF StepKind
<1>3. CASE Gate(q)
  <2>1. /\ Goto(q, IF req[q].op = "me" THEN "close" ELSE "delete")
        /\ req[q].pc = "gate" /\ UNCHANGED postgres /\ logged' = None
        /\ req[q].op \in {"me", "delete_self"}
    BY <1>0, <1>3 DEF Gate, AdminOps, AllOps, NoEntry
  <2>2. CASE req[q].op = "me"
    BY <1>0, <1>b, <2>1, <2>2 DEF AimAt, PCs, Past
  <2>3. CASE req[q].op = "delete_self"
    BY <1>0, <1>b, <2>1, <2>3 DEF AimAt, PCs, Past
  <2> QED  BY <2>1, <2>2, <2>3
<1>4. CASE Refuse(q) \/ AkGone(q) \/ CloseDoomed(q) \/ AbortWait(q)
  BY <1>4, <1>a DEF Refuse, AkGone, CloseDoomed, AbortWait
<1>5. CASE Target(q)
  <2>1. ASSUME Targets(q) PROVE StepKind(q)
    <3>1. AimAt(req'[q])
      BY <2>1, TargetAimed
    <3>2. Moves(q) /\ logged' = None
      BY <2>1, <3>1 DEF Moves, Targets, KeepsEntry, Past
    <3> QED  BY <3>2 DEF StepKind
  <2> QED  BY <1>5, <2>1, TargetFound DEF StepKind
<1>6. CASE AkRemove(q)
  <2>1. req[q].pc = "akremove"
        /\ (Abort(q) \/ (Goto(q, "akadd") /\ UNCHANGED postgres /\ logged' = None))
    BY <1>6 DEF AkRemove, NoEntry
  <2> QED  BY <1>0, <1>a, <1>b, <2>1 DEF AimAt, PCs, Past
<1>7. CASE AkAdd(q)
  <2>1. req[q].pc = "akadd"
        /\ (Abort(q) \/ (Goto(q, "write") /\ UNCHANGED postgres /\ logged' = None))
    BY <1>7 DEF AkAdd, NoEntry
  <2> QED  BY <1>0, <1>a, <1>b, <2>1 DEF AimAt, PCs, Past
<1>8. CASE AkSetPassword(q)
  <2>1. /\ req[q].pc = "akpassword" /\ Goto(q, "audit") /\ UNCHANGED postgres
        /\ logged' = None
    BY <1>8 DEF AkSetPassword, NoEntry
  <2> QED  BY <1>0, <1>b, <2>1 DEF AimAt, PCs, Past
<1>9. CASE ChangeRole(q) \/ SetActive(q)
  <2>1. req[q].op \in {"role", "block", "unblock"}
    BY <1>9 DEF ChangeRole, SetActive
  <2> QED  BY <1>9, <2>1, UpdateEffect DEF StepKind
<1>10. CASE DeleteRow(q)
  BY <1>10, DeleteRowEffect DEF StepKind
<1>11. CASE Audit(q)
  <2>1. /\ req[q].pc = "audit" /\ AfterAudit(q) \in {"akdelete", "close"}
        /\ UNCHANGED postgres /\ logged' = None
    BY <1>11 DEF Audit, AfterAudit, NoEntry
  <2>2. /\ Frame(q) /\ req'[q].pc = AfterAudit(q) /\ KeepsAim(q) /\ KeepsMe(q)
        /\ req'[q].doomed = req[q].doomed
    BY <1>0, <1>11, <2>1, EntryEffect DEF Audit, PCs
  <2>3. AimAt(req'[q])
    BY <1>0, <2>1, <2>2 DEF AimAt, Frame, KeepsAim, KeepsMe
  <2> QED  BY <2>1, <2>2, <2>3 DEF StepKind, Moves, Past
<1>12. CASE AuditFails(q)
  <2>1. /\ req[q].pc = "audit" /\ AfterAudit(q) \in {"akdelete", "close"} /\ RollbackOnly(q)
        /\ logged' = None
    BY <1>12 DEF AuditFails, AfterAudit, NoEntry
  <2>2. Frame(q) /\ req'[q].pc = AfterAudit(q) /\ req'[q].doomed = TRUE
    BY <1>0, <1>12, <2>1, DoomedEffect DEF AuditFails, PCs
  <2> QED  BY <2>1, <2>2 DEF StepKind, Dooms
<1>13. CASE AkDelete(q)
  <2>1. /\ req[q].pc = "akdelete"
        /\ Goto(q, IF req[q].op = "delete" THEN "close" ELSE "audit")
        /\ UNCHANGED postgres /\ logged' = None
    BY <1>13 DEF AkDelete, NoEntry
  <2>2. CASE req[q].op = "delete"
    BY <1>0, <1>b, <2>1, <2>2 DEF AimAt, PCs, Past
  <2>3. CASE req[q].op # "delete"
    BY <1>0, <1>b, <2>1, <2>3 DEF AimAt, PCs, Past
  <2> QED  BY <2>1, <2>2, <2>3
<1>14. CASE Commit(q)
  BY <1>0, <1>14, CommitEffect DEF StepKind
<1> QED
  BY <1>1, <1>2, <1>3, <1>4, <1>5, <1>6, <1>7, <1>8, <1>9, <1>10, <1>11, <1>12,
     <1>13, <1>14 DEF Step

LEMMA KindKept ==
    ASSUME TypeInv, TypeInv', TransactionInv, RegisterInv, NEW q \in Requests, StepKind(q)
    PROVE  RegisterInv'
<1>1. StepOf(q) /\ Mine(q)'
  BY AbortMine, LookMine, MoveMine, DoomMine, SyncMine, UpdateMine, DeleteMine, CommitMine
     DEF StepKind
<1> QED  BY <1>1, RegisterKept

LEMMA RegisterInvInit == Init => RegisterInv
<1> SUFFICES ASSUME Init PROVE RegisterInv
  OBVIOUS
<1>1. Born
  BY DEF Init, Born
<1>2. ASSUME NEW q \in Requests PROVE Mine(q)
  <2>1. req[q] = Idle /\ \A u \in Users : own[u] # q
    BY UsersAssumption DEF Init
  <2>2. Idle.pc = "idle" /\ Idle.op = "me" /\ Idle.actor = Idle.target /\ ~Idle.entry
    BY DEF Idle
  <2> QED  BY <2>1, <2>2 DEF Mine, AgesAt, AimAt
<1> QED  BY <1>1, <1>2 DEF RegisterInv

LEMMA RegisterInvNext ==
    ASSUME TypeInv, TransactionInv, RegisterInv, [Next]_vars
    PROVE  RegisterInv'
<1>0. TypeInv' /\ TypeOK
  BY TypeInvNext DEF TypeInv
<1>1. ASSUME NEW q \in Requests, NEW u \in Users, NEW op \in Ops, NEW t \in Users,
             NEW role \in NewRoles, Begin(q, u, op, t, role)
      PROVE  RegisterInv'
  <2>1. op \in AllOps /\ role \in Roles
    BY UsersAssumption
  <2>2. StepOf(q) /\ Mine(q)'
    BY <1>1, <2>1, BeginMine DEF RegisterInv, TransactionInv
  <2> QED  BY <1>0, <2>2, RegisterKept
<1>2. ASSUME NEW q \in Requests, Step(q) PROVE RegisterInv'
  BY <1>0, <1>2, StepKinds, KindKept
<1>3. ASSUME NEW q \in Requests, Fail(q) PROVE RegisterInv'
  <2>1. StepOf(q) /\ Mine(q)'
    BY <1>0, <1>3, AbortEffect, AbortMine DEF Fail
  <2> QED  BY <1>0, <2>1, RegisterKept
<1>4. ASSUME UNCHANGED <<postgres, req>> PROVE RegisterInv'
  BY <1>4 DEF postgres, RegisterInv, Born, Mine, Written, SignedRows, DoneRows, AgesAt, Current
<1> QED  BY <1>1, <1>2, <1>3, <1>4 DEF Next, IssueToken, vars

-----------------------------------------------------------------------------
(* The steps of the register.                                              *)

\* A commit is the register's: of the sign-in of the account that made the
\* request, and of its operation.
LEMMA CommitRefines ==
    ASSUME TypeInv, TransactionInv, RegisterInv, NEW q \in Requests, Commits(q)
    PROVE  Accounts!Next
<1>1. req[q].pc = "close" /\ ~req[q].doomed /\ EntryAt(req[q]) /\ AimAt(req[q])
  BY DEF Commits, TransactionInv, RegisterInv, Mine
<1>2. PICK t \in Users, a \in Users :
          /\ t = req[q].target /\ a = req[q].actor
          /\ 1 <= req[q].tid /\ req[q].tid <= Current(q, t).id
  BY <1>1, AgesNow
<1>3. PICK op \in AllOps, id \in Nat : op = req[q].op /\ id = req[q].tid
  BY RegisterTypes
<1>4. /\ row \in [Users -> Rows] /\ draft \in [Users -> Rows]
      /\ Current(q, t) \in Rows /\ Current(q, t).id \in Nat
      /\ row' = [u \in Users |-> Current(q, u)]
  BY RegisterTypes DEF TypeInv, TypeOK, Commits
<1>5. IF op \in Accounts!OwnOps THEN a = t ELSE op = "reset" \/ a # t
  BY <1>1, <1>2, <1>3 DEF AimAt, Accounts!OwnOps
<1>6. ASSUME NEW u \in Users
      PROVE  \E s \in SignedRows(q, u) : Current(q, u) \in DoneRows(q, u, s)
  <2>1. CASE own[u] = q
    BY <2>1 DEF Current, RegisterInv, Mine, Written
  <2>2. CASE own[u] # q
    <3>1. row[u] \in SignedRows(q, u) /\ row[u] \in DoneRows(q, u, row[u])
      BY SignedInSelf, AfterSelf DEF SignedRows, DoneRows
    <3> QED  BY <2>2, <3>1 DEF Current
  <2> QED  BY <2>1, <2>2
<1>7. PICK s \in Accounts!SignedIn(row[a]) : Current(q, a) \in DoneRows(q, a, s)
  BY <1>2, <1>6 DEF SignedRows
<1> DEFINE rows == [row EXCEPT ![a] = s]
<1>8. Current(q, t) \in Accounts!After(op, id, rows[t])
  <2>1. CASE a = t
    BY <1>1, <1>2, <1>3, <1>4, <1>7, <2>1 DEF DoneRows, Past
  <2>2. CASE a # t
    BY <1>1, <1>2, <1>3, <1>4, <1>6, <2>2 DEF DoneRows, SignedRows, Past
  <2> QED  BY <2>1, <2>2
<1>9. row' = [rows EXCEPT ![t] = Current(q, t)]
  <2>1. ASSUME NEW u \in Users, u # t PROVE Current(q, u) = rows[u]
    <3>1. CASE u = a
      BY <1>2, <1>4, <1>7, <2>1, <3>1 DEF DoneRows
    <3>2. CASE u # a
      BY <1>2, <1>4, <1>6, <2>1, <3>2 DEF DoneRows, SignedRows
    <3> QED  BY <3>1, <3>2
  <2> QED  BY <1>4, <2>1
<1>10. id \in 1 .. rows[t].id
  <2>1. s \in Rows
    BY <1>4, <1>7, SignedInId
  <2>2. rows[t] \in Rows
    BY <1>4, <2>1
  <2>3. Current(q, t).id = rows[t].id
    BY <1>8, <2>2, AfterId
  <2> QED  BY <1>2, <1>3, <1>4, <2>3
<1>11. logged' = IF op = "me" THEN None ELSE [op |-> op, admin |-> a, user |-> t, id |-> id]
  BY <1>1, <1>2, <1>3 DEF Commits, Entry, EntryAt, AimAt
<1>12. op \in Accounts!AllOps
  BY DEF AllOps, Accounts!AllOps, Accounts!OwnOps
<1>13. Accounts!Commit(a, op, t)
  BY <1>5, <1>7, <1>8, <1>9, <1>10, <1>11 DEF Accounts!Commit
<1> QED  BY <1>12, <1>13 DEF Accounts!Next

LEMMA StepRefines ==
    ASSUME TypeInv, TransactionInv, RegisterInv, [Next]_vars
    PROVE  [Accounts!Next]_(Accounts!vars)
<1>0. TypeOK
  BY DEF TypeInv
<1>1. ASSUME NEW q \in Requests, StepKind(q) PROVE Accounts!Next
  <2>1. CASE Commits(q)
    BY <2>1, CommitRefines
  <2>2. CASE ~Commits(q)
    <3>1. row' = row /\ logged' = None
      BY <1>1, <2>2 DEF StepKind, Aborts, Looks, Moves, Dooms, RollbackOnly, Syncs, Updates,
                        Deletes, WriteRow, postgres
    <3> QED  BY <3>1 DEF Accounts!Next, Accounts!Idle
  <2> QED  BY <2>1, <2>2
<1>2. ASSUME NEW q \in Requests, Step(q) PROVE Accounts!Next
  BY <1>1, <1>2, StepKinds
<1>3. ASSUME NEW q \in Requests, Fail(q) PROVE Accounts!Next
  BY <1>0, <1>1, <1>3, AbortEffect DEF Fail, StepKind
<1>4. ASSUME row' = row, logged' = None PROVE Accounts!Next
  BY <1>4 DEF Accounts!Next, Accounts!Idle
<1> QED
  BY <1>2, <1>3, <1>4 DEF Next, Begin, IssueToken, NoEntry, postgres, vars, Accounts!vars

\* The rows and the audit trail are those of an account register, whatever the
\* requests read, wait for and lose: a commit changes the row of the account that
\* made the request, by a sign-in, and the row its entry names, by what the entry
\* says; and no administrator has an entry for blocking, deleting or giving a role
\* to himself (service.py:42-89).
THEOREM AccountsRefineRegister == Spec => ImplementsAccounts
<1>1. Init => Accounts!Init
  <2> SUFFICES ASSUME Init PROVE Accounts!Init
    OBVIOUS
  <2>1. ASSUME NEW u \in Users
        PROVE  row[u] \in [id : {1}, live : {TRUE}, role : Accounts!Roles, active : {TRUE}]
    <3>1. row[u] = [id |-> 1, live |-> TRUE, active |-> TRUE,
                    role |-> IF u \in Lagging THEN "free" ELSE Resolve(u, InitialGroups(u))]
      BY DEF Init
    <3>2. Resolve(u, InitialGroups(u)) \in Accounts!Roles /\ "free" \in Accounts!Roles
      BY ResolveRange DEF Roles, Accounts!Roles
    <3> QED  BY <3>1, <3>2
  <2> QED  BY <2>1 DEF Init, Accounts!Init
<1>2. TypeInv /\ TransactionInv /\ RegisterInv /\ [Next]_vars => RegisterInv'
  BY RegisterInvNext
<1>3. TypeInv /\ TransactionInv /\ RegisterInv /\ [Next]_vars => [Accounts!Next]_(Accounts!vars)
  BY StepRefines
<1>4. Spec => Accounts!Spec
  BY <1>1, <1>2, <1>3, TypeInvInit, TypeInvNext, TransactionInvInit, TransactionInvNext,
     RegisterInvInit, PTL DEF Spec, Accounts!Spec
<1> QED  BY <1>4 DEF ImplementsAccounts
=============================================================================
