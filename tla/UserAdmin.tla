----------------------------- MODULE UserAdmin -----------------------------
(***************************************************************************)
(* Authenticated requests of the backend that touch accounts: the lazy     *)
(* upsert and role sync of get_current_db_user, the admin operations of    *)
(* users/admin_router.py, DELETE /users/me, and the audit trail, over one  *)
(* PostgreSQL database and the external identity provider Authentik.       *)
(*                                                                         *)
(* Every request runs in the one transaction of get_db: READ COMMITTED     *)
(* reads, row locks from the first write of a row to the end of the        *)
(* transaction, commit after the handler has answered, rollback when it    *)
(* raised.  Authentik calls are made inside the transaction and are not    *)
(* undone by it.  SQLAlchemy writes only the columns it saw change.        *)
(*                                                                         *)
(* An account is named by its provider_id.  Its row carries an id that a   *)
(* recreated row does not share.  Group names are the roles they stand for *)
(* (ROLE_TO_GROUP).  Names and e-mails are left out: every row is linked   *)
(* to its provider and every token resolves to an e-mail.                  *)
(***************************************************************************)
EXTENDS Integers, FiniteSets

CONSTANTS
    Users,         \* accounts known to Authentik
    Requests,      \* requests the API can be serving at the same time
    Ops,           \* the operations this instance exercises
    NewRoles,      \* the roles administrators assign
    Admins, Paid,  \* initial members of the groups "admins" and "paid"
    Lagging,       \* accounts put in a group since their row was last synced
    AdminEmails,   \* accounts whose e-mail is settings.ADMIN_EMAIL
    BareTokens,    \* do access tokens lack the profile claims?
    MaxId,         \* bound: no delete is aimed at the MaxId-th row of a user
    None

Roles == {"free", "paid", "admin"}
AllOps == {"me", "role", "block", "unblock", "delete", "delete_self", "reset"}
AdminOps == AllOps \ {"me", "delete_self"}

ASSUME UsersAssumption ==
    /\ Ops \subseteq AllOps
    /\ Admins \subseteq Users /\ Paid \subseteq Users
    /\ AdminEmails \subseteq Users /\ Lagging \subseteq Users
    /\ BareTokens \in BOOLEAN
    /\ MaxId \in Nat
    /\ NewRoles \subseteq Roles
    /\ None \notin Requests \cup Users

VARIABLES
    akExists,   \* Authentik: does the account exist?
    akGroups,   \* Authentik: the role groups it is in
    tok,        \* the groups in the account's current token, or a marker
    row,        \* PostgreSQL: the committed row of each account
    own,        \* PostgreSQL: the request holding the row's lock, or None
    draft,      \* PostgreSQL: the row version the lock's holder has written
    req,        \* what each request has read, done and still has to do
    logged,     \* the audit entry the latest step has committed, or None
    granted     \* history: the groups each account was ever in

authentik == <<akExists, akGroups, granted>>
postgres == <<row, own, draft>>
vars == <<authentik, tok, postgres, req, logged>>

-----------------------------------------------------------------------------
(* Data                                                                    *)

Rows == [id : Nat, live : BOOLEAN, role : Roles, active : BOOLEAN]

\* Priority admins > paid > ADMIN_EMAIL > free.
Resolve(u, groups) ==
    CASE "admin" \in groups -> "admin"
      [] "paid" \in groups /\ "admin" \notin groups -> "paid"
      [] OTHER -> IF u \in AdminEmails THEN "admin" ELSE "free"

\* Markers in the place of a set of groups.
Bare == {"no claims"}
NoGroups == {"no answer"}    \* userinfo did not answer 200
Tokens == (SUBSET Roles) \cup {Bare}

NewToken(u) == IF BareTokens THEN Bare ELSE akGroups[u]

NoRow == [id |-> 0, live |-> FALSE, role |-> "free", active |-> TRUE]
Idle == [pc |-> "idle", op |-> "me", actor |-> None, groups |-> NoGroups,
         target |-> None, tid |-> 0, arg |-> "free",
         me |-> NoRow, tgt |-> NoRow, entry |-> FALSE, doomed |-> FALSE]

PCs == {"idle", "lookup", "sync", "gate", "akremove", "akadd", "akpassword",
        "write", "delete", "audit", "akdelete", "close"}

Reqs == [pc : PCs, op : AllOps, actor : Users \cup {None},
         groups : (SUBSET Roles) \cup {NoGroups},
         target : Users \cup {None}, tid : Nat, arg : Roles,
         me : Rows, tgt : Rows, entry : BOOLEAN, doomed : BOOLEAN]

InitialGroups(u) ==
    IF u \in Admins THEN {"admin"} ELSE IF u \in Paid THEN {"paid"} ELSE {"free"}

Init ==
    /\ akExists = [u \in Users |-> TRUE]
    /\ akGroups = [u \in Users |-> InitialGroups(u)]
    /\ granted = akGroups
    /\ tok = [u \in Users |-> NewToken(u)]
    /\ row = [u \in Users |-> [id |-> 1, live |-> TRUE, active |-> TRUE,
                               role |-> IF u \in Lagging THEN "free"
                                        ELSE Resolve(u, InitialGroups(u))]]
    /\ own = [u \in Users |-> None]
    /\ draft = row
    /\ req = [q \in Requests |-> Idle]
    /\ logged = None

-----------------------------------------------------------------------------
(* Transactions                                                            *)

Free(q, u) == own[u] \in {None, q}

\* What an UPDATE of q finds when it gets the lock: its own version, or the
\* latest committed one, which need not be the one q has read.
Current(q, u) == IF own[u] = q THEN draft[u] ELSE row[u]

WriteRow(q, u, version) ==
    /\ Free(q, u)
    /\ own' = [own EXCEPT ![u] = q]
    /\ draft' = [draft EXCEPT ![u] = version]
    /\ UNCHANGED row

\* The end of a transaction forgets its versions and frees its locks.
Unlock(q, final) ==
    /\ own' = [u \in Users |-> IF own[u] = q THEN None ELSE own[u]]
    /\ draft' = [u \in Users |-> IF own[u] = q THEN final[u] ELSE draft[u]]

RollbackOnly(q) == Unlock(q, row) /\ UNCHANGED row

NoEntry == logged' = None

Goto(q, pc) == req' = [req EXCEPT ![q].pc = pc]

\* The handler raised: session.begin() rolls back, an error is answered.
Abort(q) ==
    /\ RollbackOnly(q)
    /\ req' = [req EXCEPT ![q] = Idle]
    /\ NoEntry

-----------------------------------------------------------------------------
(* get_current_db_user                                                     *)

\* The token's claims, or the answer of the userinfo endpoint.
Claims(u) ==
    IF tok[u] # Bare THEN {tok[u]}
    ELSE {NoGroups} \cup (IF akExists[u] THEN {akGroups[u]} ELSE {})

\* A request names the target's row by the id the client has last seen.
Begin(q, u, op, t, role) ==
    /\ req[q].pc = "idle"
    /\ op \in {"delete", "delete_self"} => row[t].id < MaxId
    /\ IF op \in AdminOps THEN row[t].live ELSE t = u
    /\ \E groups \in Claims(u) :
           req' = [req EXCEPT ![q] =
                       [Idle EXCEPT !.pc = "lookup", !.op = op, !.actor = u,
                                    !.groups = groups, !.target = t,
                                    !.tid = row[t].id,
                                    !.arg = IF op = "role" THEN role ELSE "free"]]
    /\ UNCHANGED <<authentik, tok, postgres>> /\ NoEntry

\* The role to store for the row found: none of the claims, no change.
JwtRole(q, me) ==
    IF req[q].groups = NoGroups THEN me.role
    ELSE Resolve(req[q].actor, req[q].groups)

\* SELECT by provider_id; nothing is written when the row is in sync.
Lookup(q) ==
    LET me == row[req[q].actor]
        inSync == me.live /\ me.role = JwtRole(q, me)
    IN  /\ req[q].pc = "lookup"
        /\ req' = [req EXCEPT ![q].me = me,
                              ![q].pc = IF inSync THEN "gate" ELSE "sync"]
        /\ UNCHANGED <<authentik, tok, postgres>> /\ NoEntry

\* Mutant: the whole row is written as it was read.
SyncRole_WholeRow(q) ==
    LET u == req[q].actor
        now == Current(q, u)
        role == JwtRole(q, req[q].me)
    IN  /\ req[q].pc = "sync"
        /\ req[q].me.live
        /\ Free(q, u)
        /\ IF now.live /\ now.id = req[q].me.id
           THEN /\ WriteRow(q, u, [req[q].me EXCEPT !.role = role])
                /\ req' = [req EXCEPT ![q].pc = "gate", ![q].me.role = role]
                /\ NoEntry
           ELSE Abort(q)
        /\ UNCHANGED <<authentik, tok>>

\* UPDATE users SET role: one column, on the latest version of the row.  The
\* row may be gone by then (StaleDataError, 503).
SyncRole(q) ==
    LET u == req[q].actor
        now == Current(q, u)
        role == JwtRole(q, req[q].me)
    IN  /\ req[q].pc = "sync"
        /\ req[q].me.live
        /\ Free(q, u)
        /\ IF now.live /\ now.id = req[q].me.id
           THEN /\ WriteRow(q, u, [now EXCEPT !.role = role])
                /\ req' = [req EXCEPT ![q].pc = "gate", ![q].me.role = role]
                /\ NoEntry
           ELSE Abort(q)
        /\ UNCHANGED <<authentik, tok>>

\* Mutant: the INSERT names no is_active and the column has no default.
Upsert_NullActive(q) ==
    LET u == req[q].actor
        new == [row[u] EXCEPT !.id = @ + 1, !.live = TRUE, !.active = None]
    IN  /\ req[q].pc = "sync"
        /\ ~req[q].me.live
        /\ WriteRow(q, u, new)
        /\ req' = [req EXCEPT ![q].pc = "gate", ![q].me = [new EXCEPT !.active = TRUE]]
        /\ UNCHANGED <<authentik, tok>> /\ NoEntry

\* INSERT ... ON CONFLICT (provider_id) DO UPDATE: a new row is active and has
\* a new id; a row that appeared meanwhile keeps both.  When userinfo has not
\* answered there is no e-mail either, so nobody resolves to more than free.
Upsert(q) ==
    LET u == req[q].actor
        now == Current(q, u)
        role == IF req[q].groups = NoGroups THEN "free" ELSE Resolve(u, req[q].groups)
        new == IF now.live THEN [now EXCEPT !.role = role]
               ELSE [id |-> now.id + 1, live |-> TRUE, role |-> role, active |-> TRUE]
    IN  /\ req[q].pc = "sync"
        /\ ~req[q].me.live
        /\ WriteRow(q, u, new)
        /\ req' = [req EXCEPT ![q].pc = "gate", ![q].me = new]
        /\ UNCHANGED <<authentik, tok>> /\ NoEntry

\* 403 "Account is blocked", 403 "Insufficient permissions".
Admitted(q) ==
    /\ req[q].me.active
    /\ req[q].op \in AdminOps => req[q].me.role = "admin"

Gate(q) ==
    /\ req[q].pc = "gate"
    /\ Admitted(q)
    /\ req[q].op \notin AdminOps
    /\ Goto(q, IF req[q].op = "me" THEN "close" ELSE "delete")
    /\ UNCHANGED <<authentik, tok, postgres>> /\ NoEntry

\* The refusal is an exception: what the sync has flushed is rolled back.
Refuse(q) ==
    /\ req[q].pc = "gate"
    /\ ~Admitted(q)
    /\ Abort(q)
    /\ UNCHANGED <<authentik, tok>>

-----------------------------------------------------------------------------
(* The admin operations and DELETE /users/me                               *)

SelfAimed(q) ==
    req[q].target = req[q].actor /\ req[q].tid = req[q].me.id

\* Mutant: delete_user does not compare the target with the admin.
GuardedEarly_NotDelete == {"block", "unblock"}

\* set_active refuses the admin himself before, delete_user after fetching the
\* target, change_role only once Authentik is changed, reset never.
GuardedEarly == {"block", "unblock", "delete"}

\* session.get: the identity map answers for the admin's own row.
Target(q) ==
    LET found == IF SelfAimed(q) THEN req[q].me ELSE row[req[q].target]
    IN  /\ req[q].pc = "gate"
        /\ Admitted(q)
        /\ req[q].op \in AdminOps
        /\ IF /\ found.live
              /\ found.id = req[q].tid
              /\ ~(SelfAimed(q) /\ req[q].op \in GuardedEarly)
           THEN /\ req' = [req EXCEPT
                      ![q].tgt = found,
                      ![q].groups = NoGroups,
                      ![q].pc = CASE req[q].op = "role" -> "akremove"
                                  [] req[q].op = "reset" -> "akpassword"
                                  [] req[q].op = "delete" -> "delete"
                                  [] OTHER -> "write"]
                /\ UNCHANGED postgres /\ NoEntry
           ELSE Abort(q)
        /\ UNCHANGED <<authentik, tok>>

\* The keys are looked up, and the account leaves the group of the role the
\* DATABASE had (404 is tolerated).  When only the answer is lost, the group is
\* left and the request fails.
AkRemove(q) ==
    LET t == req[q].target
    IN  /\ req[q].pc = "akremove"
        /\ akExists[t]
        /\ akGroups' = [akGroups EXCEPT ![t] = @ \ {req[q].tgt.role}]
        /\ \/ Goto(q, "akadd") /\ UNCHANGED postgres /\ NoEntry
           \/ Abort(q)
        /\ UNCHANGED <<akExists, granted, tok>>

\* Mutant: an error of add_user is logged and ignored.
AkAdd_BestEffort(q) ==
    LET t == req[q].target
    IN  /\ req[q].pc = "akadd"
        /\ \/ /\ akGroups' = [akGroups EXCEPT ![t] = @ \cup {req[q].arg}]
              /\ granted' = [granted EXCEPT ![t] = @ \cup {req[q].arg}]
           \/ UNCHANGED <<akGroups, granted>>
        /\ Goto(q, "write")
        /\ UNCHANGED <<akExists, tok, postgres>> /\ NoEntry

\* Join the group of the new role.
AkAdd(q) ==
    LET t == req[q].target
    IN  /\ req[q].pc = "akadd"
        /\ akExists[t]
        /\ akGroups' = [akGroups EXCEPT ![t] = @ \cup {req[q].arg}]
        /\ granted' = [granted EXCEPT ![t] = @ \cup {req[q].arg}]
        /\ \/ Goto(q, "write") /\ UNCHANGED postgres /\ NoEntry
           \/ Abort(q)
        /\ UNCHANGED <<akExists, tok>>

\* No such account: a BusinessRuleError of the lookup, or a 404.
AkGone(q) ==
    /\ req[q].pc \in {"akremove", "akadd", "akpassword"}
    /\ ~akExists[req[q].target]
    /\ Abort(q)
    /\ UNCHANGED <<authentik, tok>>

\* A new password, of which nothing is kept but that it has been set.
AkSetPassword(q) ==
    /\ req[q].pc = "akpassword"
    /\ akExists[req[q].target]
    /\ Goto(q, "audit")
    /\ UNCHANGED <<authentik, tok, postgres>> /\ NoEntry

\* UPDATE users of the columns that differ from what was read, and of
\* role_changed_at.  A row that is gone is a StaleDataError.
UpdateTarget(q, version) ==
    LET t == req[q].target
        now == Current(q, t)
    IN  /\ Free(q, t)
        /\ IF now.live /\ now.id = req[q].tid
           THEN /\ WriteRow(q, t, version)
                /\ Goto(q, "audit")
                /\ NoEntry
           ELSE Abort(q)
        /\ UNCHANGED <<authentik, tok>>

\* Mutant: change_role does not compare the target with the admin.
ChangeRole_Unguarded(q) ==
    LET now == Current(q, req[q].target)
    IN  /\ req[q].pc = "write"
        /\ req[q].op = "role"
        /\ UpdateTarget(q, IF req[q].arg = req[q].tgt.role THEN now
                           ELSE [now EXCEPT !.role = req[q].arg])

\* "Cannot change your own role", or the new role as a cache.
ChangeRole(q) ==
    LET now == Current(q, req[q].target)
    IN  /\ req[q].pc = "write"
        /\ req[q].op = "role"
        /\ IF SelfAimed(q)
           THEN Abort(q) /\ UNCHANGED <<authentik, tok>>
           ELSE UpdateTarget(q, IF req[q].arg = req[q].tgt.role THEN now
                                ELSE [now EXCEPT !.role = req[q].arg])

SetActive(q) ==
    LET now == Current(q, req[q].target)
        active == req[q].op = "unblock"
    IN  /\ req[q].pc = "write"
        /\ req[q].op \in {"block", "unblock"}
        /\ UpdateTarget(q, IF active = req[q].tgt.active THEN now
                           ELSE [now EXCEPT !.active = active])

\* DELETE FROM users: a row that is gone already is only a warning.
DeleteRow(q) ==
    LET t == req[q].target
        id == IF req[q].op = "delete" THEN req[q].tid ELSE req[q].me.id
        now == Current(q, t)
    IN  /\ req[q].pc = "delete"
        /\ Free(q, t)
        /\ IF now.live /\ now.id = id
           THEN WriteRow(q, t, [now EXCEPT !.live = FALSE])
           ELSE UNCHANGED postgres
        /\ req' = [req EXCEPT ![q].tid = id,
                              ![q].pc = IF req[q].op = "delete" THEN "audit"
                                        ELSE "akdelete"]
        /\ UNCHANGED <<authentik, tok>> /\ NoEntry

\* Who did what to which row.
Entry(q) == [op |-> req[q].op, admin |-> req[q].actor,
             user |-> req[q].target, id |-> req[q].tid]

AfterAudit(q) == IF req[q].op = "delete" THEN "akdelete" ELSE "close"

\* Mutant: the entry is written in a session of its own.
Audit_OwnSession(q) ==
    /\ req[q].pc = "audit"
    /\ req' = [req EXCEPT ![q].pc = AfterAudit(q)]
    /\ logged' = Entry(q)
    /\ UNCHANGED <<authentik, tok, postgres>>

\* AuditLogService.record, in the transaction of the operation.
Audit(q) ==
    /\ req[q].pc = "audit"
    /\ req' = [req EXCEPT ![q].entry = TRUE, ![q].pc = AfterAudit(q)]
    /\ UNCHANGED <<authentik, tok, postgres>> /\ NoEntry

\* The INSERT fails, the exception is swallowed: the flush has already rolled
\* the transaction back, and the handler goes on to answer success.
AuditFails(q) ==
    /\ req[q].pc = "audit"
    /\ RollbackOnly(q)
    /\ req' = [req EXCEPT ![q].doomed = TRUE, ![q].pc = AfterAudit(q)]
    /\ UNCHANGED <<authentik, tok>> /\ NoEntry

\* Best effort, whatever becomes of the transaction.
AkDelete(q) ==
    LET t == req[q].target
    IN  /\ req[q].pc = "akdelete"
        /\ \/ /\ akExists' = [akExists EXCEPT ![t] = FALSE]
              /\ akGroups' = [akGroups EXCEPT ![t] = {}]
           \/ UNCHANGED <<akExists, akGroups>>
        /\ Goto(q, IF req[q].op = "delete" THEN "close" ELSE "audit")
        /\ UNCHANGED <<granted, tok, postgres>> /\ NoEntry

\* The answer is on its way: get_db commits, and the audit entry with it.
Commit(q) ==
    /\ req[q].pc = "close"
    /\ ~req[q].doomed
    /\ row' = [u \in Users |-> Current(q, u)]
    /\ Unlock(q, draft)
    /\ logged' = IF req[q].entry THEN Entry(q) ELSE None
    /\ req' = [req EXCEPT ![q] = Idle]
    /\ UNCHANGED <<authentik, tok>>

\* session.begin() finds its transaction rolled back and closes it silently.
CloseDoomed(q) ==
    /\ req[q].pc = "close"
    /\ req[q].doomed
    /\ Abort(q)
    /\ UNCHANGED <<authentik, tok>>

\* A query, an Authentik call or the COMMIT fails, or the worker dies.
Fail(q) ==
    /\ req[q].pc # "idle"
    /\ Abort(q)
    /\ UNCHANGED <<authentik, tok>>

\* The row this request is about to write.
WantsLock(q) ==
    CASE req[q].pc = "sync" -> {req[q].actor}
      [] req[q].pc \in {"write", "delete"} -> {req[q].target}
      [] OTHER -> {}

\* Mutant: a lock wait is never cut short.
AbortWait_Never(q) == FALSE /\ Abort(q) /\ UNCHANGED <<authentik, tok>>

\* statement_timeout, or PostgreSQL's deadlock detector, ends a lock wait.
AbortWait(q) ==
    /\ \E u \in WantsLock(q) : ~Free(q, u)
    /\ Abort(q)
    /\ UNCHANGED <<authentik, tok>>

-----------------------------------------------------------------------------
(* Authentik's tokens                                                      *)

\* A login or a refresh, while the account exists.  A request with an expired
\* token is answered 401 and changes nothing; one with an old token that has
\* not expired is served, even when the account is gone by now.
IssueToken(u) ==
    /\ akExists[u]
    /\ tok' = [tok EXCEPT ![u] = NewToken(u)]
    /\ UNCHANGED <<authentik, postgres, req>> /\ NoEntry

-----------------------------------------------------------------------------
Step(q) ==
    \/ Lookup(q) \/ SyncRole(q) \/ Upsert(q)
    \/ Gate(q) \/ Refuse(q) \/ Target(q)
    \/ AkRemove(q) \/ AkAdd(q) \/ AkGone(q) \/ AkSetPassword(q)
    \/ ChangeRole(q) \/ SetActive(q) \/ DeleteRow(q)
    \/ Audit(q) \/ AuditFails(q) \/ AkDelete(q)
    \/ Commit(q) \/ CloseDoomed(q)
    \/ AbortWait(q)

Next ==
    \/ \E q \in Requests, u \in Users, op \in Ops, t \in Users, role \in NewRoles :
           Begin(q, u, op, t, role)
    \/ \E q \in Requests : Step(q) \/ Fail(q)
    \/ \E u \in Users : IssueToken(u)

Spec == Init /\ [][Next]_vars

\* Every accepted request is run on; errors (Fail) and new requests may occur
\* but need not.
Fairness == \A q \in Requests : WF_vars(Step(q))
FairSpec == Spec /\ Fairness

-----------------------------------------------------------------------------
TypeOK ==
    /\ akExists \in [Users -> BOOLEAN]
    /\ akGroups \in [Users -> SUBSET Roles]
    /\ granted \in [Users -> SUBSET Roles]
    /\ tok \in [Users -> Tokens]
    /\ row \in [Users -> Rows]
    /\ own \in [Users -> Requests \cup {None}]
    /\ draft \in [Users -> Rows]
    /\ req \in [Requests -> Reqs]
    /\ logged \in [op : AllOps, admin : Users, user : Users, id : Nat] \cup {None}

\* An uncommitted row version differs from the committed one only in what its
\* own transaction means to change, however long ago the transaction has read the
\* row and whatever others have committed since (repository.py:95-111,
\* service.py:42-89): whether the row is active only by a block or unblock of it;
\* its role to the one that its own request was admitted with, which a stale token
\* may name, or to the one assigned; it is removed only by a delete that names its
\* id, and comes to life only by a request of its own account, under a new id.
DraftsAreCurrent ==
    \A u \in Users :
        LET q == own[u]
            new == draft[u]
            old == row[u]
        IN  IF q = None THEN new = old
            ELSE /\ req[q].pc # "idle" /\ ~req[q].doomed
                 /\ new.role # old.role =>
                        \/ u = req[q].actor /\ new.role = req[q].me.role
                        \/ req[q].op = "role" /\ req[q].target = u /\ new.role = req[q].arg
                 /\ old.live =>
                        /\ new.id = old.id
                        /\ new.active # old.active =>
                               /\ req[q].op \in {"block", "unblock"} /\ req[q].target = u
                               /\ req[q].tid = old.id /\ new.active = (req[q].op = "unblock")
                        /\ ~new.live =>
                               /\ req[q].op \in {"delete", "delete_self"}
                               /\ req[q].target = u /\ req[q].tid = old.id
                 /\ ~old.live => u = req[q].actor /\ new.id = old.id + 1

\* Two services share one session "to guarantee transactional consistency"
\* (admin_router.py:185): a row is blocked, unblocked or removed only by a
\* commit that carries the audit entry for just that row, whatever other
\* requests read, sync and commit meanwhile.
EffectsAudited ==
    [][\A u \in Users :
          row[u].live /\ row'[u] # row[u] =>
              LET entries(op) == {[op |-> op, admin |-> a, user |-> u, id |-> row[u].id] :
                                      a \in Users}
              IN  /\ row'[u].id = row[u].id
                  /\ row[u].active /\ ~row'[u].active => logged' \in entries("block")
                  /\ ~row[u].active /\ row'[u].active => logged' \in entries("unblock")
                  /\ ~row'[u].live => logged' \in entries("delete") \cup entries("delete_self")
      ]_vars

\* "If Authentik API fails, no DB change happens" (admin_router.py:275): the
\* database never shows a role above free that Authentik never granted.
RoleGranted ==
    \A u \in Users :
        row[u].live => \/ row[u].role \in granted[u] \cup {"free"}
                       \/ row[u].role = "admin" /\ u \in AdminEmails

\* The rows and the audit trail are those of an account register: a commit
\* changes at most the row of the account that made the request, by a sign-in,
\* and the row its entry names, by what the entry says; and no administrator has
\* an entry for blocking, deleting or giving a role to himself, however old the
\* id his request named (service.py:42-89).
Accounts == INSTANCE AccountRegister
ImplementsAccounts == Accounts!Spec

\* Two admins who act on each other wait for each other's row; every request
\* still ends, and frees its locks.
EveryRequestEnds ==
    \A q \in Requests : req[q].pc # "idle" ~> req[q].pc = "idle"

-----------------------------------------------------------------------------
(* What the documentation says and the code does not do                    *)

\* "Fire-and-forget: never blocks the main operation" (audit/service.py:30):
\* an operation answered with success is not lost with its audit entry.
AuditNeverBlocks ==
    \A q \in Requests : req[q].pc = "close" => ~req[q].doomed
=============================================================================
