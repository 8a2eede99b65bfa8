-------------------------- MODULE AccountRegister --------------------------
(***************************************************************************)
(* What the backend promises of the accounts it keeps, without locks,      *)
(* reads, refusals or Authentik: each account is a row with an id that a   *)
(* recreated row does not share, and the table changes only by COMMITS.    *)
(* One commit signs in the account A that made the request, which may      *)
(* create its row or update its role, and carries out one operation on     *)
(* one account T, with the audit entry that says so.  An operation that    *)
(* finds nothing to change leaves the row as it is, and an entry may be    *)
(* about a row that is gone by now, but not about one that never was.      *)
(***************************************************************************)
EXTENDS Integers

CONSTANTS Users, None

VARIABLES
    row,       \* the row of each account
    logged     \* the audit entry of the latest step, or None

vars == <<row, logged>>

Roles == {"free", "paid", "admin"}

\* What accounts do to themselves, and administrators to accounts.
OwnOps == {"me", "delete_self"}
AllOps == OwnOps \cup {"role", "block", "unblock", "delete", "reset"}

Init ==
    /\ row \in [Users -> [id : {1}, live : {TRUE}, role : Roles, active : {TRUE}]]
    /\ logged = None

\* A row whose account signs in: the role of its token, and a row if it has none.
SignedIn(x) ==
    {x} \cup (IF x.live THEN {[x EXCEPT !.role = role] : role \in Roles}
              ELSE {[id |-> x.id + 1, live |-> TRUE, role |-> role, active |-> TRUE] :
                        role \in Roles})

\* A row after an operation that is about the row with this id.
After(op, id, x) ==
    {x} \cup
    (IF ~x.live \/ x.id # id THEN {}
     ELSE CASE op = "role"    -> {[x EXCEPT !.role = role] : role \in Roles}
            [] op = "block"   -> {[x EXCEPT !.active = FALSE]}
            [] op = "unblock" -> {[x EXCEPT !.active = TRUE]}
            [] op \in {"delete", "delete_self"} -> {[x EXCEPT !.live = FALSE]}
            [] OTHER -> {})

\* An administrator does to himself nothing but set a password.
Commit(a, op, t) ==
    /\ IF op \in OwnOps THEN a = t ELSE op = "reset" \/ a # t
    /\ \E s \in SignedIn(row[a]) :
          LET rows == [row EXCEPT ![a] = s]
          IN \E id \in 1 .. rows[t].id : \E x \in After(op, id, rows[t]) :
                /\ row' = [rows EXCEPT ![t] = x]
                /\ logged' = IF op = "me" THEN None
                             ELSE [op |-> op, admin |-> a, user |-> t, id |-> id]

\* Nothing is committed.
Idle == row' = row /\ logged' = None

Next == Idle \/ \E a \in Users, op \in AllOps, t \in Users : Commit(a, op, t)

Spec == Init /\ [][Next]_vars
=============================================================================
