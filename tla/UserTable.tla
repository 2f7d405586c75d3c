------------------------------ MODULE UserTable ------------------------------
(***************************************************************************)
(* What the user operations promise, with nothing said of statements,      *)
(* threads or locks.  A client has at most one request outstanding; the    *)
(* request takes effect at once and in full, on the row of the tenant it   *)
(* was addressed to, or it has no effect: a creation refuses an existing   *)
(* name, a patch changes the columns it names and no other, a deletion     *)
(* removes the row.  UserStore is compared with this specification.        *)
(***************************************************************************)
EXTENDS Integers

CONSTANTS
  Clients,   \* whoever sends requests
  Keys,      \* the (tenant, name) pairs, UNIQUE in the users table
  Requests,  \* records with fields op, tenant, name, enabled, limit, devices
  NoRow,     \* the value of a key that has no row
  Nullopt    \* no request; a column the request does not name

VARIABLES
  users,     \* [Keys -> rows]
  pending    \* [Clients -> the request that has not taken effect yet]

vars == <<users, pending>>

KeyOf(r) == <<r.tenant, r.name>>

\* The column a patch leaves in a row: the value it names or the one already there.
Column(named, current) == IF named = Nullopt THEN current ELSE named

\* Whether request r may take effect, and the row it then leaves.
Allowed(r) ==
  \/ r.op = "create" /\ users[KeyOf(r)] = NoRow
  \/ r.op \in {"patch", "delete"} /\ users[KeyOf(r)] # NoRow

Effect(r) ==
  CASE r.op = "create" -> [enabled |-> 1, limit |-> r.limit, devices |-> r.devices]
    [] r.op = "patch"  -> [enabled |-> Column(r.enabled, users[KeyOf(r)].enabled),
                           limit   |-> Column(r.limit, users[KeyOf(r)].limit),
                           devices |-> Column(r.devices, users[KeyOf(r)].devices)]
    [] OTHER           -> NoRow

Init ==
  /\ users = [k \in Keys |-> NoRow]
  /\ pending = [c \in Clients |-> Nullopt]

Ask(c) ==
  /\ pending[c] = Nullopt
  /\ \E r \in Requests : pending' = [pending EXCEPT ![c] = r]
  /\ UNCHANGED users

Apply(c) ==
  /\ pending[c] # Nullopt
  /\ Allowed(pending[c])
  /\ users' = [users EXCEPT ![KeyOf(pending[c])] = Effect(pending[c])]
  /\ pending' = [pending EXCEPT ![c] = Nullopt]

Drop(c) ==
  /\ pending[c] # Nullopt
  /\ pending' = [pending EXCEPT ![c] = Nullopt]
  /\ UNCHANGED users

Next == \E c \in Clients : Ask(c) \/ Apply(c) \/ Drop(c)

Spec == Init /\ [][Next]_vars
=============================================================================
