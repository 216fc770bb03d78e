----------------------------- MODULE AdminAccounts -----------------------------
(***************************************************************************)
(* The administrator accounts: their endpoints (api/routers/admin_auth.py) *)
(* and the authentication of an administrator's request                    *)
(* (api/core/auth.py).  A request is three transactions of its own or one: *)
(* get_current_user reads the caller's account in a session that it        *)
(* closes; the handler then looks its target up, counts the superadmins    *)
(* when it has to, and commits.  On SQLite the handler's transaction takes *)
(* the write lock with its first statement (db/session.py); on PostgreSQL  *)
(* other requests act between its statements.                              *)
(*                                                                         *)
(* The accounts are those of a server: the process is bound to one, and    *)
(* Migration binds it to another.  Here it stays where it is.              *)
(***************************************************************************)
EXTENDS Naturals, FiniteSets

CONSTANTS
  Users,      \* the accounts there may be, each with its user name
  Default,    \* the account seeded on an empty table
  Service,    \* the caller that authenticates with the service key
  Sessions,   \* requests that run at once
  Servers,    \* database servers
  Source,     \* the one the process starts with
  Sqlite,     \* whether that one is SQLite
  Calls,      \* the endpoints that are called
  Wishes,     \* what an update asks for
  Copier,     \* the other holder of the write lock, see Migration
  None,
  MaxCalls    \* bound on the number of requests

Roles  == {"superadmin", "admin", "auditor"}
Change == [role : Roles \cup {"keep"}, active : {"keep", "on", "off"}, password : BOOLEAN]

ASSUME AccountConstants ==
  /\ Default \in Users /\ Service \notin Users /\ IsFiniteSet(Users)
  /\ Source \in Servers /\ Sqlite \in BOOLEAN
  /\ Calls \subseteq {"login", "password", "create", "status", "update", "delete"}
  /\ Wishes \subseteq Change
  /\ {None, Copier} \cap Sessions = {} /\ None # Copier /\ MaxCalls \in Nat

VARIABLES
  admins,     \* admin_users of each server
  live,       \* the server the engine of the process is bound to
  immediate,  \* whether that engine begins its transactions with BEGIN IMMEDIATE
  guarded,    \* whether every process so far has locked the source like that
  lock,       \* the request that holds SQLite's write lock
  tokens,     \* the users with a bearer token
  request,    \* the requests
  calls       \* requests so far

accountVars == <<admins, live, immediate, guarded, lock, tokens, request, calls>>

(* A row has a random key; a key, or a password, is the number of the call *)
(* that made it.                                                           *)
Absent   == [role |-> "none", active |-> FALSE, id |-> 0, password |-> 0]
Accounts == [role : Roles, active : BOOLEAN, id : Nat, password : Nat] \cup {Absent}
Seeded   == [role |-> "superadmin", active |-> TRUE, id |-> 0, password |-> 0]
NoRows   == [u \in Users |-> Absent]

Exists(rows, u) == rows[u].role # "none"
Superadmins(rows) == {u \in Users : rows[u].role = "superadmin" /\ rows[u].active}

(* at: the server the session was made for; locks: whether it takes the    *)
(* write lock there.                                                       *)
Requests == [pc : {"idle", "lookup", "verify", "count", "write"}, call : Calls \cup {"none"},
             by : Users \cup {Service}, role : Roles, target : Users, wish : Change,
             seen : Accounts, at : Servers, locks : BOOLEAN]
Keep == [role |-> "keep", active |-> "keep", password |-> FALSE]
NoRequest == [pc |-> "idle", call |-> "none", by |-> Service, role |-> "admin",
              target |-> Default, wish |-> Keep, seen |-> Absent, at |-> Source,
              locks |-> FALSE]

Ready(rows) == \/ rows = NoRows
               \/ Superadmins(rows) # {}

(* ensure_initial_superadmin, when a server process starts.                *)
Seed(rows) == IF rows = NoRows THEN [rows EXCEPT ![Default] = Seeded] ELSE rows

AccountInit(rows) ==
  /\ admins = [v \in Servers |-> IF v = Source THEN Seed(rows) ELSE NoRows]
  /\ live = Source /\ immediate = Sqlite /\ guarded = Sqlite
  /\ lock = None /\ tokens \in SUBSET Users
  /\ request = [s \in Sessions |-> NoRequest]

-----------------------------------------------------------------------------
(* The write lock of SQLite.  A transaction begins when it is free.        *)

Free       == ~immediate \/ lock = None
BeginDeferred(s) == UNCHANGED lock  \* mutant: the lock is taken with the first write
Begin(s)   == lock' = IF request[s].locks THEN s ELSE lock
Release(s) == lock' = IF lock = s THEN None ELSE lock
MayGo(s)   == request[s].locks => lock \in {None, s}

End(s) == /\ request' = [request EXCEPT ![s] = NoRequest]
          /\ Release(s)

(* Which of the requests may be made by a caller with this role.           *)
Level(role) == CASE role = "superadmin" -> 4 [] role = "admin" -> 3 [] OTHER -> 2
Needs(call) == IF call = "password" THEN 0 ELSE 3

(* The service key, or a key of the database, has the role it was given;   *)
(* the role of an administrator is read from his row at every request.     *)
CallerRole(u) == IF u = Service THEN "admin" ELSE admins[live][u].role
Recognised(u) ==
  u # Service => u \in tokens /\ Exists(admins[live], u) /\ admins[live][u].active

(* get_current_user and require_role, and the session of the handler.      *)
Authenticate(s, u, call, t, w) ==
  /\ request[s].pc = "idle" /\ calls < MaxCalls /\ Free
  /\ call \in Calls \ {"login"}
  /\ Recognised(u) /\ Level(CallerRole(u)) >= Needs(call)
  /\ call = "password" => u = t
  /\ request' = [request EXCEPT ![s] =
       [pc |-> "lookup", call |-> call, by |-> u, role |-> CallerRole(u), target |-> t,
        wish |-> w, seen |-> Absent, at |-> live, locks |-> immediate]]
  /\ calls' = calls + 1
  /\ UNCHANGED <<admins, live, immediate, guarded, lock, tokens>>

(* admin_login has no caller yet.                                          *)
LoginRequest(s, u) ==
  /\ request[s].pc = "idle" /\ calls < MaxCalls /\ "login" \in Calls
  /\ request' = [request EXCEPT ![s] =
       [NoRequest EXCEPT !.pc = "lookup", !.call = "login", !.target = u,
                         !.at = live, !.locks = immediate]]
  /\ calls' = calls + 1
  /\ UNCHANGED <<admins, live, immediate, guarded, lock, tokens>>

-----------------------------------------------------------------------------
(* The first statement of a handler: the target, and the checks on it.     *)

Demotes(r, row)     == row.role = "superadmin" /\ r.wish.role \notin {"keep", "superadmin"}
Becomes(r, row)     == IF r.wish.role = "keep" THEN row.role ELSE r.wish.role
Deactivates(r, row) == r.wish.active = "off" /\ Becomes(r, row) = "superadmin"

RefusedStatus(r, row) ==
  \/ r.by = r.target /\ r.wish.active = "off"
  \/ row.role = "superadmin" /\ r.role # "superadmin"
RefusedUpdate(r, row) ==
  \/ /\ r.wish.role # "keep"
     /\ r.wish.role = "superadmin" \/ row.role = "superadmin"
     /\ r.role # "superadmin"
  \/ r.by = r.target /\ r.wish.active = "off"
RefusedDelete(r, row) ==
  \/ r.by = r.target
  \/ row.role = "superadmin" /\ r.role # "superadmin"

Refused(r, row) ==
  \/ r.call # "create" /\ row.role = "none"
  \/ r.call = "create" /\ row.role # "none"
  \/ r.call = "login" /\ ~row.active
  \/ r.call = "status" /\ RefusedStatus(r, row)
  \/ r.call = "update" /\ RefusedUpdate(r, row)
  \/ r.call = "delete" /\ RefusedDelete(r, row)

(* The changes that could take the last superadmin away.                   *)
Counts(r, row) ==
  \/ r.call = "status" /\ row.role = "superadmin" /\ r.wish.active = "off"
  \/ r.call = "update" /\ (Demotes(r, row) \/ Deactivates(r, row))
  \/ r.call = "delete" /\ row.role = "superadmin"

Lookup(s) ==
  /\ request[s].pc = "lookup" /\ MayGo(s)
  /\ LET r == request[s]  row == admins[r.at][r.target]
     IN IF Refused(r, row)
        THEN End(s)
        ELSE /\ request' = [request EXCEPT ![s].seen = row,
                   ![s].pc = IF r.call = "login" THEN "verify"
                             ELSE IF Counts(r, row) THEN "count" ELSE "write"]
             /\ Begin(s)
  /\ UNCHANGED <<admins, live, immediate, guarded, tokens, calls>>

(* count of the active superadmins; the session has flushed a promotion of *)
(* its own before.                                                         *)
Count(s) ==
  /\ request[s].pc = "count"
  /\ LET r == request[s]  rows == admins[r.at]
         promoted == IF r.seen.role # "superadmin" /\ rows[r.target].active
                     THEN {r.target} ELSE {}
     IN IF Cardinality(Superadmins(rows) \cup promoted) <= 1
        THEN End(s)
        ELSE /\ request' = [request EXCEPT ![s].pc = "write"]
             /\ UNCHANGED lock
  /\ UNCHANGED <<admins, live, immediate, guarded, tokens, calls>>

-----------------------------------------------------------------------------
(* The commit.  The session writes the columns whose value it has changed  *)
(* to the row with the target's key; without such a row it raises, or      *)
(* deletes nothing.                                                        *)

Current(r) == admins[r.at][r.target]
IsThere(r) == Current(r).role # "none" /\ Current(r).id = r.seen.id

Written(r, row) ==
  [role     |-> IF r.wish.role = "keep" \/ r.wish.role = r.seen.role
                THEN row.role ELSE r.wish.role,
   active   |-> IF r.wish.active = "keep" \/ (r.wish.active = "on") = r.seen.active
                THEN row.active ELSE r.wish.active = "on",
   id       |-> row.id,
   password |-> IF r.wish.password THEN calls ELSE row.password]

Put(s, row) ==
  admins' = [admins EXCEPT ![request[s].at] =
               [admins[request[s].at] EXCEPT ![request[s].target] = row]]

Save(s) ==
  /\ request[s].pc = "write" /\ request[s].call \in {"status", "update", "password"}
  /\ IF IsThere(request[s])
     THEN Put(s, Written(request[s], Current(request[s])))
     ELSE UNCHANGED admins
  /\ End(s)
  /\ UNCHANGED <<live, immediate, guarded, tokens, calls>>

Delete(s) ==
  /\ request[s].pc = "write" /\ request[s].call = "delete"
  /\ IF IsThere(request[s]) THEN Put(s, Absent) ELSE UNCHANGED admins
  /\ End(s)
  /\ UNCHANGED <<live, immediate, guarded, tokens, calls>>

(* The unique user name refuses the second of two.                         *)
Create(s) ==
  /\ request[s].pc = "write" /\ request[s].call = "create"
  /\ LET r == request[s]
         new == [role |-> r.wish.role, active |-> TRUE, id |-> calls, password |-> calls]
     IN IF Current(r).role # "none" THEN UNCHANGED admins ELSE Put(s, new)
  /\ End(s)
  /\ UNCHANGED <<live, immediate, guarded, tokens, calls>>

(* A weak password, a wrong current one, an address in use.                *)
Reject(s) ==
  /\ request[s].pc = "write" /\ request[s].call \in {"password", "create", "update"}
  /\ End(s)
  /\ UNCHANGED <<admins, live, immediate, guarded, tokens, calls>>

(* The password is verified in a thread, against the row that was read;    *)
(* then the time of the login is written to the row, and the token made.   *)
Login(s, right) ==
  /\ request[s].pc = "verify"
  /\ tokens' = IF right /\ IsThere(request[s])
               THEN tokens \cup {request[s].target} ELSE tokens
  /\ End(s)
  /\ UNCHANGED <<admins, live, immediate, guarded, calls>>

-----------------------------------------------------------------------------
(* The wishes of a request: status sets the flag only, a new password is   *)
(* all that change-password sets, a new account has a role.                *)
WishOf(call) ==
  CASE call = "status"   -> {w \in Wishes : w.role = "keep" /\ w.active # "keep" /\ ~w.password}
    [] call = "update"   -> Wishes
    [] call = "create"   -> {w \in Wishes : w.role # "keep" /\ w.active = "keep" /\ ~w.password}
    [] call = "password" -> {[Keep EXCEPT !.password = TRUE]}
    [] OTHER             -> {Keep}

Request(s) ==
  \/ Lookup(s) \/ Count(s)
  \/ Save(s) \/ Delete(s) \/ Create(s) \/ Reject(s)
  \/ \E right \in BOOLEAN : Login(s, right)

AccountNext ==
  \E s \in Sessions :
     \/ \E u \in Users : LoginRequest(s, u)
     \/ \E u \in Users \cup {Service}, call \in Calls \ {"login"} :
          \E t \in Users, w \in WishOf(call) : Authenticate(s, u, call, t, w)
     \/ Request(s)

AccountSpec ==
  /\ \E rows \in [Users -> Accounts] : Ready(rows) /\ AccountInit(rows)
  /\ calls = 0
  /\ [][AccountNext]_accountVars

-----------------------------------------------------------------------------
AccountTypeOK ==
  /\ admins \in [Servers -> [Users -> Accounts]]
  /\ live \in Servers /\ immediate \in BOOLEAN /\ guarded \in BOOLEAN
  /\ lock \in Sessions \cup {None, Copier}
  /\ tokens \subseteq Users
  /\ request \in [Sessions -> Requests]
  /\ calls \in Nat

(* The platform is never without an active superadmin: however deletions,  *)
(* deactivations and demotions of several superadmins cross, among them of *)
(* each other, one account of the SQLite database can still do everything  *)
(* (toggle_admin_user_status, update_admin_user, delete_admin_user;        *)
(* USER_MANUAL.md:1375).  On PostgreSQL, or with an engine that does not   *)
(* take the write lock, the count and the commit are two steps and nothing *)
(* promises it.                                                            *)
SuperadminRemains == guarded => Superadmins(admins[Source]) # {}
=============================================================================
