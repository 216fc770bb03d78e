------------------------------ MODULE AdminProofs ------------------------------
(* What AdminAccounts guarantees for any accounts and any number of        *)
(* requests at once.                                                       *)
EXTENDS AdminAccounts, FiniteSetTheorems, TLAPS

(* The rows and the requests keep their shape when fields change.           *)
LEMMA KeepType == Keep \in Change /\ [Keep EXCEPT !.password = TRUE] \in Change
<1>1. Keep \in Change
  BY Zenon DEF Keep, Change, Roles
<1>2. [Keep EXCEPT !.password = TRUE] \in Change
  BY <1>1, Zenon DEF Change
<1> QED
  BY <1>1, <1>2

LEMMA RowTypes ==
  /\ Absent \in Accounts /\ Seeded \in Accounts
  /\ \A role \in Roles, active \in BOOLEAN, id \in Nat, password \in Nat :
       [role |-> role, active |-> active, id |-> id, password |-> password] \in Accounts
<1>1. ASSUME NEW role \in Roles, NEW active \in BOOLEAN, NEW id \in Nat, NEW password \in Nat
      PROVE  [role |-> role, active |-> active, id |-> id, password |-> password] \in Accounts
  BY Zenon DEF Accounts
<1>2. 0 \in Nat
  OBVIOUS
<1>3. Absent \in Accounts
  BY DEF Accounts
<1>4. Seeded \in Accounts
  BY <1>1, <1>2, Zenon DEF Seeded, Roles
<1> QED
  BY <1>1, <1>3, <1>4

LEMMA NoRequestType == NoRequest \in Requests
<1>1. Default \in Users /\ Source \in Servers
  BY AccountConstants
<1>2. Absent \in Accounts
  BY RowTypes
<1> QED
  BY <1>1, <1>2, KeepType, Zenon DEF NoRequest, Requests, Roles

LEMMA RequestTypes ==
  ASSUME NEW r \in Requests, NEW row \in Accounts,
         NEW pc \in {"idle", "lookup", "verify", "count", "write"}
  PROVE  [r EXCEPT !.pc = pc] \in Requests /\ [r EXCEPT !.seen = row, !.pc = pc] \in Requests
<1>1. [r EXCEPT !.pc = pc] \in Requests
  BY Zenon DEF Requests
<1>2. [r EXCEPT !.seen = row, !.pc = pc] \in Requests
  BY Zenon DEF Requests
<1> QED
  BY <1>1, <1>2

(* What an update writes is a row.                                         *)
LEMMA WrittenType ==
  ASSUME NEW r \in Requests, NEW row \in Accounts, row.role # "none", calls \in Nat
  PROVE  Written(r, row) \in Accounts
<1>0. row \in [role : Roles, active : BOOLEAN, id : Nat, password : Nat]
  BY DEF Accounts, Absent
<1>1. /\ r.wish.role \in Roles \cup {"keep"}
      /\ row.role \in Roles
      /\ row.id \in Nat /\ row.password \in Nat
  BY <1>0 DEF Requests, Change
<1>2. row.active \in BOOLEAN
  BY <1>0, Zenon
<1> DEFINE active == IF r.wish.active = "keep" \/ (r.wish.active = "on") = r.seen.active
                     THEN row.active ELSE r.wish.active = "on"
           role == IF r.wish.role = "keep" \/ r.wish.role = r.seen.role
                   THEN row.role ELSE r.wish.role
           password == IF r.wish.password THEN calls ELSE row.password
<1>3. active \in BOOLEAN
  BY <1>2, Zenon
<1>4. role \in Roles
  BY <1>1
<1>5. password \in Nat
  BY <1>1
<1>6. Written(r, row) = [role |-> role, active |-> active, id |-> row.id, password |-> password]
  BY DEF Written
<1> HIDE DEF active, role, password
<1> QED
  BY <1>1, <1>3, <1>4, <1>5, <1>6, RowTypes

-----------------------------------------------------------------------------
(* A request asks for what its endpoint lets it ask for.                   *)
WishFits == \A s \in Sessions : request[s].wish \in WishOf(request[s].call)

LEMMA TypeInit ==
  ASSUME NEW rows \in [Users -> Accounts], AccountInit(rows), calls = 0
  PROVE  AccountTypeOK
<1> USE AccountConstants
<1>1. NoRows \in [Users -> Accounts]
  BY RowTypes DEF NoRows
<1>2. Seed(rows) \in [Users -> Accounts]
  BY RowTypes DEF Seed
<1>3. admins \in [Servers -> [Users -> Accounts]]
  BY <1>1, <1>2 DEF AccountInit
<1>4. request \in [Sessions -> Requests]
  BY NoRequestType DEF AccountInit
<1>5. immediate \in BOOLEAN /\ guarded \in BOOLEAN
  BY Zenon DEF AccountInit
<1>6. live \in Servers /\ lock \in Sessions \cup {None, Copier} /\ tokens \subseteq Users /\ calls \in Nat
  BY DEF AccountInit
<1> QED
  BY <1>3, <1>4, <1>5, <1>6 DEF AccountTypeOK

LEMMA WishType == \A call : WishOf(call) \subseteq Change
<1>1. Wishes \subseteq Change
  BY AccountConstants
<1> QED
  BY <1>1, KeepType DEF WishOf

LEMMA EndType ==
  ASSUME AccountTypeOK, NEW s \in Sessions, End(s)
  PROVE  request' \in [Sessions -> Requests] /\ lock' \in Sessions \cup {None, Copier}
BY NoRequestType DEF End, Release, AccountTypeOK

LEMMA TypeNext ==
  AccountTypeOK /\ WishFits /\ [AccountNext]_accountVars => AccountTypeOK'
<1> SUFFICES ASSUME AccountTypeOK, WishFits, [AccountNext]_accountVars PROVE AccountTypeOK'
  OBVIOUS
<1> USE AccountConstants
<1>0. /\ admins \in [Servers -> [Users -> Accounts]] /\ live \in Servers
      /\ request \in [Sessions -> Requests] /\ calls \in Nat
      /\ lock \in Sessions \cup {None, Copier} /\ tokens \subseteq Users
  BY DEF AccountTypeOK
<1>01. immediate \in BOOLEAN /\ guarded \in BOOLEAN
  BY DEF AccountTypeOK
<1>02. ASSUME UNCHANGED <<live, immediate, guarded>>, admins' \in [Servers -> [Users -> Accounts]],
              request' \in [Sessions -> Requests], calls' \in Nat,
              lock' \in Sessions \cup {None, Copier}, tokens' \subseteq Users
       PROVE  AccountTypeOK'
  BY <1>0, <1>01, <1>02 DEF AccountTypeOK
<1>1. ASSUME NEW s \in Sessions, NEW u \in Users, LoginRequest(s, u) PROVE AccountTypeOK'
  <2> DEFINE r == [NoRequest EXCEPT !.pc = "lookup", !.call = "login", !.target = u,
                                    !.at = live, !.locks = immediate]
  <2>1. r \in Requests
    BY <1>0, <1>01, <1>1, NoRequestType, Zenon DEF Requests, LoginRequest
  <2>2. request' = [request EXCEPT ![s] = r]
    BY <1>1 DEF LoginRequest
  <2> HIDE DEF r
  <2>3. request' \in [Sessions -> Requests]
    BY <2>1, <2>2, <1>0
  <2> QED
    BY <2>3, <1>0, <1>02, <1>1 DEF LoginRequest
<1>2. ASSUME NEW s \in Sessions, NEW u \in Users \cup {Service}, NEW call \in Calls \ {"login"},
             NEW t \in Users, NEW w \in WishOf(call), Authenticate(s, u, call, t, w)
      PROVE  AccountTypeOK'
  <2> DEFINE r == [pc |-> "lookup", call |-> call, by |-> u, role |-> CallerRole(u), target |-> t,
                   wish |-> w, seen |-> Absent, at |-> live, locks |-> immediate]
  <2>1. CallerRole(u) \in Roles
    BY <1>0, <1>2 DEF Authenticate, Recognised, CallerRole, Exists, Accounts, Absent, Roles
  <2>2. w \in Change /\ Absent \in Accounts
    BY WishType, RowTypes
  <2>3. r \in Requests
    BY <1>0, <1>01, <2>1, <2>2, Zenon DEF Requests
  <2>4. request' = [request EXCEPT ![s] = r]
    BY <1>2 DEF Authenticate
  <2> HIDE DEF r
  <2>5. request' \in [Sessions -> Requests]
    BY <2>3, <2>4, <1>0
  <2> QED
    BY <2>5, <1>0, <1>02, <1>2 DEF Authenticate
<1>3. ASSUME NEW s \in Sessions, Lookup(s) PROVE AccountTypeOK'
  <2> DEFINE r == request[s]
             row == admins[r.at][r.target]
  <2>1. r \in Requests /\ row \in Accounts
    BY <1>0 DEF Requests
  <2>2. CASE Refused(r, row)
    BY <1>0, <1>02, <1>3, <2>2, EndType DEF Lookup
  <2>3. CASE ~Refused(r, row)
    <3>1. PICK pc \in {"verify", "count", "write"} : request' = [request EXCEPT ![s].seen = row, ![s].pc = pc]
      BY <1>3, <2>3 DEF Lookup
    <3>2. [r EXCEPT !.seen = row, !.pc = pc] \in Requests
      BY <2>1, RequestTypes
    <3>3. request' \in [Sessions -> Requests]
      BY <3>1, <3>2, <1>0
    <3>4. lock' \in Sessions \cup {None, Copier}
      BY <1>0, <1>3, <2>3 DEF Lookup, Begin
    <3> QED
      BY <3>3, <3>4, <1>0, <1>02, <1>3 DEF Lookup
  <2> QED
    BY <2>2, <2>3
<1>4. ASSUME NEW s \in Sessions, Count(s) PROVE AccountTypeOK'
  <2>1. CASE End(s)
    BY <1>0, <1>02, <1>4, <2>1, EndType DEF Count
  <2>2. CASE request' = [request EXCEPT ![s].pc = "write"] /\ UNCHANGED lock
    <3>1. request[s] \in Requests
      BY <1>0
    <3>2. [request[s] EXCEPT !.pc = "write"] \in Requests
      BY <3>1, Zenon DEF Requests
    <3>3. request' \in [Sessions -> Requests]
      BY <2>2, <3>2, <1>0
    <3> QED
      BY <2>2, <3>3, <1>0, <1>02, <1>4 DEF Count
  <2> QED
    BY <1>4, <2>1, <2>2 DEF Count
<1>5. ASSUME NEW s \in Sessions, NEW row \in Accounts, Put(s, row)
      PROVE  admins' \in [Servers -> [Users -> Accounts]]
  <2>1. request[s].at \in Servers /\ request[s].target \in Users
    BY <1>0 DEF Requests
  <2> QED
    BY <2>1, <1>0, <1>5 DEF Put
<1>6. ASSUME NEW s \in Sessions, Save(s) PROVE AccountTypeOK'
  <2>1. request[s] \in Requests /\ Current(request[s]) \in Accounts
    BY <1>0 DEF Requests, Current
  <2>2. IsThere(request[s]) => Written(request[s], Current(request[s])) \in Accounts
    BY <2>1, <1>0, WrittenType DEF IsThere
  <2>3. admins' \in [Servers -> [Users -> Accounts]]
    BY <2>2, <1>0, <1>5, <1>6 DEF Save
  <2> QED
    BY <2>3, <1>0, <1>02, <1>6, EndType DEF Save
<1>7. ASSUME NEW s \in Sessions, Delete(s) PROVE AccountTypeOK'
  <2>1. admins' \in [Servers -> [Users -> Accounts]]
    BY <1>0, <1>5, <1>7, RowTypes DEF Delete
  <2> QED
    BY <2>1, <1>0, <1>02, <1>7, EndType DEF Delete
<1>8. ASSUME NEW s \in Sessions, Create(s) PROVE AccountTypeOK'
  <2> DEFINE new == [role |-> request[s].wish.role, active |-> TRUE, id |-> calls, password |-> calls]
  <2>3. request[s].wish.role # "keep"
    <3>1. request[s].wish \in WishOf("create")
      BY <1>8 DEF WishFits, Create
    <3> QED
      BY <3>1 DEF WishOf
  <2>1. CASE UNCHANGED admins
    BY <2>1, <1>0, <1>02, <1>8, EndType DEF Create
  <2>2. CASE Put(s, new)
    <3>1. request[s].wish.role \in Roles
      BY <1>0, <2>3 DEF Requests, Change
    <3>2. new \in Accounts
      BY <3>1, <1>0, RowTypes
    <3> QED
      BY <3>2, <2>2, <1>0, <1>02, <1>5, <1>8, EndType DEF Create
  <2> QED
    BY <1>8, <2>1, <2>2, <2>3 DEF Create
<1>9. ASSUME NEW s \in Sessions, Reject(s) PROVE AccountTypeOK'
  BY <1>0, <1>02, <1>9, EndType DEF Reject
<1>10. ASSUME NEW s \in Sessions, NEW right \in BOOLEAN, Login(s, right) PROVE AccountTypeOK'
  <2>1. request[s].target \in Users
    BY <1>0 DEF Requests
  <2>2. tokens' \subseteq Users
    BY <1>0, <1>10, <2>1 DEF Login
  <2> QED
    BY <2>2, <1>0, <1>02, <1>10, EndType DEF Login
<1>11. CASE UNCHANGED accountVars
  BY <1>0, <1>02, <1>11 DEF accountVars
<1> QED
  BY <1>1, <1>2, <1>3, <1>4, <1>6, <1>7, <1>8, <1>9, <1>10, <1>11 DEF AccountNext, Request
-----------------------------------------------------------------------------
LEMMA WishInit ==
  ASSUME NEW rows, AccountInit(rows) PROVE WishFits
BY DEF AccountInit, WishFits, NoRequest, WishOf

LEMMA WishNext == AccountTypeOK /\ WishFits /\ [AccountNext]_accountVars => WishFits'
<1> SUFFICES ASSUME AccountTypeOK, WishFits, [AccountNext]_accountVars PROVE WishFits'
  OBVIOUS
<1>0. request \in [Sessions -> Requests]
  BY DEF AccountTypeOK
<1>1. NoRequest.wish \in WishOf(NoRequest.call)
  BY DEF NoRequest, WishOf
<1>2. ASSUME NEW s \in Sessions, End(s) PROVE WishFits'
  BY <1>0, <1>1, <1>2 DEF End, WishFits
<1>3. ASSUME NEW s \in Sessions, NEW u \in Users, LoginRequest(s, u) PROVE WishFits'
  <2>1. Keep \in WishOf("login")
    BY DEF WishOf
  <2> QED
    BY <1>0, <1>3, <2>1 DEF LoginRequest, WishFits, NoRequest
<1>4. ASSUME NEW s \in Sessions, NEW u \in Users \cup {Service}, NEW call \in Calls \ {"login"},
             NEW t \in Users, NEW w \in WishOf(call), Authenticate(s, u, call, t, w)
      PROVE  WishFits'
  BY <1>0, <1>4 DEF Authenticate, WishFits
<1>5. ASSUME NEW s \in Sessions, Lookup(s) PROVE WishFits'
  <2>1. CASE End(s)
    BY <1>2, <2>1
  <2>2. CASE \E pc \in {"verify", "count", "write"} :
               request' = [request EXCEPT ![s].seen = admins[request[s].at][request[s].target],
                                          ![s].pc = pc]
    BY <1>0, <2>2 DEF WishFits, Requests
  <2> QED
    BY <1>5, <2>1, <2>2 DEF Lookup
<1>6. ASSUME NEW s \in Sessions, Count(s) PROVE WishFits'
  <2>1. CASE End(s)
    BY <1>2, <2>1
  <2>2. CASE request' = [request EXCEPT ![s].pc = "write"]
    BY <1>0, <2>2 DEF WishFits, Requests
  <2> QED
    BY <1>6, <2>1, <2>2 DEF Count
<1>7. ASSUME NEW s \in Sessions, Save(s) \/ Delete(s) \/ Create(s) \/ Reject(s) PROVE WishFits'
  BY <1>2, <1>7 DEF Save, Delete, Create, Reject
<1>8. ASSUME NEW s \in Sessions, NEW right \in BOOLEAN, Login(s, right) PROVE WishFits'
  BY <1>2, <1>8 DEF Login
<1>9. CASE UNCHANGED accountVars
  BY <1>9 DEF accountVars, WishFits
<1> QED
  BY <1>3, <1>4, <1>5, <1>6, <1>7, <1>8, <1>9 DEF AccountNext, Request

(* Every account, request and token keeps its type, with any requests      *)
(* crossing each other, on both databases (db/models.py, admin_auth.py).   *)
THEOREM AccountsTyped == AccountSpec => []AccountTypeOK
<1>1. ASSUME NEW rows \in [Users -> Accounts], AccountInit(rows), calls = 0
      PROVE  AccountTypeOK /\ WishFits
  BY <1>1, TypeInit, WishInit
<1>2. AccountTypeOK /\ WishFits /\ [AccountNext]_accountVars => (AccountTypeOK /\ WishFits)'
  BY TypeNext, WishNext
<1>3. (\E rows \in [Users -> Accounts] : Ready(rows) /\ AccountInit(rows)) /\ calls = 0
        => AccountTypeOK /\ WishFits
  BY <1>1
<1> QED
  BY <1>2, <1>3, PTL DEF AccountSpec

-----------------------------------------------------------------------------
(* The last superadmin.  On SQLite a request that has looked its target up *)
(* holds the write lock, so that it sees the row as it is, and one that    *)
(* may take a superadmin away has counted another one.                     *)

Late(s)   == request[s].pc \in {"verify", "count", "write"} /\ request[s].at = Source
Bound     == guarded /\ live = Source => immediate
Locks     == guarded => \A s \in Sessions :
               request[s].pc # "idle" /\ request[s].at = Source => request[s].locks
Holds     == guarded => \A s \in Sessions : Late(s) => lock = s
SeenIsRow == guarded => \A s \in Sessions : Late(s) =>
               request[s].seen = admins[Source][request[s].target]
Counted   == guarded => \A s \in Sessions :
               Late(s) /\ request[s].pc = "write" /\ Counts(request[s], request[s].seen) =>
                 \E u \in Superadmins(admins[Source]) : u # request[s].target
AccountInv == /\ AccountTypeOK /\ WishFits /\ Bound
              /\ Locks /\ Holds /\ SeenIsRow /\ Counted /\ SuperadminRemains

LEMMA InvInit ==
  ASSUME NEW rows \in [Users -> Accounts], Ready(rows), AccountInit(rows), calls = 0
  PROVE  AccountInv
<1> USE AccountConstants
<1>1. AccountTypeOK /\ WishFits
  BY TypeInit, WishInit
<1>2. \A s \in Sessions : request[s] = NoRequest
  BY DEF AccountInit
<1>3. Bound /\ Locks /\ Holds /\ SeenIsRow /\ Counted
  BY <1>2 DEF AccountInit, Bound, Locks, Holds, Late, SeenIsRow, Counted, NoRequest
<1>4. admins[Source] = Seed(rows)
  BY DEF AccountInit
<1>5. Superadmins(Seed(rows)) # {}
  <2>1. CASE rows = NoRows
    <3>1. Seed(rows) = [rows EXCEPT ![Default] = Seeded]
      BY <2>1 DEF Seed
    <3>2. Default \in Superadmins(Seed(rows))
      BY <3>1 DEF Superadmins, Seeded
    <3> QED
      BY <3>2
  <2>2. CASE rows # NoRows
    BY <2>2 DEF Ready, Seed
  <2> QED
    BY <2>1, <2>2
<1> QED
  BY <1>1, <1>3, <1>4, <1>5 DEF AccountInv, SuperadminRemains

(* More than one, apart from the target: one that is not the target.       *)
LEMMA AnotherOne ==
  ASSUME NEW S \in SUBSET Users, NEW t \in Users, NEW T \in SUBSET {t},
         ~(Cardinality(S \cup T) <= 1)
  PROVE  \E u \in S : u # t
<1> SUFFICES ASSUME S \subseteq {t} PROVE FALSE
  OBVIOUS
<1>1. IsFiniteSet({t}) /\ Cardinality({t}) = 1
  BY FS_Singleton
<1>2. S \cup T \in SUBSET {t}
  OBVIOUS
<1>3. Cardinality(S \cup T) <= Cardinality({t})
  BY <1>1, <1>2, FS_Subset
<1> QED
  BY <1>1, <1>3

-----------------------------------------------------------------------------
Rest == Bound /\ Locks /\ Holds /\ SeenIsRow /\ Counted /\ SuperadminRemains

(* While one request of the source acts, no other one is past its first    *)
(* statement.                                                              *)
LEMMA Alone ==
  ASSUME AccountInv, guarded, NEW s \in Sessions, request[s].pc # "idle", request[s].at = Source,
         Late(s) \/ MayGo(s), NEW other \in Sessions \ {s}
  PROVE  ~Late(other)
<1>1. None \notin Sessions
  BY AccountConstants
<1>2. request[s].locks
  BY DEF AccountInv, Locks
<1>3. lock \in {None, s}
  BY <1>2 DEF MayGo, AccountInv, Holds
<1> QED
  BY <1>1, <1>3 DEF AccountInv, Holds

(* A request that is not late afterwards, and does not touch the source's  *)
(* rows or another one's lock, disturbs nothing.                           *)
LEMMA OthersKeep ==
  ASSUME AccountInv, NEW s \in Sessions, NEW r, request' = [request EXCEPT ![s] = r],
         r.pc \in {"idle", "lookup"} \/ r.at # Source,
         guarded /\ r.pc # "idle" /\ r.at = Source => r.locks,
         UNCHANGED <<live, immediate, guarded>>, admins'[Source] = admins[Source],
         \A o \in Sessions \ {s} : guarded /\ Late(o) /\ lock = o => lock' = o
  PROVE  Rest'
<1>0. request \in [Sessions -> Requests]
  BY DEF AccountInv, AccountTypeOK
<1>1. request'[s] = r /\ \A o \in Sessions \ {s} : request'[o] = request[o]
  BY <1>0
<1>2. ~Late(s)' /\ \A o \in Sessions \ {s} : Late(o)' = Late(o)
  BY <1>1 DEF Late
<1>3. Bound' /\ Locks' /\ SuperadminRemains'
  BY <1>1 DEF AccountInv, Bound, Locks, SuperadminRemains
<1>4. Holds' /\ SeenIsRow' /\ Counted'
  BY <1>1, <1>2 DEF AccountInv, Holds, SeenIsRow, Counted
<1> QED
  BY <1>3, <1>4 DEF Rest

(* So does one that ends without a write, or with one to another server.   *)
LEMMA EndKeeps ==
  ASSUME AccountInv, NEW s \in Sessions, End(s), UNCHANGED <<live, immediate, guarded>>,
         admins'[Source] = admins[Source]
  PROVE  Rest'
<1>1. NoRequest.pc = "idle"
  BY DEF NoRequest
<1>2. \A o \in Sessions \ {s} : lock = o => lock' = o
  BY DEF End, Release
<1> QED
  BY <1>1, <1>2, OthersKeep DEF End

(* A write of a row leaves a superadmin: it leaves the target one, or the  *)
(* target was not the only one.                                            *)
LEMMA PutKeeps ==
  ASSUME AccountInv, guarded, NEW s \in Sessions, Late(s), request[s].pc = "write",
         NEW row, Put(s, row), End(s), UNCHANGED <<live, immediate, guarded>>,
         \/ /\ admins[Source][request[s].target].role = "superadmin"
            /\ admins[Source][request[s].target].active
            => row.role = "superadmin" /\ row.active
         \/ Counts(request[s], request[s].seen)
  PROVE  Rest'
<1> DEFINE t == request[s].target
<1>1. /\ request[s].at = Source /\ admins \in [Servers -> [Users -> Accounts]]
      /\ Source \in Servers /\ t \in Users /\ request \in [Sessions -> Requests]
  BY AccountConstants DEF AccountInv, AccountTypeOK, Late, Requests
<1>2. admins'[Source] = [admins[Source] EXCEPT ![t] = row]
  BY <1>1 DEF Put
<1>3. /\ admins'[Source][t] = row
      /\ \A u \in Users \ {t} : admins'[Source][u] = admins[Source][u]
  BY <1>1, <1>2
<1>4. ASSUME Counts(request[s], request[s].seen) PROVE SuperadminRemains'
  <2>1. PICK u \in Superadmins(admins[Source]) : u # t
    BY <1>4 DEF AccountInv, Counted
  <2>2. u \in Superadmins(admins'[Source])
    BY <2>1, <1>3 DEF Superadmins
  <2> QED
    BY <2>2 DEF SuperadminRemains
<1>5. ASSUME /\ admins[Source][t].role = "superadmin" /\ admins[Source][t].active
             => row.role = "superadmin" /\ row.active
      PROVE  SuperadminRemains'
  <2>1. PICK u : u \in Superadmins(admins[Source])
    BY DEF AccountInv, SuperadminRemains
  <2>2. u \in Superadmins(admins'[Source])
    BY <2>1, <1>1, <1>3, <1>5 DEF Superadmins
  <2> QED
    BY <2>2 DEF SuperadminRemains
<1>6. request'[s] = NoRequest /\ \A o \in Sessions \ {s} : request'[o] = request[o]
  BY <1>1 DEF End
<1>7. \A o \in Sessions : ~Late(o)'
  BY <1>1, <1>6, Alone DEF Late, NoRequest
<1>8. Bound' /\ Locks' /\ Holds' /\ SeenIsRow' /\ Counted'
  BY <1>6, <1>7 DEF AccountInv, Bound, Locks, Holds, SeenIsRow, Counted, NoRequest
<1> QED
  BY <1>4, <1>5, <1>8 DEF Rest

(* An update that did not have to count leaves a superadmin one.           *)
LEMMA SaveLeaves ==
  ASSUME AccountInv, NEW s \in Sessions, request[s].call \in {"status", "update", "password"},
         NEW row \in Accounts, row = request[s].seen, row.role = "superadmin", row.active,
         ~Counts(request[s], row)
  PROVE  Written(request[s], row).role = "superadmin" /\ Written(request[s], row).active
<1> DEFINE w == request[s].wish
<1>1. w \in WishOf(request[s].call) /\ w \in Change
  BY WishType DEF AccountInv, WishFits
<1>2. CASE request[s].call = "status"
  <2>1. w.role = "keep" /\ w.active = "on"
    BY <1>1, <1>2 DEF WishOf, Change, Counts
  <2> QED
    BY <2>1 DEF Written
<1>3. CASE request[s].call = "update"
  <2>1. w.role \in {"keep", "superadmin"} /\ w.active # "off"
    BY <1>3 DEF Counts, Demotes, Deactivates, Becomes
  <2>2. w.active \in {"keep", "on"}
    BY <2>1, <1>1 DEF Change
  <2> QED
    BY <2>1, <2>2 DEF Written
<1>4. CASE request[s].call = "password"
  <2>1. w.role = "keep" /\ w.active = "keep"
    BY <1>1, <1>4 DEF WishOf, Keep
  <2> QED
    BY <2>1 DEF Written
<1> QED
  BY <1>2, <1>3, <1>4

LEMMA WriteKeeps ==
  ASSUME AccountInv, NEW s \in Sessions, Save(s) \/ Delete(s) \/ Create(s) PROVE Rest'
<1> DEFINE r == request[s]
           row == admins[Source][r.target]
<1>1. /\ r.pc = "write" /\ r \in Requests /\ End(s) /\ UNCHANGED <<live, immediate, guarded>>
      /\ admins \in [Servers -> [Users -> Accounts]] /\ Source \in Servers
  BY AccountConstants DEF Save, Delete, Create, AccountInv, AccountTypeOK
<1>2. CASE UNCHANGED admins
  BY <1>1, <1>2, EndKeeps
<1>3. CASE r.at # Source /\ \E new : Put(s, new)
  <2>1. admins'[Source] = admins[Source]
    BY <1>1, <1>3 DEF Put
  <2> QED
    BY <1>1, <2>1, EndKeeps
<1>4. CASE ~guarded
  BY <1>1, <1>4 DEF Rest, Bound, Locks, Holds, SeenIsRow, Counted, SuperadminRemains
<1>5. ASSUME r.at = Source, guarded
      PROVE  Late(s) /\ row = r.seen /\ row \in Accounts /\ Current(r) = row
  BY <1>1, <1>5 DEF AccountInv, Late, SeenIsRow, Current, Requests
<1>6. CASE r.at = Source /\ guarded /\ Save(s) /\ Put(s, Written(r, row))
  <2>1. Counts(r, r.seen) \/ (row.role = "superadmin" /\ row.active
          => Written(r, row).role = "superadmin" /\ Written(r, row).active)
    BY <1>5, <1>6, SaveLeaves DEF Save
  <2> QED
    BY <1>1, <1>5, <1>6, <2>1, PutKeeps
<1>7. CASE r.at = Source /\ guarded /\ Delete(s) /\ Put(s, Absent)
  <2>1. Counts(r, r.seen) \/ row.role # "superadmin"
    BY <1>5, <1>7 DEF Delete, Counts
  <2> QED
    BY <1>1, <1>5, <1>7, <2>1, PutKeeps
<1>8. CASE r.at = Source /\ guarded /\ row.role = "none" /\ \E new : Put(s, new)
  BY <1>1, <1>5, <1>8, PutKeeps
<1> QED
  BY <1>2, <1>3, <1>4, <1>5, <1>6, <1>7, <1>8 DEF Save, Delete, Create

(* A new request has not read a row yet.                                   *)
LEMMA NewKeeps ==
  ASSUME AccountInv, NEW s \in Sessions, NEW r, request' = [request EXCEPT ![s] = r],
         r.pc = "lookup", r.at = live, r.locks = immediate,
         UNCHANGED <<admins, live, immediate, guarded, lock>>
  PROVE  Rest'
<1>1. guarded /\ r.at = Source => r.locks
  BY DEF AccountInv, Bound
<1> QED
  BY <1>1, OthersKeep

(* The first statement takes the lock and reads the row.                   *)
LEMMA LookupKeeps ==
  ASSUME AccountInv, NEW s \in Sessions, Lookup(s) PROVE Rest'
<1> DEFINE r == request[s]
           row == admins[r.at][r.target]
<1>0. /\ request \in [Sessions -> Requests] /\ r.pc = "lookup" /\ MayGo(s)
      /\ UNCHANGED <<admins, live, immediate, guarded>>
  BY DEF AccountInv, AccountTypeOK, Lookup
<1>1. CASE End(s)
  BY <1>0, <1>1, EndKeeps
<1>2. ASSUME ~Refused(r, row) PROVE Rest'
  <2>1. PICK pc \in {"verify", "count", "write"} :
          /\ request' = [request EXCEPT ![s].seen = row, ![s].pc = pc]
          /\ pc = "write" => r.call = "login" \/ ~Counts(r, row)
    BY <1>2 DEF Lookup
  <2> DEFINE new == [r EXCEPT !.seen = row, !.pc = pc]
  <2>2. /\ request' = [request EXCEPT ![s] = new]
        /\ request'[s] = new
        /\ \A o \in Sessions \ {s} : request'[o] = request[o]
    BY <1>0, <2>1
  <2>3. /\ new.pc = pc /\ new.seen = row /\ new.target = r.target /\ new.at = r.at
        /\ new.locks = r.locks /\ new.call = r.call /\ new.wish = r.wish
    BY <1>0 DEF Requests
  <2> HIDE DEF new
  <2>4. CASE r.at # Source
    <3>1. \A o \in Sessions \ {s} : lock = o => lock' = o
      BY <1>0, <1>2, AccountConstants DEF Lookup, Begin, MayGo
    <3> QED
      BY <1>0, <2>2, <2>3, <2>4, <3>1, OthersKeep
  <2>5. CASE ~guarded
    BY <1>0, <2>5 DEF Rest, Bound, Locks, Holds, SeenIsRow, Counted, SuperadminRemains
  <2>6. CASE r.at = Source /\ guarded
    <3>1. r.locks
      BY <1>0, <2>6 DEF AccountInv, Locks
    <3>2. \A o \in Sessions \ {s} : ~Late(o) /\ ~Late(o)'
      BY <1>0, <2>2, <2>6, Alone DEF Late
    <3>3. lock' = s
      BY <1>2, <3>1 DEF Lookup, Begin
    <3>4. Bound' /\ Locks' /\ SuperadminRemains'
      BY <1>0, <2>2, <2>3, <3>1 DEF AccountInv, Bound, Locks, SuperadminRemains
    <3>5. Holds' /\ SeenIsRow'
      BY <1>0, <2>2, <2>3, <2>6, <3>2, <3>3 DEF Holds, SeenIsRow
    <3>6. pc = "write" => ~Counts(request'[s], request'[s].seen)
      BY <2>1, <2>2, <2>3 DEF Counts, Demotes, Deactivates, Becomes
    <3>7. Counted'
      BY <2>2, <2>3, <3>2, <3>6 DEF Counted
    <3> QED
      BY <3>4, <3>5, <3>7 DEF Rest
  <2> QED
    BY <2>4, <2>5, <2>6
<1> QED
  BY <1>1, <1>2 DEF Lookup

(* The count finds another superadmin than the target.                     *)
LEMMA CountKeeps ==
  ASSUME AccountInv, NEW s \in Sessions, Count(s) PROVE Rest'
<1> DEFINE r == request[s]
           rows == admins[r.at]
           promoted == IF r.seen.role # "superadmin" /\ rows[r.target].active
                       THEN {r.target} ELSE {}
<1>0. /\ request \in [Sessions -> Requests] /\ r.pc = "count"
      /\ UNCHANGED <<admins, live, immediate, guarded>>
  BY DEF AccountInv, AccountTypeOK, Count
<1>1. CASE End(s)
  BY <1>0, <1>1, EndKeeps
<1>2. ASSUME ~(Cardinality(Superadmins(rows) \cup promoted) <= 1),
             request' = [request EXCEPT ![s].pc = "write"], UNCHANGED lock
      PROVE  Rest'
  <2> DEFINE new == [r EXCEPT !.pc = "write"]
  <2>1. /\ request' = [request EXCEPT ![s] = new]
        /\ request'[s] = new
        /\ \A o \in Sessions \ {s} : request'[o] = request[o]
    BY <1>0, <1>2
  <2>2. /\ new.pc = "write" /\ new.target = r.target /\ new.seen = r.seen
        /\ new.at = r.at /\ new.locks = r.locks
    BY <1>0 DEF Requests
  <2> HIDE DEF new
  <2>3. CASE r.at # Source
    BY <1>0, <1>2, <2>1, <2>2, <2>3, OthersKeep
  <2>4. CASE ~guarded
    BY <1>0, <2>4 DEF Rest, Bound, Locks, Holds, SeenIsRow, Counted, SuperadminRemains
  <2>5. CASE r.at = Source /\ guarded
    <3>1. r.target \in Users /\ Late(s)
      BY <1>0, <2>5 DEF Requests, Late
    <3>2. Superadmins(rows) \in SUBSET Users /\ promoted \in SUBSET {r.target}
      BY DEF Superadmins
    <3>3. \E u \in Superadmins(admins[Source]) : u # r.target
      <4> HIDE DEF promoted
      <4> QED
        BY <1>2, <2>5, <3>1, <3>2, AnotherOne
    <3>4. \A o \in Sessions \ {s} : ~Late(o)'
      BY <1>0, <2>1, <2>5, <3>1, Alone DEF Late
    <3>5. Bound' /\ Locks' /\ SuperadminRemains'
      BY <1>0, <2>1, <2>2 DEF AccountInv, Bound, Locks, SuperadminRemains
    <3>6. Holds' /\ SeenIsRow'
      BY <1>0, <1>2, <2>1, <2>2, <3>1, <3>4 DEF AccountInv, Holds, SeenIsRow
    <3>7. \E u \in Superadmins(admins'[Source]) : u # request'[s].target
      BY <1>0, <2>1, <2>2, <3>3
    <3>8. Counted'
      BY <3>4, <3>7 DEF Counted
    <3> QED
      BY <3>5, <3>6, <3>8 DEF Rest
  <2> QED
    BY <2>3, <2>4, <2>5
<1> QED
  BY <1>1, <1>2 DEF Count

LEMMA InvNext == AccountInv /\ [AccountNext]_accountVars => AccountInv'
<1> SUFFICES ASSUME AccountInv, [AccountNext]_accountVars PROVE AccountInv'
  OBVIOUS
<1>1. AccountTypeOK' /\ WishFits'
  BY TypeNext, WishNext DEF AccountInv
<1>2. ASSUME NEW s \in Sessions, NEW u \in Users, LoginRequest(s, u) PROVE Rest'
  <2> DEFINE r == [NoRequest EXCEPT !.pc = "lookup", !.call = "login", !.target = u,
                                    !.at = live, !.locks = immediate]
  <2>1. r.pc = "lookup" /\ r.at = live /\ r.locks = immediate
    BY DEF NoRequest
  <2> QED
    BY <1>2, <2>1, NewKeeps DEF LoginRequest
<1>3. ASSUME NEW s \in Sessions, NEW u \in Users \cup {Service}, NEW call \in Calls \ {"login"},
             NEW t \in Users, NEW w \in WishOf(call), Authenticate(s, u, call, t, w)
      PROVE  Rest'
  <2> DEFINE r == [pc |-> "lookup", call |-> call, by |-> u, role |-> CallerRole(u), target |-> t,
                   wish |-> w, seen |-> Absent, at |-> live, locks |-> immediate]
  <2>1. r.pc = "lookup" /\ r.at = live /\ r.locks = immediate
    OBVIOUS
  <2>2. /\ request' = [request EXCEPT ![s] = r]
        /\ UNCHANGED <<admins, live, immediate, guarded, lock>>
    BY <1>3 DEF Authenticate
  <2> HIDE DEF r
  <2> QED
    BY <2>1, <2>2, NewKeeps
<1>4. ASSUME NEW s \in Sessions, Lookup(s) \/ Count(s) PROVE Rest'
  BY <1>4, LookupKeeps, CountKeeps
<1>5. ASSUME NEW s \in Sessions, Save(s) \/ Delete(s) \/ Create(s) PROVE Rest'
  BY <1>5, WriteKeeps
<1>6. ASSUME NEW s \in Sessions, Reject(s) PROVE Rest'
  BY <1>6, EndKeeps DEF Reject
<1>7. ASSUME NEW s \in Sessions, NEW right \in BOOLEAN, Login(s, right) PROVE Rest'
  BY <1>7, EndKeeps DEF Login
<1>8. ASSUME UNCHANGED accountVars PROVE Rest'
  <2>1. UNCHANGED <<admins, live, immediate, guarded, lock, request>>
    BY <1>8 DEF accountVars
  <2>2. Bound' /\ Locks' /\ SuperadminRemains'
    BY <2>1 DEF AccountInv, Bound, Locks, SuperadminRemains
  <2>3. Holds' /\ SeenIsRow'
    BY <2>1 DEF AccountInv, Holds, SeenIsRow, Late
  <2>4. Counted'
    BY <2>1 DEF AccountInv, Counted, Late
  <2> QED
    BY <2>2, <2>3, <2>4 DEF Rest
<1> QED
  BY <1>1, <1>2, <1>3, <1>4, <1>5, <1>6, <1>7, <1>8
  DEF AccountNext, Request, AccountInv, Rest

(* The SQLite database is never without an active superadmin: the write    *)
(* lock, taken with a request's first statement, makes the count of the    *)
(* superadmins and the change one step, whatever other requests do         *)
(* (toggle_admin_user_status, update_admin_user, delete_admin_user).       *)
THEOREM SuperadminStays == AccountSpec => []SuperadminRemains
<1>1. (\E rows \in [Users -> Accounts] : Ready(rows) /\ AccountInit(rows)) /\ calls = 0
        => AccountInv
  BY InvInit
<1>2. AccountInv /\ [AccountNext]_accountVars => AccountInv'
  BY InvNext
<1>3. AccountInv => SuperadminRemains
  BY DEF AccountInv
<1> QED
  BY <1>1, <1>2, <1>3, PTL DEF AccountSpec
================================================================================
